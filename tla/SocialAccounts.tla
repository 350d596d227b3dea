--------------------------- MODULE SocialAccounts ---------------------------
(***************************************************************************)
(* Sign-in with a provider beside the flows that make, move and remove the *)
(* users it is linked to: sign up, change of address and deletion.         *)
(***************************************************************************)
EXTENDS SignUp, UpdateEmail, UserDeletion, SocialAuth

(* Three kinds of history: requests that overlap, with errors that are         *)
(* swallowed; one request at a time, with addresses that change and users that *)
(* are deleted; one request at a time that may be cut short, where addresses   *)
(* stay.                                                                       *)
Scenario == {"overlap", "moves", "stays"}

(* Bounds of each: the requests served at once, the flows cut short, the users *)
(* added, the tokens drawn, and the accounts at providers that there are.      *)
CONSTANT Bound

ASSUME BoundAssumption ==
    Bound \in [Scenario -> [busy : Nat \ {0}, failures : Nat, users : Nat,
                            tokens : Nat, profiles : SUBSET Profile]]
ASSUME RequestsAssumption ==
    /\ IsFiniteSet(SignUpRequest) /\ IsFiniteSet(EmailRequest)
    /\ IsFiniteSet(DeleteRequest) /\ IsFiniteSet(SocialRequest)

VARIABLES
    failures,  \* how many flows were cut short
    scenario   \* of which kind this history is; never changes

fixed   == <<scenario, swallowing>>
allVars == <<store, su, ue, dl, socialVars, failures, fixed>>

AllInit ==
    /\ scenario \in Scenario
    /\ SignUpInit /\ EmailInit /\ DeleteInit /\ SocialInit
    /\ \A p \in Profile : profileEmail[p] = Nil <=> p \notin Bound[scenario].profiles
    /\ failures = 0
    /\ swallowing = (ErrorsSwallowed /\ scenario = "overlap")

(* Every handler keeps the values its next call needs, and in particular a     *)
(* social sign-in never links an account without having found or added a user. *)
AllTypeOK ==
    /\ SignUpTypeOK /\ EmailTypeOK /\ DeleteTypeOK /\ SocialTypeOK
    /\ scenario \in Scenario
    /\ failures \in 0..Bound[scenario].failures

Busy ==
    Cardinality({r \in SignUpRequest : su[r].pc # "idle"})
    + Cardinality({r \in EmailRequest : ue[r].pc # "idle"})
    + Cardinality({r \in DeleteRequest : dl[r].pc # "idle"})
    + Cardinality({r \in SocialRequest : sa[r].pc # "idle"})

OnlySignUp == UNCHANGED <<ue, dl, socialVars>>
OnlyEmail  == UNCHANGED <<su, dl, socialVars>>
OnlyDelete == UNCHANGED <<su, ue, profileEmail, socialInfo, socialSession, sa>>
OnlySocial == UNCHANGED <<su, ue, dl>>

-----------------------------------------------------------------------------
(* A session of either kind serves to change the address of its user.          *)
SocialSignedIn(p) ==
    /\ p \in socialSession
    /\ socialLogin[p] # Nil

SocialUpdateEmailRequest(r, p, n) ==
    /\ EmailAt(r, "idle")
    /\ SocialSignedIn(p)
    /\ ue' = [ue EXCEPT ![r] = [EmailIdle EXCEPT !.pc = "retrieveUser", !.op = "request",
                   !.id = socialLogin[p], !.new = n, !.login = socialLogin[p]]]
    /\ UNCHANGED store

SocialChangeEmail(r, p, t) ==
    /\ EmailAt(r, "idle")
    /\ SocialSignedIn(p)
    /\ TokenKnown(t, "email")
    /\ ue' = [ue EXCEPT ![r] = [EmailIdle EXCEPT !.pc = "retrieveUser", !.op = "change",
                   !.id = socialLogin[p], !.token = t, !.login = socialLogin[p]]]
    /\ UNCHANGED store

(* The login infos of all providers go, and those of all providers keep a row. *)
DeleteEveryLogin(r) ==
    /\ DeleteLogins(r)
    /\ socialLogin' =
         [p \in Profile |-> IF socialLogin[p] = dl[r].user THEN Nil ELSE socialLogin[p]]

SocialReferenced(u) == \E p \in Profile : socialLogin[p] = u

PurgeUnlinked(r) == Purge(r) /\ ~SocialReferenced(dl[r].user) /\ UNCHANGED socialLogin

PurgeLinked(r) ==
    /\ DeleteAt(r, "purge")
    /\ SocialReferenced(dl[r].user)
    /\ DeleteAnswer(r)
    /\ UNCHANGED <<store, socialLogin>>

-----------------------------------------------------------------------------
Arrival ==
    /\ Busy < Bound[scenario].busy
    /\ \/ OnlySignUp /\ \E r \in SignUpRequest : SignUpArrives(r)
       \/ OnlySocial /\ \E r \in SocialRequest : SocialArrives(r)
       \/ /\ scenario = "moves"
          /\ \/ OnlyEmail /\ \E r \in EmailRequest : EmailArrives(r)
             \/ OnlyEmail /\ \E r \in EmailRequest, p \in Profile, e \in Email :
                                SocialUpdateEmailRequest(r, p, e)
             \/ OnlyEmail /\ \E r \in EmailRequest, p \in Profile, t \in Token :
                                SocialChangeEmail(r, p, t)
             \/ OnlyDelete /\ UNCHANGED socialLogin /\ \E r \in DeleteRequest : DeleteArrives(r)
    /\ UNCHANGED <<failures, fixed>>

Call ==
    /\ \/ OnlySignUp /\ \E r \in SignUpRequest : SignUpStep(r)
       \/ OnlyEmail /\ \E r \in EmailRequest : EmailStep(r)
       \/ OnlyDelete /\ UNCHANGED socialLogin /\ \E r \in DeleteRequest : Archive(r)
       \/ OnlyDelete /\ \E r \in DeleteRequest :
                           DeleteEveryLogin(r) \/ PurgeUnlinked(r) \/ PurgeLinked(r)
       \/ OnlySocial /\ \E r \in SocialRequest : SocialStep(r)
    /\ Cardinality({u \in UserId : user'[u].row # "never"}) <= Bound[scenario].users
    /\ Cardinality(Token \ FreshTokens') <= Bound[scenario].tokens
    /\ UNCHANGED <<failures, fixed>>

Failure ==
    /\ failures < Bound[scenario].failures
    /\ failures' = failures + 1
    /\ UNCHANGED fixed
    /\ \/ OnlySignUp /\ \E r \in SignUpRequest : Abort(r)
       \/ OnlyEmail /\ \E r \in EmailRequest : EmailAbort(r)
       \/ OnlyDelete /\ UNCHANGED socialLogin /\ \E r \in DeleteRequest : DeleteAbort(r)
       \/ OnlySocial /\ \E r \in SocialRequest : SocialAbort(r)

Outside ==
    /\ \/ OnlySignUp /\ UNCHANGED su /\ \E t \in Token : TokenExpires(t)
       \/ OnlySignUp /\ UNCHANGED su /\ \E e \in Email : SessionExpires(e)
       \/ /\ scenario # "stays"
          /\ OnlySocial /\ \E p \in Profile, e \in Email : ProfileMoves(p, e)
       \/ OnlySocial /\ \E p \in Profile : SocialSessionExpires(p)
    /\ UNCHANGED <<failures, fixed>>

AllNext == Arrival \/ Call \/ Failure \/ Outside

AllSpec == AllInit /\ [][AllNext]_allVars

-----------------------------------------------------------------------------
(* A social sign-in that was accepted opens a session of a user that has the   *)
(* address the provider vouched for, whatever was changed or removed before    *)
(* (AccountService.handleUserOptAndAuthLoginInfoOpt).                          *)
SignedInAsProfile ==
    \A r \in SocialRequest : SocialAt(r, "openSession") =>
        /\ socialLogin[sa[r].profile] # Nil
        /\ user[socialLogin[sa[r].profile]].email = sa[r].email

(* Requests that do not overlap give an address to one live user at most,      *)
(* whichever way they come in and wherever they are cut short: the user is     *)
(* looked up by address before the provider's key (createOrRetrieve), and an   *)
(* address is checked again when its link is followed (updateEmail).           *)
OneUserPerEmailSerially == scenario # "overlap" => OneUserPerEmail

(* Whoever signed in with a provider once can do so again: the account's       *)
(* address and its key lead to the same user, and to no other, so that neither *)
(* "TODO" nor a MatchError awaits the next sign-in. As long as addresses stay  *)
(* and nobody is deleted, wherever a flow is cut short                         *)
(* (AccountService.createOrRetrieve, save).                                    *)
DoorStaysOpen ==
    scenario = "stays" => \A p \in Profile :
        socialLogin[p] # Nil => FindByEmail(profileEmail[p]) = {socialLogin[p]}
=============================================================================
