------------------------------ MODULE Accounts ------------------------------
(***************************************************************************)
(* Every flow that writes the account tables, over one store: sign up and  *)
(* confirmation, log in, change of address, forgotten password, deletion.  *)
(* A step is one call of one flow; the calls of different flows interleave.*)
(***************************************************************************)
EXTENDS SignUp, LogIn, UpdateEmail, ForgotPassword, UserDeletion

CONSTANTS
    MaxBusy,      \* bound: the requests served at once, over all flows
    MaxFailures   \* bound: the flows that a failing call or a stop cuts short

ASSUME BoundsAssumption == MaxBusy \in Nat \ {0} /\ MaxFailures \in Nat
ASSUME RequestsAssumption ==
    \A R \in {SignUpRequest, LogInRequest, EmailRequest, ForgotRequest, DeleteRequest} :
        IsFiniteSet(R)

VARIABLE failures  \* how many flows were cut short

accountsVars == <<store, su, li, ue, fp, dl, failures, swallowing>>

AccountsInit ==
    /\ SignUpInit /\ LogInInit /\ EmailInit /\ ForgotInit /\ DeleteInit
    /\ failures = 0

(* Each flow's handlers keep the values its next call needs, in every          *)
(* interleaving with the other flows.                                          *)
AccountsTypeOK ==
    /\ SignUpTypeOK /\ LogInTypeOK /\ EmailTypeOK /\ ForgotTypeOK /\ DeleteTypeOK
    /\ failures \in 0..MaxFailures

Busy ==
    Cardinality({r \in SignUpRequest : su[r].pc # "idle"})
    + Cardinality({r \in LogInRequest : li[r].pc # "idle"})
    + Cardinality({r \in EmailRequest : ue[r].pc # "idle"})
    + Cardinality({r \in ForgotRequest : fp[r].pc # "idle"})
    + Cardinality({r \in DeleteRequest : dl[r].pc # "idle"})

OnlySignUp == UNCHANGED <<li, ue, fp, dl>>
OnlyLogIn  == UNCHANGED <<su, ue, fp, dl>>
OnlyEmail  == UNCHANGED <<su, li, fp, dl>>
OnlyForgot == UNCHANGED <<su, li, ue, dl>>
OnlyDelete == UNCHANGED <<su, li, ue, fp>>

Arrival ==
    /\ Busy < MaxBusy
    /\ \/ OnlySignUp /\ \E r \in SignUpRequest : SignUpArrives(r)
       \/ OnlyLogIn /\ \E r \in LogInRequest : LogInArrives(r)
       \/ OnlyEmail /\ \E r \in EmailRequest : EmailArrives(r)
       \/ OnlyForgot /\ \E r \in ForgotRequest : ForgotArrives(r)
       \/ OnlyDelete /\ \E r \in DeleteRequest : DeleteArrives(r)
    /\ UNCHANGED <<failures, swallowing>>

SignUpCall(r) == SignUpStep(r) /\ OnlySignUp /\ UNCHANGED <<failures, swallowing>>
LogInCall(r)  == LogInStep(r) /\ OnlyLogIn /\ UNCHANGED <<failures, swallowing>>
EmailCall(r)  == EmailStep(r) /\ OnlyEmail /\ UNCHANGED <<failures, swallowing>>
ForgotCall(r) == ForgotStep(r) /\ OnlyForgot /\ UNCHANGED <<failures, swallowing>>
DeleteCall(r) == DeleteStep(r) /\ OnlyDelete /\ UNCHANGED <<failures, swallowing>>

Call ==
    \/ \E r \in SignUpRequest : SignUpCall(r)
    \/ \E r \in LogInRequest : LogInCall(r)
    \/ \E r \in EmailRequest : EmailCall(r)
    \/ \E r \in ForgotRequest : ForgotCall(r)
    \/ \E r \in DeleteRequest : DeleteCall(r)

(* Bound: in one history flows are cut short or errors swallowed, not both.    *)
Failure ==
    /\ ~swallowing
    /\ failures < MaxFailures
    /\ failures' = failures + 1
    /\ \/ OnlySignUp /\ \E r \in SignUpRequest : Abort(r)
       \/ OnlyLogIn /\ \E r \in LogInRequest : LogInAbort(r)
       \/ OnlyEmail /\ \E r \in EmailRequest : EmailAbort(r)
       \/ OnlyForgot /\ \E r \in ForgotRequest : ForgotAbort(r)
       \/ OnlyDelete /\ \E r \in DeleteRequest : DeleteAbort(r)
    /\ UNCHANGED swallowing

Expiry ==
    /\ \/ \E t \in Token : TokenExpires(t)
       \/ \E e \in Email : SessionExpires(e)
    /\ UNCHANGED <<su, li, ue, fp, dl, failures, swallowing>>

AccountsNext == Arrival \/ Call \/ Failure \/ Expiry

AccountsSpec == AccountsInit /\ [][AccountsNext]_accountsVars

(* Every call of a request answers or fails, and the execution context then   *)
(* runs what follows it: a request that was accepted goes on to its end.      *)
AccountsFairness ==
    /\ \A r \in SignUpRequest : WF_accountsVars(SignUpCall(r))
    /\ \A r \in LogInRequest : WF_accountsVars(LogInCall(r))
    /\ \A r \in EmailRequest : WF_accountsVars(EmailCall(r))
    /\ \A r \in ForgotRequest : WF_accountsVars(ForgotCall(r))
    /\ \A r \in DeleteRequest : WF_accountsVars(DeleteCall(r))

AccountsFairSpec == AccountsSpec /\ AccountsFairness

-----------------------------------------------------------------------------
(* With one request at a time and no failure, whenever none is being served,   *)
(* every live user can sign in with its own address: there is a login info     *)
(* for it that leads back to the user, and a password (AccountService.save,    *)
(* UpdateEmailService.updateEmail keep three stores in step).                  *)
EveryAccountOpens ==
    Busy = 0 =>
        \A u \in UserId : IsLive(u) =>
            /\ user[u].email # Nil
            /\ loginInfo[user[u].email] = u
            /\ passwordInfo[user[u].email] # Nil

(* ... and no password is left behind for an address without a login info.     *)
NoPasswordLeftBehind ==
    Busy = 0 => \A e \in Email : passwordInfo[e] # Nil => loginInfo[e] # Nil

(* With one request at a time and nobody deleted, whichever one flow is cut    *)
(* short, or however many errors are swallowed: a login info has a password,   *)
(* or names the address of the row, so that a forgotten-password mail can give *)
(* it one (the order of the writes in UpdateEmailService.updateEmail,          *)
(* AccountService.save).                                                       *)
EveryLoginUsable ==
    Busy = 0 /\ (\A u \in UserId : user[u].row \in {"never", "live"}) =>
        \A e \in Email : loginInfo[e] # Nil =>
            passwordInfo[e] # Nil \/ user[loginInfo[e]].email = e

(* The flow that stored token t has its EXPIRE still to send.                  *)
ExpiresNext(t) ==
    \/ \E r \in SignUpRequest : At(r, "expireToken") /\ su[r].token = t
    \/ \E r \in EmailRequest : EmailAt(r, "expireToken") /\ ue[r].token = t
    \/ \E r \in ForgotRequest : ForgotAt(r, "expireToken") /\ fp[r].token = t

Lingering == {t \in Token : token[t].stored /\ ~token[t].ttl /\ ~ExpiresNext(t)}

(* SET and EXPIRE are two commands, and a flow may be cut short between them:  *)
(* that leaves a key in Redis for good. Nobody ever got it by mail, though -   *)
(* every link that leaves has its time to live - and there are no more such    *)
(* keys than flows cut short, whatever the others do meanwhile                 *)
(* (ConfirmEmailService.generateAndSaveToken, createAndSaveToken).             *)
MailedTokenExpires ==
    /\ \A t \in Token : token[t].sent => token[t].ttl
    /\ Cardinality(Lingering) <= failures

(* A forgotten-password link works once: no second request goes on to change   *)
(* the password after a first one used the link                                *)
(* (ForgotPasswords.scala:85, "expired or already used").                      *)
ForgotLinkUsedOnce ==
    \A r, q \in ForgotRequest :
        r # q /\ fp[r].pc = "dropToken" /\ fp[q].pc = "dropToken" => fp[r].token # fp[q].token
=============================================================================
