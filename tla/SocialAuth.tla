----------------------------- MODULE SocialAuth -----------------------------
(***************************************************************************)
(* Sign-in with an account at a provider: SocialAuths.authenticate and     *)
(* AccountService.createOrRetrieve. The provider vouches for an address;   *)
(* the flow links the provider's key to the user that has it, or adds one. *)
(***************************************************************************)
EXTENDS AccountStore

CONSTANTS
    Profile,        \* accounts at providers, each with a provider id and a key
    SocialRequest   \* the requests the server may be serving at once

VARIABLES
    profileEmail,   \* what the provider says is the address of the account;
                    \* Nil if there is no such account
    socialLogin,    \* auth_login_info, the other providers: account -> user
    socialInfo,     \* Redis: the accounts whose OAuth info is stored
    socialSession,  \* Redis: the accounts that an authenticator names
    sa              \* what each handler has to do next, and its local values

socialVars == <<profileEmail, socialLogin, socialInfo, socialSession, sa>>
socialStore == <<profileEmail, socialLogin, socialInfo, socialSession>>

SocialLabels == {"idle", "findEmail", "findLogin", "addUser", "addLogin", "saveInfo",
                 "openSession"}

(* "found" is the user with the address, "user" the one to link.               *)
SocialHandler == [pc : SocialLabels, profile : Profile \cup {Nil}, email : Email \cup {Nil},
                  found : UserId \cup {Nil}, user : UserId \cup {Nil}]
SocialIdle == [pc |-> "idle", profile |-> Nil, email |-> Nil, found |-> Nil, user |-> Nil]

SocialTypeOK ==
    /\ profileEmail \in [Profile -> Email \cup {Nil}]
    /\ socialLogin \in [Profile -> UserId \cup {Nil}]
    /\ socialInfo \subseteq Profile /\ socialSession \subseteq Profile
    /\ sa \in [SocialRequest -> SocialHandler]
    /\ \A r \in SocialRequest :
         /\ sa[r].pc # "idle" => sa[r].profile \in Profile /\ sa[r].email \in Email
         /\ sa[r].pc = "addLogin" => sa[r].user \in UserId

SocialInit ==
    /\ profileEmail \in [Profile -> Email \cup {Nil}]
    /\ socialLogin = [p \in Profile |-> Nil]
    /\ socialInfo = {} /\ socialSession = {}
    /\ sa = [r \in SocialRequest |-> SocialIdle]

SocialAt(r, label)   == sa[r].pc = label
SocialGoto(r, label) == sa' = [sa EXCEPT ![r].pc = label]
SocialLinks(r, u)    == sa' = [sa EXCEPT ![r] = [@ EXCEPT !.pc = "addLogin", !.user = u]]
SocialAnswer(r)      == sa' = [sa EXCEPT ![r] = SocialIdle]

-----------------------------------------------------------------------------
(* The provider has authenticated the browser and sent the profile.            *)
Authenticate(r, p) ==
    /\ SocialAt(r, "idle")
    /\ profileEmail[p] # Nil
    /\ sa' = [sa EXCEPT ![r] = [SocialIdle EXCEPT !.pc = "findEmail", !.profile = p,
                                                  !.email = profileEmail[p]]]
    /\ UNCHANGED <<store, socialStore>>

(* A slip: only the provider's key is looked up.                               *)
SocialFindNobody(r) ==
    /\ SocialAt(r, "findEmail")
    /\ SocialGoto(r, "findLogin")
    /\ UNCHANGED <<store, socialStore>>

SocialFindByEmail(r) ==
    /\ SocialAt(r, "findEmail")
    /\ \E u \in IF FindByEmail(sa[r].email) = {} THEN {Nil} ELSE FindByEmail(sa[r].email) :
         sa' = [sa EXCEPT ![r] = [@ EXCEPT !.pc = "findLogin", !.found = u]]
    /\ UNCHANGED <<store, socialStore>>

(* A slip: any user that is found may use the login that is found.             *)
LoginUnmatched(r) ==
    /\ SocialAt(r, "findLogin")
    /\ LET found == sa[r].found
           login == socialLogin[sa[r].profile]
       IN  \/ found # Nil /\ login # Nil /\ SocialGoto(r, "saveInfo")
           \/ found # Nil /\ login = Nil /\ SocialLinks(r, found)
           \/ found = Nil /\ login # Nil /\ SocialAnswer(r)
           \/ found = Nil /\ login = Nil /\ SocialGoto(r, "addUser")
    /\ UNCHANGED <<store, socialStore>>

(* A slip: without a login there is a new account to save.                     *)
LoginSaved(r) ==
    /\ SocialAt(r, "findLogin")
    /\ LET found == sa[r].found
           login == socialLogin[sa[r].profile]
       IN  \/ found # Nil /\ login = found /\ SocialGoto(r, "saveInfo")
           \/ login \notin {Nil, found} /\ SocialAnswer(r)
           \/ login = Nil /\ SocialGoto(r, "addUser")
    /\ UNCHANGED <<store, socialStore>>

(* A slip: the account made of the profile is linked, not the user found.      *)
LoginOfProfile(r) ==
    /\ SocialAt(r, "findLogin")
    /\ LET found == sa[r].found
           login == socialLogin[sa[r].profile]
       IN  \/ found # Nil /\ login = found /\ SocialGoto(r, "saveInfo")
           \/ login \notin {Nil, found} /\ SocialAnswer(r)
           \/ found # Nil /\ login = Nil /\ SocialLinks(r, Nil)
           \/ found = Nil /\ login = Nil /\ SocialGoto(r, "addUser")
    /\ UNCHANGED <<store, socialStore>>

(* A login of another user is an error; one without a user matches no case.    *)
SocialFindLogin(r) ==
    /\ SocialAt(r, "findLogin")
    /\ LET found == sa[r].found
           login == socialLogin[sa[r].profile]
       IN  \/ found # Nil /\ login = found /\ SocialGoto(r, "saveInfo")
           \/ login \notin {Nil, found} /\ SocialAnswer(r)
           \/ found # Nil /\ login = Nil /\ SocialLinks(r, found)
           \/ found = Nil /\ login = Nil /\ SocialGoto(r, "addUser")
    /\ UNCHANGED <<store, socialStore>>

-----------------------------------------------------------------------------
(* UserIn.toUser: the provider's word is enough, the user is active at once.   *)
AddSocialUser(r) ==
    /\ SocialAt(r, "addUser")
    /\ \E u \in UserId :
         /\ user[u].row = "never"
         /\ user' = [UserAdded(u, sa[r].email) EXCEPT ![u].active = TRUE]
         /\ SocialLinks(r, u)
    /\ UNCHANGED <<loginInfo, superadmin, redis, socialStore>>

(* Primary and foreign key; the first of two that overlap wins.                *)
AddSocialLogin(r) ==
    /\ SocialAt(r, "addLogin")
    /\ LET p == sa[r].profile
           legal == socialLogin[p] = Nil /\ Exists(sa[r].user)
       IN  \/ /\ legal
              /\ socialLogin' = [socialLogin EXCEPT ![p] = sa[r].user]
              /\ SocialGoto(r, "saveInfo")
           \/ /\ ~legal
              /\ SocialAnswer(r)
              /\ UNCHANGED socialLogin
    /\ UNCHANGED <<store, profileEmail, socialInfo, socialSession>>

(* AuthInfoDAOImpl.add logs a Redis error and still reports success.           *)
SaveSocialInfo(r) ==
    /\ SocialAt(r, "saveInfo")
    /\ \/ socialInfo' = socialInfo \cup {sa[r].profile}
       \/ swallowing /\ UNCHANGED socialInfo
    /\ SocialGoto(r, "openSession")
    /\ UNCHANGED <<store, profileEmail, socialLogin, socialSession>>

OpenSocialSession(r) ==
    /\ SocialAt(r, "openSession")
    /\ socialSession' = socialSession \cup {sa[r].profile}
    /\ SocialAnswer(r)
    /\ UNCHANGED <<store, profileEmail, socialLogin, socialInfo>>

SocialAbort(r) ==
    /\ CallsFail
    /\ ~SocialAt(r, "idle")
    /\ SocialAnswer(r)
    /\ UNCHANGED <<store, socialStore>>

(* The owner gives the account at the provider another address.                *)
ProfileMoves(p, e) ==
    /\ profileEmail[p] \notin {Nil, e}
    /\ profileEmail' = [profileEmail EXCEPT ![p] = e]
    /\ UNCHANGED <<store, socialLogin, socialInfo, socialSession, sa>>

SocialSessionExpires(p) ==
    /\ p \in socialSession
    /\ socialSession' = socialSession \ {p}
    /\ UNCHANGED <<store, profileEmail, socialLogin, socialInfo, sa>>

SocialArrives(r) == \E p \in Profile : Authenticate(r, p)
SocialStep(r) ==
    \/ SocialFindByEmail(r) \/ SocialFindLogin(r) \/ AddSocialUser(r) \/ AddSocialLogin(r)
    \/ SaveSocialInfo(r) \/ OpenSocialSession(r)
=============================================================================
