------------------------------- MODULE SignUp -------------------------------
(***************************************************************************)
(* Sign up, confirmation of the address, and re-sending of the             *)
(* confirmation mail: SignUps, SignUpService, ConfirmEmailService and the  *)
(* parts of AccountService and UserService they call.  Each handler runs   *)
(* one request; several run at once, and their calls interleave.           *)
(***************************************************************************)
EXTENDS AccountStore

CONSTANT SignUpRequest  \* the requests the server may be serving at once

VARIABLE su   \* what each handler has to do next, and its local values

Labels == {"idle", "retrieve", "retrieveUser", "addUser", "addLogin", "addPassword",
           "mailLookup", "saveToken", "expireToken", "mail", "openSession",
           "activate", "count", "grant"}

Handler == [pc : Labels, op : {"none", "signUp", "resend", "confirm"},
            email : Email \cup {Nil}, password : Password \cup {Nil},
            user : UserId \cup {Nil}, token : Token \cup {Nil}]

(* The calls of a sign-up alone, those of any mail, those of a confirmation,   *)
(* and those that need a user.                                                 *)
SignUpLabels  == {"retrieve", "retrieveUser", "addUser", "addLogin", "addPassword",
                  "openSession"}
MailLabels    == {"mailLookup", "saveToken", "expireToken", "mail"}
ConfirmLabels == {"activate", "count", "grant"}
UserLabels    == {"retrieveUser", "addLogin", "addPassword", "saveToken", "expireToken",
                  "mail", "activate", "count", "grant"}

(* A handler has the local values that its next call passes on.                *)
Ready(h) ==
    /\ h.op \in {"signUp", "resend"} => h.email \in Email
    /\ h.op = "signUp" => h.password \in Password
    /\ h.pc \in SignUpLabels => h.op = "signUp"
    /\ h.pc \in MailLabels => h.op \in {"signUp", "resend"}
    /\ h.pc \in ConfirmLabels => h.op = "confirm"
    /\ h.pc \in UserLabels => h.user \in UserId
    /\ h.pc \in {"expireToken", "mail", "activate"} => h.token \in Token

Idle == [pc |-> "idle", op |-> "none", email |-> Nil, password |-> Nil,
         user |-> Nil, token |-> Nil]

signUpVars == <<store, su, swallowing>>

(* The state is well formed: tables, keys and handlers have their types, and   *)
(* a handler has every local value that its next call passes on, so that none  *)
(* of the EitherT chains runs a step on an Option it did not check.            *)
SignUpTypeOK ==
    /\ StoreTypeOK
    /\ su \in [SignUpRequest -> Handler]
    /\ \A r \in SignUpRequest : Ready(su[r])
    /\ swallowing \in BOOLEAN

SignUpInit ==
    /\ StoreInit
    /\ su = [r \in SignUpRequest |-> Idle]
    /\ swallowing \in {FALSE, ErrorsSwallowed}

At(r, label)   == su[r].pc = label
Goto(r, label) == su' = [su EXCEPT ![r].pc = label]
Answer(r)      == su' = [su EXCEPT ![r] = Idle]

-----------------------------------------------------------------------------
(* SignUps.signUp: the request goes on only if no live user has the address.  *)
Subscribe(r, e, p) ==
    /\ At(r, "idle")
    /\ FindByEmail(e) = {}
    /\ su' = [su EXCEPT ![r] = [Idle EXCEPT !.pc = "retrieve", !.op = "signUp",
                                            !.email = e, !.password = p]]
    /\ UNCHANGED store

(* A slip: findById called on whatever find returned.                          *)
RetrieveUnchecked(r) ==
    /\ At(r, "retrieve")
    /\ su' = [su EXCEPT ![r].pc = "retrieveUser", ![r].user = loginInfo[su[r].email]]
    /\ UNCHANGED store

(* AccountService.retrieve turns every error into "no account", so a failing  *)
(* query lets the sign-up go on.                                              *)
Retrieve(r) ==
    /\ At(r, "retrieve")
    /\ LET u == loginInfo[su[r].email] IN
       \/ /\ u # Nil
          /\ su' = [su EXCEPT ![r] = [@ EXCEPT !.pc = "retrieveUser", !.user = u]]
       \/ /\ u = Nil \/ swallowing
          /\ Goto(r, "addUser")
    /\ UNCHANGED store

RetrieveUser(r) ==
    /\ At(r, "retrieveUser")
    /\ \/ FindById(su[r].user) /\ Answer(r)
       \/ /\ ~FindById(su[r].user) \/ swallowing
          /\ Goto(r, "addUser")
    /\ UNCHANGED store

(* A slip: toUser, which makes an active user, for toNotActivatedUser.        *)
AddUserActivated(r) ==
    /\ At(r, "addUser")
    /\ \E u \in UserId :
         /\ user[u].row = "never"
         /\ user' = [UserAdded(u, su[r].email) EXCEPT ![u].active = TRUE]
         /\ su' = [su EXCEPT ![r] = [@ EXCEPT !.pc = "addLogin", !.user = u]]
    /\ UNCHANGED <<loginInfo, superadmin, redis>>

(* UserService.add: a random id, the user not yet active.                     *)
AddUser(r) ==
    /\ At(r, "addUser")
    /\ \E u \in UserId :
         /\ user[u].row = "never"
         /\ user' = UserAdded(u, su[r].email)
         /\ su' = [su EXCEPT ![r] = [@ EXCEPT !.pc = "addLogin", !.user = u]]
    /\ UNCHANGED <<loginInfo, superadmin, redis>>

(* A slip: an error of the insertion logged and taken for a success, as        *)
(* AuthInfoDAOImpl.add does with one of Redis.                                *)
AddLoginRecovered(r) ==
    /\ At(r, "addLogin")
    /\ \/ /\ LoginAllowed(su[r].email, su[r].user)
          /\ loginInfo' = [loginInfo EXCEPT ![su[r].email] = su[r].user]
       \/ /\ swallowing \/ ~LoginAllowed(su[r].email, su[r].user)
          /\ UNCHANGED loginInfo
    /\ Goto(r, "addPassword")
    /\ UNCHANGED <<user, superadmin, redis>>

(* AuthLoginInfoService.add: a key violation ends the flow, and the user      *)
(* inserted before stays.                                                     *)
AddLogin(r) ==
    /\ At(r, "addLogin")
    /\ LET e == su[r].email
           u == su[r].user
       IN  \/ /\ LoginAllowed(e, u)
              /\ loginInfo' = [loginInfo EXCEPT ![e] = u]
              /\ Goto(r, "addPassword")
           \/ /\ ~LoginAllowed(e, u)
              /\ Answer(r)
              /\ UNCHANGED loginInfo
    /\ UNCHANGED <<user, superadmin, redis>>

(* AuthInfoDAOImpl.add logs a Redis error and still reports success.          *)
AddPassword(r) ==
    /\ At(r, "addPassword")
    /\ \/ passwordInfo' = [passwordInfo EXCEPT ![su[r].email] = su[r].password]
       \/ swallowing /\ UNCHANGED passwordInfo
    /\ Goto(r, "mailLookup")
    /\ UNCHANGED <<postgres, token, session>>

-----------------------------------------------------------------------------
(* ConfirmEmailService.resendingEmail: only if an inactive user has the       *)
(* address; the flow then is that of a first confirmation mail.               *)
Resend(r, e) ==
    /\ At(r, "idle")
    /\ FindInactive(e) # {}
    /\ su' = [su EXCEPT ![r] = [Idle EXCEPT !.pc = "mailLookup", !.op = "resend",
                                            !.email = e]]
    /\ UNCHANGED store

(* ConfirmEmailService.sendEmailConfirmation looks the user up again, by      *)
(* address: with two rows it may be another one than the row just added.      *)
MailLookup(r) ==
    /\ At(r, "mailLookup")
    /\ \/ \E u \in FindByEmail(su[r].email) :
            su' = [su EXCEPT ![r] = [@ EXCEPT !.pc = "saveToken", !.user = u]]
       \/ FindByEmail(su[r].email) = {} /\ Answer(r)
    /\ UNCHANGED store

SaveToken(r) ==
    /\ At(r, "saveToken")
    /\ \E t \in FreshTokens :
         /\ token' = TokenStored(t, "confirm", su[r].user, su[r].email)
         /\ su' = [su EXCEPT ![r] = [@ EXCEPT !.pc = "expireToken", !.token = t]]
    /\ UNCHANGED <<postgres, passwordInfo, session>>

ExpireToken(r) ==
    /\ At(r, "expireToken")
    /\ token' = [token EXCEPT ![su[r].token].ttl = TRUE]
    /\ Goto(r, "mail")
    /\ UNCHANGED <<postgres, passwordInfo, session>>

(* The mail leaves; a sign-up goes on to open a session, a re-sending ends.   *)
SendMail(r) ==
    /\ At(r, "mail")
    /\ token' = [token EXCEPT ![su[r].token].sent = TRUE]
    /\ IF su[r].op = "signUp" THEN Goto(r, "openSession") ELSE Answer(r)
    /\ UNCHANGED <<postgres, passwordInfo, session>>

OpenSession(r) ==
    /\ At(r, "openSession")
    /\ session' = session \cup {su[r].email}
    /\ Answer(r)
    /\ UNCHANGED <<postgres, passwordInfo, token>>

-----------------------------------------------------------------------------
(* SignUpService.signUpConfirmation: the token is read, and not deleted.      *)
Confirm(r, t) ==
    /\ At(r, "idle")
    /\ TokenKnown(t, "confirm") /\ TokenFound(t, "confirm")
    /\ su' = [su EXCEPT ![r] = [Idle EXCEPT !.pc = "activate", !.op = "confirm",
                                            !.user = token[t].user, !.token = t]]
    /\ UNCHANGED store

Activate(r) ==
    /\ At(r, "activate")
    /\ user' = ActiveUpdated(su[r].user)
    /\ Goto(r, "count")
    /\ UNCHANGED <<loginInfo, superadmin, redis>>

(* A slip: the bound off by one.                                              *)
CountActiveOffByOne(r) ==
    /\ At(r, "count")
    /\ IF Cardinality(ActiveUsers) > 2 THEN Answer(r) ELSE Goto(r, "grant")
    /\ UNCHANGED store

(* A slip: the count compared the other way round.                            *)
CountActiveStrict(r) ==
    /\ At(r, "count")
    /\ IF Cardinality(ActiveUsers) >= 1 THEN Answer(r) ELSE Goto(r, "grant")
    /\ UNCHANGED store

CountActive(r) ==
    /\ At(r, "count")
    /\ IF Cardinality(ActiveUsers) > 1 THEN Answer(r) ELSE Goto(r, "grant")
    /\ UNCHANGED store

Grant(r) ==
    /\ At(r, "grant")
    /\ \/ /\ RoleAllowed(su[r].user)
          /\ superadmin' = superadmin \cup {su[r].user}
       \/ ~RoleAllowed(su[r].user) /\ UNCHANGED superadmin
    /\ Answer(r)
    /\ UNCHANGED <<user, loginInfo, redis>>

(* A call fails, or the server stops: what was written stays, the rest of     *)
(* the flow does not happen.                                                  *)
Abort(r) ==
    /\ CallsFail
    /\ ~At(r, "idle")
    /\ Answer(r)
    /\ UNCHANGED store

-----------------------------------------------------------------------------
SignUpStep(r) ==
    \/ Retrieve(r) \/ RetrieveUser(r) \/ AddUser(r) \/ AddLogin(r) \/ AddPassword(r)
    \/ MailLookup(r) \/ SaveToken(r) \/ ExpireToken(r) \/ SendMail(r) \/ OpenSession(r)
    \/ Activate(r) \/ CountActive(r) \/ Grant(r)

SignUpArrives(r) ==
    \/ \E e \in Email, p \in Password : Subscribe(r, e, p)
    \/ \E e \in Email : Resend(r, e)
    \/ \E t \in Token : Confirm(r, t)

SignUpNext ==
    /\ \/ \E r \in SignUpRequest : SignUpArrives(r) \/ SignUpStep(r) \/ Abort(r)
       \/ \E t \in Token : TokenExpires(t) /\ UNCHANGED su
    /\ UNCHANGED swallowing

SignUpSpec == SignUpInit /\ [][SignUpNext]_signUpVars

(* The thread pool runs the callback of every completed Future.               *)
SignUpFairness == \A r \in SignUpRequest : WF_signUpVars(SignUpStep(r))

SignUpFairSpec == SignUpSpec /\ SignUpFairness

-----------------------------------------------------------------------------
(* A session opened by a sign-up is for an address with a login info whose     *)
(* user exists and holds that address: the request that lost a race for an     *)
(* address opens none (SignUps.signUp, AccountService.save).                   *)
SessionHasLogin ==
    \A e \in session : /\ loginInfo[e] # Nil
                       /\ IsLive(loginInfo[e])
                       /\ user[loginInfo[e]].email = e

(* The tables are a LoginRegistry: a login info is never taken over, a         *)
(* password never replaced by that of a concurrent sign-up, nor stored for an  *)
(* address without a login info.                                               *)
Registry == INSTANCE LoginRegistry WITH
    User <- UserId, Address <- Email, Secret <- Password, Nobody <- Nil,
    owner <- loginInfo, secret <- passwordInfo, admin <- superadmin
ImplementsLoginRegistry == Registry!RegistrySpec

(* Once a user is active, someone becomes superadmin                           *)
(* (SignUpService.grantToAdminFirstUser).                                      *)
FirstActiveIsGranted == ActiveUsers # {} ~> superadmin # {}
=============================================================================
