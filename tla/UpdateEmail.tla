----------------------------- MODULE UpdateEmail -----------------------------
(***************************************************************************)
(* UpdateEmailService: a signed-in user asks for a new address, receives a *)
(* token there, and hands it back; the row, the login info and the         *)
(* password are then moved to the new address, one call at a time.         *)
(***************************************************************************)
EXTENDS AccountStore

CONSTANTS
    EmailRequest,  \* the requests the server may be serving at once
    Admin          \* the users that were given the role "admin" by hand

ASSUME AdminAssumption == Admin \subseteq UserId

VARIABLE ue   \* what each handler has to do next, and its local values

EmailLabels == {"idle", "retrieveUser", "retrieveToken", "checkFree", "findUser", "saveToken",
                "expireToken", "mail", "readRow", "writeRow", "readLogin", "writeLogin",
                "readPassword", "addPassword", "removePassword", "deleteToken"}

(* "id" is the user to change and "old" the address of the account that acts;  *)
(* "active", "login" and "password" are copies of what the flow read - "login" *)
(* of the login info of that account, first and last.                          *)
EmailHandler == [pc : EmailLabels, op : {"none", "request", "change"},
                 id : UserId \cup {Nil}, old : Email \cup {Nil}, new : Email \cup {Nil},
                 token : Token \cup {Nil}, active : BOOLEAN, login : UserId \cup {Nil},
                 password : Password \cup {Nil}]

EmailIdle == [pc |-> "idle", op |-> "none", id |-> Nil, old |-> Nil, new |-> Nil,
              token |-> Nil, active |-> FALSE, login |-> Nil, password |-> Nil]

EmailTypeOK ==
    /\ ue \in [EmailRequest -> EmailHandler]
    /\ \A r \in EmailRequest :
         /\ ue[r].pc # "idle" => ue[r].id \in UserId
         /\ ue[r].pc \notin {"idle", "retrieveUser"} => ue[r].old \in Email
         /\ ue[r].op = "request" \/ ue[r].pc \notin {"idle", "retrieveUser", "retrieveToken"} =>
              ue[r].new \in Email
         /\ ue[r].op = "change" \/ ue[r].pc \in {"expireToken", "mail"} => ue[r].token \in Token
         /\ ue[r].pc \in {"retrieveUser", "writeLogin"} => ue[r].login \in UserId
         /\ ue[r].pc = "addPassword" => ue[r].password \in Password

EmailInit == ue = [r \in EmailRequest |-> EmailIdle]

EmailAt(r, label)   == ue[r].pc = label
EmailGoto(r, label) == ue' = [ue EXCEPT ![r].pc = label]
EmailAnswer(r)      == ue' = [ue EXCEPT ![r] = EmailIdle]

(* The login info that a session leads to, whether its account may change user *)
(* i, and the user of the account.                                             *)
Account(e)    == loginInfo[e]
SignedIn(e)   == e \in session /\ Account(e) # Nil
Allowed(a, i) == i = a \/ a \in Admin
Retrieved(a)  == FindById(a) /\ user[a].email # Nil

-----------------------------------------------------------------------------
UpdateEmailRequest(r, e, i, n) ==
    /\ EmailAt(r, "idle")
    /\ SignedIn(e) /\ Allowed(Account(e), i)
    /\ ue' = [ue EXCEPT ![r] = [EmailIdle EXCEPT !.pc = "retrieveUser", !.op = "request",
                   !.id = i, !.new = n, !.login = Account(e)]]
    /\ UNCHANGED store

ChangeEmail(r, e, i, t) ==
    /\ EmailAt(r, "idle")
    /\ SignedIn(e) /\ Allowed(Account(e), i)
    /\ TokenKnown(t, "email")
    /\ ue' = [ue EXCEPT ![r] = [EmailIdle EXCEPT !.pc = "retrieveUser", !.op = "change",
                   !.id = i, !.token = t, !.login = Account(e)]]
    /\ UNCHANGED store

(* Without a user nobody is signed in; the address the user has is no new one. *)
RetrieveActor(r) ==
    /\ EmailAt(r, "retrieveUser")
    /\ LET a    == ue[r].login
           acts == Retrieved(a) /\ user[a].email # ue[r].new
       IN  \/ acts /\ ue' = [ue EXCEPT ![r] =
                               [@ EXCEPT !.pc = IF ue[r].op = "request" THEN "checkFree"
                                                ELSE "retrieveToken",
                                         !.old = user[a].email, !.login = Nil]]
           \/ ~acts /\ EmailAnswer(r)
    /\ UNCHANGED store

RetrieveToken(r) ==
    /\ EmailAt(r, "retrieveToken")
    /\ LET t == ue[r].token
           fits == TokenFound(t, "email") /\ token[t].user = ue[r].id
       IN  \/ fits /\ ue' = [ue EXCEPT ![r].pc = "checkFree", ![r].new = token[t].email]
           \/ ~fits /\ EmailAnswer(r)
    /\ UNCHANGED store

(* A slip: the address is checked when it is asked for, and not again.         *)
CheckEmailOnRequest(r) ==
    /\ EmailAt(r, "checkFree")
    /\ IF ue[r].op = "change" \/ FindByEmail(ue[r].new) = {}
       THEN EmailGoto(r, "findUser")
       ELSE EmailAnswer(r)
    /\ UNCHANGED store

CheckEmailIsFree(r) ==
    /\ EmailAt(r, "checkFree")
    /\ \/ FindByEmail(ue[r].new) = {} /\ EmailGoto(r, "findUser")
       \/ FindByEmail(ue[r].new) # {} /\ EmailAnswer(r)
    /\ UNCHANGED store

EmailFindUser(r) ==
    /\ EmailAt(r, "findUser")
    /\ \/ /\ FindById(ue[r].id)
          /\ EmailGoto(r, IF ue[r].op = "request" THEN "saveToken" ELSE "readRow")
       \/ ~FindById(ue[r].id) /\ EmailAnswer(r)
    /\ UNCHANGED store

-----------------------------------------------------------------------------
SaveEmailToken(r) ==
    /\ EmailAt(r, "saveToken")
    /\ \E t \in FreshTokens :
         /\ token' = TokenStored(t, "email", ue[r].id, ue[r].new)
         /\ ue' = [ue EXCEPT ![r].pc = "expireToken", ![r].token = t]
    /\ UNCHANGED <<postgres, passwordInfo, session>>

(* A slip: the second command of createAndSaveToken is missing.                *)
ExpireEmailTokenNever(r) ==
    /\ EmailAt(r, "expireToken")
    /\ EmailGoto(r, "mail")
    /\ UNCHANGED store

ExpireEmailToken(r) ==
    /\ EmailAt(r, "expireToken")
    /\ token' = [token EXCEPT ![ue[r].token].ttl = TRUE]
    /\ EmailGoto(r, "mail")
    /\ UNCHANGED <<postgres, passwordInfo, session>>

SendEmailMail(r) ==
    /\ EmailAt(r, "mail")
    /\ token' = [token EXCEPT ![ue[r].token].sent = TRUE]
    /\ EmailAnswer(r)
    /\ UNCHANGED <<postgres, passwordInfo, session>>

-----------------------------------------------------------------------------
(* updateUser reads the whole row, and writes the whole row back.              *)
ReadRow(r) ==
    /\ EmailAt(r, "readRow")
    /\ \/ /\ FindById(ue[r].id)
          /\ ue' = [ue EXCEPT ![r].pc = "writeRow", ![r].active = user[ue[r].id].active]
       \/ ~FindById(ue[r].id) /\ EmailAnswer(r)
    /\ UNCHANGED store

(* A slip: the password is moved before the login info, which never follows.   *)
WriteRowOnly(r) ==
    /\ EmailAt(r, "writeRow")
    /\ user' = [user EXCEPT ![ue[r].id].email = ue[r].new]
    /\ EmailGoto(r, "readPassword")
    /\ UNCHANGED <<loginInfo, superadmin, redis>>

WriteRow(r) ==
    /\ EmailAt(r, "writeRow")
    /\ user' = [user EXCEPT ![ue[r].id] =
                  IF Exists(ue[r].id)
                  THEN [row |-> "live", email |-> ue[r].new, active |-> ue[r].active]
                  ELSE @]
    /\ EmailGoto(r, "readLogin")
    /\ UNCHANGED <<loginInfo, superadmin, redis>>

(* From here on the address moved is that of the account that acts.            *)
ReadLogin(r) ==
    /\ EmailAt(r, "readLogin")
    /\ \/ /\ loginInfo[ue[r].old] # Nil
          /\ ue' = [ue EXCEPT ![r].pc = "writeLogin", ![r].login = loginInfo[ue[r].old]]
       \/ loginInfo[ue[r].old] = Nil /\ EmailAnswer(r)
    /\ UNCHANGED store

(* A slip: the row of the old address is left in place.                        *)
WriteLoginCopy(r) ==
    /\ EmailAt(r, "writeLogin")
    /\ \/ /\ LoginAllowed(ue[r].new, ue[r].login)
          /\ loginInfo' = [loginInfo EXCEPT ![ue[r].new] = ue[r].login]
          /\ EmailGoto(r, "readPassword")
       \/ /\ ~LoginAllowed(ue[r].new, ue[r].login)
          /\ EmailAnswer(r)
          /\ UNCHANGED loginInfo
    /\ UNCHANGED <<user, superadmin, redis>>

(* An UPDATE of no row succeeds; one that violates a key ends the flow.        *)
WriteLogin(r) ==
    /\ EmailAt(r, "writeLogin")
    /\ LET old   == ue[r].old
           new   == ue[r].new
           found == loginInfo[old] # Nil
           legal == /\ new = old \/ loginInfo[new] = Nil
                    /\ Exists(ue[r].login)
       IN  \/ /\ found /\ legal
              /\ loginInfo' = [loginInfo EXCEPT ![old] = Nil, ![new] = ue[r].login]
              /\ EmailGoto(r, "readPassword")
           \/ /\ found /\ ~legal
              /\ EmailAnswer(r)
              /\ UNCHANGED loginInfo
           \/ /\ ~found
              /\ EmailGoto(r, "readPassword")
              /\ UNCHANGED loginInfo
    /\ UNCHANGED <<user, superadmin, redis>>

(* PasswordInfoDAO.find turns an error into "none".                            *)
ReadPassword(r) ==
    /\ EmailAt(r, "readPassword")
    /\ \/ /\ passwordInfo[ue[r].old] # Nil
          /\ ue' = [ue EXCEPT ![r].pc = "addPassword",
                              ![r].password = passwordInfo[ue[r].old]]
       \/ (passwordInfo[ue[r].old] = Nil \/ swallowing) /\ EmailAnswer(r)
    /\ UNCHANGED store

MovePassword(r) ==
    /\ EmailAt(r, "addPassword")
    /\ \/ passwordInfo' = [passwordInfo EXCEPT ![ue[r].new] = ue[r].password]
       \/ swallowing /\ UNCHANGED passwordInfo
    /\ EmailGoto(r, "removePassword")
    /\ UNCHANGED <<postgres, token, session>>

(* A slip: the password of the old address stays where it was.                 *)
KeepPassword(r) ==
    /\ EmailAt(r, "removePassword")
    /\ EmailGoto(r, "deleteToken")
    /\ UNCHANGED store

RemovePassword(r) ==
    /\ EmailAt(r, "removePassword")
    /\ \/ passwordInfo' = [passwordInfo EXCEPT ![ue[r].old] = Nil]
       \/ swallowing /\ UNCHANGED passwordInfo
    /\ EmailGoto(r, "deleteToken")
    /\ UNCHANGED <<postgres, token, session>>

DeleteEmailToken(r) ==
    /\ EmailAt(r, "deleteToken")
    /\ token' = TokenGone(ue[r].token)
    /\ EmailAnswer(r)
    /\ UNCHANGED <<postgres, passwordInfo, session>>

EmailAbort(r) ==
    /\ CallsFail
    /\ ~EmailAt(r, "idle")
    /\ EmailAnswer(r)
    /\ UNCHANGED store

-----------------------------------------------------------------------------
EmailArrives(r) ==
    \E e \in Email, i \in UserId :
        \/ \E n \in Email : UpdateEmailRequest(r, e, i, n)
        \/ \E t \in Token : ChangeEmail(r, e, i, t)

EmailStep(r) ==
    \/ RetrieveActor(r) \/ RetrieveToken(r) \/ CheckEmailIsFree(r) \/ EmailFindUser(r)
    \/ SaveEmailToken(r) \/ ExpireEmailToken(r) \/ SendEmailMail(r)
    \/ ReadRow(r) \/ WriteRow(r) \/ ReadLogin(r) \/ WriteLogin(r)
    \/ ReadPassword(r) \/ MovePassword(r) \/ RemovePassword(r) \/ DeleteEmailToken(r)
=============================================================================
