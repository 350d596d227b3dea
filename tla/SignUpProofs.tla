---------------------------- MODULE SignUpProofs ----------------------------
(***************************************************************************)
(* Theorems about SignUp, for any number of handlers, users, addresses and *)
(* tokens, with and without failing calls.                                 *)
(***************************************************************************)
EXTENDS SignUpInvariant, FiniteSetTheorems, TLAPS

(* The state of one handler replaced by a well-formed one: the others keep    *)
(* theirs (every action of SignUp writes "su" in this way).                   *)
LEMMA HandlerSet ==
  ASSUME su \in [SignUpRequest -> Handler],
         \A q \in SignUpRequest : Ready(su[q]),
         NEW r \in SignUpRequest, NEW h \in Handler, Ready(h),
         su' = [su EXCEPT ![r] = h]
  PROVE  /\ su' \in [SignUpRequest -> Handler]
         /\ \A q \in SignUpRequest : Ready(su'[q])
  OBVIOUS

(* SignUpTypeOK holds initially.                                              *)
LEMMA TypeInit == SignUpInit => SignUpTypeOK
<1>1. SignUpInit => swallowing \in BOOLEAN
  BY FaultsAssumption DEF SignUpInit
<1>2. ASSUME StoreInit, su = [r \in SignUpRequest |-> Idle]
      PROVE  /\ StoreTypeOK
             /\ su \in [SignUpRequest -> Handler]
             /\ \A r \in SignUpRequest : Ready(su[r])
  BY <1>2, NilAssumption DEF StoreInit, StoreTypeOK, Idle, Handler, Labels, Ready,
    SignUpLabels, MailLabels, ConfirmLabels, UserLabels, UserRow, TokenRow
<1> QED BY <1>1, <1>2 DEF SignUpInit, SignUpTypeOK

(* A handler that answers is idle, and an idle handler needs nothing.         *)
LEMMA IdleReady == Idle \in Handler /\ Ready(Idle)
  BY DEF Idle, Handler, Labels, Ready, SignUpLabels, MailLabels, ConfirmLabels, UserLabels

(* Each step preserves SignUpTypeOK.                                          *)
LEMMA TypeStep == SignUpTypeOK /\ [SignUpNext]_signUpVars => SignUpTypeOK'
<1> SUFFICES ASSUME SignUpTypeOK, [SignUpNext]_signUpVars PROVE SignUpTypeOK'
  OBVIOUS
<1> USE DEF SignUpTypeOK
<1>w. swallowing' \in BOOLEAN
  BY DEF SignUpNext, signUpVars
<1>0. ASSUME NEW r \in SignUpRequest, NEW h \in Handler, Ready(h),
             su' = [su EXCEPT ![r] = h], StoreTypeOK'
      PROVE  SignUpTypeOK'
  BY <1>0, <1>w, HandlerSet
<1>s. ASSUME UNCHANGED store PROVE StoreTypeOK'
  BY <1>s DEF store, StoreTypeOK
<1>a. ASSUME NEW r \in SignUpRequest, Answer(r), StoreTypeOK' PROVE SignUpTypeOK'
  BY <1>a, <1>0, IdleReady DEF Answer
<1>1. ASSUME NEW r \in SignUpRequest, NEW e \in Email, NEW p \in Password, Subscribe(r, e, p)
      PROVE  SignUpTypeOK'
  <2> DEFINE h == [Idle EXCEPT !.pc = "retrieve", !.op = "signUp", !.email = e, !.password = p]
  <2>1. h \in Handler /\ Ready(h)
    BY <1>1 DEF Subscribe, At, StoreTypeOK, TokenRow, TokenKnown, TokenFound, Idle,
       Handler, Labels, Ready, SignUpLabels, MailLabels, ConfirmLabels, UserLabels
  <2>2. su' = [su EXCEPT ![r] = h] /\ UNCHANGED store
    BY <1>1 DEF Subscribe
  <2> QED BY <2>1, <2>2, <1>0, <1>s
<1>2. ASSUME NEW r \in SignUpRequest, NEW e \in Email, Resend(r, e)
      PROVE  SignUpTypeOK'
  <2> DEFINE h == [Idle EXCEPT !.pc = "mailLookup", !.op = "resend", !.email = e]
  <2>1. h \in Handler /\ Ready(h)
    BY <1>2 DEF Resend, At, StoreTypeOK, TokenRow, TokenKnown, TokenFound, Idle,
       Handler, Labels, Ready, SignUpLabels, MailLabels, ConfirmLabels, UserLabels
  <2>2. su' = [su EXCEPT ![r] = h] /\ UNCHANGED store
    BY <1>2 DEF Resend
  <2> QED BY <2>1, <2>2, <1>0, <1>s
<1>3. ASSUME NEW r \in SignUpRequest, NEW t \in Token, Confirm(r, t)
      PROVE  SignUpTypeOK'
  <2> DEFINE h == [Idle EXCEPT !.pc = "activate", !.op = "confirm", !.user = token[t].user, !.token = t]
  <2>1. h \in Handler /\ Ready(h)
    BY <1>3 DEF Confirm, At, StoreTypeOK, TokenRow, TokenKnown, TokenFound, Idle,
       Handler, Labels, Ready, SignUpLabels, MailLabels, ConfirmLabels, UserLabels
  <2>2. su' = [su EXCEPT ![r] = h] /\ UNCHANGED store
    BY <1>3 DEF Confirm
  <2> QED BY <2>1, <2>2, <1>0, <1>s
<1>4. ASSUME NEW r \in SignUpRequest, Retrieve(r)
      PROVE  SignUpTypeOK'
  <2> DEFINE u == loginInfo[su[r].email]
  <2>1. CASE u # Nil /\ su' = [su EXCEPT ![r] = [@ EXCEPT !.pc = "retrieveUser", !.user = u]]
    <3> DEFINE h == [su[r] EXCEPT !.pc = "retrieveUser", !.user = u]
    <3>1. h \in Handler /\ Ready(h)
      BY ZenonT(60), <1>4, <2>1 DEF Retrieve, At, StoreTypeOK, Handler, Labels, Ready, SignUpLabels, MailLabels, ConfirmLabels, UserLabels
    <3> QED BY <3>1, <2>1, <1>4, <1>0, <1>s DEF Retrieve
  <2>2. CASE Goto(r, "addUser")
    <3> DEFINE h == [su[r] EXCEPT !.pc = "addUser"]
    <3>1. h \in Handler /\ Ready(h)
      BY <1>4 DEF Retrieve, At, Handler, Labels, Ready, SignUpLabels, MailLabels, ConfirmLabels, UserLabels
    <3> QED BY <3>1, <2>2, <1>4, <1>0, <1>s DEF Retrieve, Goto
  <2> QED BY <1>4, <2>1, <2>2 DEF Retrieve
<1>5. ASSUME NEW r \in SignUpRequest, RetrieveUser(r)
      PROVE  SignUpTypeOK'
  <2>1. StoreTypeOK'
    BY <1>5, <1>s DEF RetrieveUser
  <2>2. [su[r] EXCEPT !.pc = "addUser"] \in Handler /\ Ready([su[r] EXCEPT !.pc = "addUser"])
    BY <1>5 DEF RetrieveUser, At, Handler, Labels, Ready, SignUpLabels, MailLabels, ConfirmLabels, UserLabels
  <2>3. Answer(r) \/ su' = [su EXCEPT ![r] = [su[r] EXCEPT !.pc = "addUser"]]
    BY <1>5 DEF RetrieveUser, Goto
  <2> QED BY <2>1, <2>2, <2>3, <1>0, <1>a
<1>6. ASSUME NEW r \in SignUpRequest, AddUser(r)
      PROVE  SignUpTypeOK'
  <2>1. PICK u \in UserId : /\ user' = UserAdded(u, su[r].email)
                            /\ su' = [su EXCEPT ![r] = [@ EXCEPT !.pc = "addLogin", !.user = u]]
    BY <1>6 DEF AddUser
  <2> DEFINE h == [su[r] EXCEPT !.pc = "addLogin", !.user = u]
  <2>2. h \in Handler /\ Ready(h)
    BY <1>6 DEF AddUser, At, Handler, Labels, Ready, SignUpLabels, MailLabels, ConfirmLabels, UserLabels
  <2>3. user' \in [UserId -> UserRow]
    BY <1>6, <2>1 DEF AddUser, At, UserAdded, UserRow, StoreTypeOK, Ready, SignUpLabels
  <2>4. StoreTypeOK'
    BY <1>6, <2>3 DEF AddUser, redis, StoreTypeOK
  <2> QED BY <2>1, <2>2, <2>4, <1>0
<1>7. ASSUME NEW r \in SignUpRequest, AddLogin(r)
      PROVE  SignUpTypeOK'
  <2>1. StoreTypeOK'
    BY <1>7 DEF AddLogin, At, StoreTypeOK, redis, Handler, Ready, SignUpLabels, MailLabels, UserLabels
  <2>2. [su[r] EXCEPT !.pc = "addPassword"] \in Handler /\ Ready([su[r] EXCEPT !.pc = "addPassword"])
    BY <1>7 DEF AddLogin, At, Handler, Labels, Ready, SignUpLabels, MailLabels, ConfirmLabels, UserLabels
  <2>3. Answer(r) \/ su' = [su EXCEPT ![r] = [su[r] EXCEPT !.pc = "addPassword"]]
    BY <1>7 DEF AddLogin, Goto
  <2> QED BY <2>1, <2>2, <2>3, <1>0, <1>a
<1>8. ASSUME NEW r \in SignUpRequest, AddPassword(r)
      PROVE  SignUpTypeOK'
  <2>1. StoreTypeOK'
    BY <1>8 DEF AddPassword, At, StoreTypeOK, postgres, Handler, Ready, SignUpLabels, MailLabels, UserLabels
  <2>2. [su[r] EXCEPT !.pc = "mailLookup"] \in Handler /\ Ready([su[r] EXCEPT !.pc = "mailLookup"])
    BY <1>8 DEF AddPassword, At, Handler, Labels, Ready, SignUpLabels, MailLabels, ConfirmLabels, UserLabels
  <2>3. su' = [su EXCEPT ![r] = [su[r] EXCEPT !.pc = "mailLookup"]]
    BY <1>8 DEF AddPassword, Goto
  <2> QED BY <2>1, <2>2, <2>3, <1>0
<1>9. ASSUME NEW r \in SignUpRequest, MailLookup(r)
      PROVE  SignUpTypeOK'
  <2>1. ASSUME NEW u \in UserId, su' = [su EXCEPT ![r] = [@ EXCEPT !.pc = "saveToken", !.user = u]]
        PROVE  SignUpTypeOK'
    <3> DEFINE h == [su[r] EXCEPT !.pc = "saveToken", !.user = u]
    <3>1. h \in Handler /\ Ready(h)
      BY <1>9 DEF MailLookup, At, Handler, Labels, Ready, SignUpLabels, MailLabels, ConfirmLabels, UserLabels
    <3> QED BY <3>1, <2>1, <1>9, <1>0, <1>s DEF MailLookup
  <2> QED BY <1>9, <2>1, <1>a, <1>s DEF MailLookup, FindByEmail
<1>10. ASSUME NEW r \in SignUpRequest, SaveToken(r)
      PROVE  SignUpTypeOK'
  <2>1. PICK t \in FreshTokens :
            /\ token' = TokenStored(t, "confirm", su[r].user, su[r].email)
            /\ su' = [su EXCEPT ![r] = [@ EXCEPT !.pc = "expireToken", !.token = t]]
    BY <1>10 DEF SaveToken
  <2> DEFINE h == [su[r] EXCEPT !.pc = "expireToken", !.token = t]
  <2>2. h \in Handler /\ Ready(h)
    BY ZenonT(60), <1>10 DEF SaveToken, FreshTokens, At, Handler, Labels, Ready, SignUpLabels, MailLabels, ConfirmLabels, UserLabels
  <2>3. su[r].user \in UserId /\ su[r].email \in Email
    BY <1>10 DEF SaveToken, At, Ready, MailLabels, UserLabels
  <2>4. StoreTypeOK'
    BY <1>10, <2>1, <2>3 DEF SaveToken, FreshTokens, TokenStored, TokenRow, StoreTypeOK, postgres
  <2> QED BY <2>1, <2>2, <2>4, <1>0
<1>11. ASSUME NEW r \in SignUpRequest, ExpireToken(r)
      PROVE  SignUpTypeOK'
  <2>1. StoreTypeOK'
    <3> DEFINE t == su[r].token
               row == [token[t] EXCEPT !.ttl = TRUE]
    <3>1. t \in Token /\ token[t] \in TokenRow
      BY <1>11 DEF ExpireToken, At, Ready, StoreTypeOK
    <3>2. row \in TokenRow /\ row.kind = token[t].kind /\ row.user = token[t].user
          /\ row.email = token[t].email
      BY <3>1 DEF TokenRow
    <3>3. token' = [token EXCEPT ![t] = row]
      BY <1>11 DEF ExpireToken
    <3> HIDE DEF row
    <3>4. token' \in [Token -> TokenRow]
      BY <3>1, <3>2, <3>3 DEF StoreTypeOK
    <3>5. \A x \in Token : token'[x].kind = token[x].kind /\ token'[x].user = token[x].user
                          /\ token'[x].email = token[x].email
      BY <3>1, <3>2, <3>3 DEF StoreTypeOK
    <3> QED BY <1>11, <3>4, <3>5 DEF ExpireToken, StoreTypeOK, postgres
  <2>2. [su[r] EXCEPT !.pc = "mail"] \in Handler /\ Ready([su[r] EXCEPT !.pc = "mail"])
    BY <1>11 DEF ExpireToken, At, Handler, Labels, Ready, SignUpLabels, MailLabels, ConfirmLabels, UserLabels
  <2>3. su' = [su EXCEPT ![r] = [su[r] EXCEPT !.pc = "mail"]]
    BY <1>11 DEF ExpireToken, Goto
  <2> QED BY <2>1, <2>2, <2>3, <1>0
<1>12. ASSUME NEW r \in SignUpRequest, SendMail(r)
      PROVE  SignUpTypeOK'
  <2>1. StoreTypeOK'
    <3> DEFINE t == su[r].token
               row == [token[t] EXCEPT !.sent = TRUE]
    <3>1. t \in Token /\ token[t] \in TokenRow
      BY <1>12 DEF SendMail, At, Ready, StoreTypeOK
    <3>2. row \in TokenRow /\ row.kind = token[t].kind /\ row.user = token[t].user
          /\ row.email = token[t].email
      BY <3>1 DEF TokenRow
    <3>3. token' = [token EXCEPT ![t] = row]
      BY <1>12 DEF SendMail
    <3> HIDE DEF row
    <3>4. token' \in [Token -> TokenRow]
      BY <3>1, <3>2, <3>3 DEF StoreTypeOK
    <3>5. \A x \in Token : token'[x].kind = token[x].kind /\ token'[x].user = token[x].user
                          /\ token'[x].email = token[x].email
      BY <3>1, <3>2, <3>3 DEF StoreTypeOK
    <3> QED BY <1>12, <3>4, <3>5 DEF SendMail, StoreTypeOK, postgres
  <2>2. CASE su[r].op = "signUp"
    <3> DEFINE h == [su[r] EXCEPT !.pc = "openSession"]
    <3>1. h \in Handler /\ Ready(h)
      BY <2>2 DEF Handler, Labels, Ready, SignUpLabels, MailLabels, ConfirmLabels, UserLabels
    <3> QED BY <3>1, <2>1, <2>2, <1>12, <1>0 DEF SendMail, Goto
  <2> QED BY <2>1, <2>2, <1>12, <1>a DEF SendMail
<1>13. ASSUME NEW r \in SignUpRequest, OpenSession(r)
      PROVE  SignUpTypeOK'
  <2>1. StoreTypeOK'
    BY <1>13 DEF OpenSession, At, StoreTypeOK, Ready, SignUpLabels, postgres
  <2> QED BY <1>13, <2>1, <1>a DEF OpenSession
<1>14. ASSUME NEW r \in SignUpRequest, Activate(r)
      PROVE  SignUpTypeOK'
  <2>1. StoreTypeOK'
    <3> DEFINE u == su[r].user
    <3>1. u \in UserId /\ user[u] \in UserRow /\ Exists(u) \in BOOLEAN
      BY <1>14 DEF Activate, At, Ready, UserLabels, StoreTypeOK, Exists
    <3>2. [user[u] EXCEPT !.active = Exists(u)] \in UserRow
      BY <3>1 DEF UserRow
    <3>3. user' \in [UserId -> UserRow]
      BY <1>14, <3>1, <3>2 DEF Activate, ActiveUpdated, StoreTypeOK
    <3> QED BY <1>14, <3>3 DEF Activate, StoreTypeOK, redis
  <2>2. [su[r] EXCEPT !.pc = "count"] \in Handler /\ Ready([su[r] EXCEPT !.pc = "count"])
    BY <1>14 DEF Activate, At, Handler, Labels, Ready, SignUpLabels, MailLabels, ConfirmLabels, UserLabels
  <2>3. su' = [su EXCEPT ![r] = [su[r] EXCEPT !.pc = "count"]]
    BY <1>14 DEF Activate, Goto
  <2> QED BY <2>1, <2>2, <2>3, <1>0
<1>15. ASSUME NEW r \in SignUpRequest, CountActive(r)
      PROVE  SignUpTypeOK'
  <2>1. StoreTypeOK'
    BY <1>15, <1>s DEF CountActive
  <2>2. [su[r] EXCEPT !.pc = "grant"] \in Handler /\ Ready([su[r] EXCEPT !.pc = "grant"])
    BY <1>15 DEF CountActive, At, Handler, Labels, Ready, SignUpLabels, MailLabels, ConfirmLabels, UserLabels
  <2>3. Answer(r) \/ su' = [su EXCEPT ![r] = [su[r] EXCEPT !.pc = "grant"]]
    BY <1>15 DEF CountActive, Goto
  <2> QED BY <2>1, <2>2, <2>3, <1>0, <1>a
<1>16. ASSUME NEW r \in SignUpRequest, Grant(r)
      PROVE  SignUpTypeOK'
  <2>1. StoreTypeOK'
    BY <1>16 DEF Grant, At, StoreTypeOK, Ready, UserLabels, redis
  <2> QED BY <1>16, <2>1, <1>a DEF Grant
<1>17. ASSUME NEW r \in SignUpRequest, Abort(r)
      PROVE  SignUpTypeOK'
  BY <1>17, <1>a, <1>s DEF Abort
<1>18. ASSUME NEW t \in Token, TokenExpires(t), UNCHANGED su
      PROVE  SignUpTypeOK'
  <2>1. token' \in [Token -> TokenRow]
    BY ZenonT(60), <1>18 DEF TokenExpires, TokenGone, TokenRow, StoreTypeOK
  <2> QED BY <1>18, <1>w, <2>1 DEF TokenExpires, TokenGone, TokenRow, StoreTypeOK, postgres
<1>19. CASE UNCHANGED signUpVars
  BY <1>19, <1>s, <1>w DEF signUpVars, store
<1> QED
  BY <1>1, <1>2, <1>3, <1>4, <1>5, <1>6, <1>7, <1>8, <1>9, <1>10, <1>11, <1>12, <1>13, <1>14, <1>15, <1>16, <1>17, <1>18, <1>19
     DEF SignUpNext, SignUpArrives, SignUpStep

(* Every handler has the values its next call passes on, and the tables stay  *)
(* well formed, whatever the interleaving and the failures.                   *)
THEOREM TypeCorrect == SignUpSpec => []SignUpTypeOK
  BY TypeInit, TypeStep, PTL DEF SignUpSpec

-----------------------------------------------------------------------------
(* Safety: SignUpInv is inductive, and what a reader expects of sign-up        *)
(* follows from it.                                                            *)
LEMMA InvInit == SignUpInit => RowsInv /\ AdminInv /\ RegistryInv /\ MailInv
  BY DEF SignUpInit, StoreInit, RowsInv, AdminInv, RegistryInv, MailInv, ActiveOnlyByMail,
         ActiveUsers, Exists, IsLive, Idle, UserLabels, MailLabels

-----------------------------------------------------------------------------
(* The handlers                                                               *)

(* A handler changes only in a step of its own.                               *)
LEMMA OwnStep ==
  ASSUME SignUpTypeOK, [SignUpNext]_signUpVars, NEW q \in SignUpRequest, su'[q] # su[q]
  PROVE  SignUpArrives(q) \/ SignUpStep(q) \/ Abort(q)
<1>1. ASSUME NEW r \in SignUpRequest, NEW h, su' = [su EXCEPT ![r] = h]
      PROVE  q = r
  BY <1>1 DEF SignUpTypeOK
<1>2. ASSUME NEW r \in SignUpRequest, SignUpArrives(r) PROVE q = r
  BY <1>1, <1>2 DEF SignUpArrives, Subscribe, Resend, Confirm
<1>3. ASSUME NEW r \in SignUpRequest, SignUpStep(r) PROVE q = r
  BY <1>1, <1>3
  DEF SignUpStep, Retrieve, RetrieveUser, AddUser, AddLogin, AddPassword, MailLookup,
      SaveToken, ExpireToken, SendMail, OpenSession, Activate, CountActive, Grant, Goto, Answer
<1>4. ASSUME NEW r \in SignUpRequest, Abort(r) PROVE q = r
  BY <1>1, <1>4 DEF Abort, Answer
<1> QED
  BY <1>2, <1>3, <1>4 DEF SignUpNext, signUpVars

(* The handler keeps everything but its label.                                *)
Kept(r) == /\ su'[r].op = su[r].op
           /\ su'[r].email = su[r].email
           /\ su'[r].password = su[r].password
           /\ su'[r].user = su[r].user
           /\ su'[r].token = su[r].token

LEMMA AfterGoto ==
  ASSUME SignUpTypeOK, NEW r \in SignUpRequest, NEW l, Goto(r, l)
  PROVE  su'[r].pc = l /\ Kept(r)
  BY DEF Goto, Kept, SignUpTypeOK, Handler

LEMMA AfterAnswer ==
  ASSUME SignUpTypeOK, NEW r \in SignUpRequest, Answer(r)
  PROVE  su'[r] = Idle
  BY DEF Answer, SignUpTypeOK

(* Where the steps of a handler lead that change more than its label.         *)
LEMMA AfterArrival ==
  ASSUME SignUpTypeOK, NEW r \in SignUpRequest, SignUpArrives(r)
  PROVE  \/ su'[r].pc = "retrieve"
         \/ su'[r].pc = "mailLookup" /\ su'[r].op = "resend"
         \/ /\ su'[r].pc = "activate"
            /\ \E t \in Token : /\ su'[r].token = t /\ su'[r].user = token[t].user
                                /\ token[t].kind = "confirm" /\ token[t].sent
<1>1. ASSUME NEW e \in Email, NEW p \in Password, Subscribe(r, e, p)
      PROVE  su'[r].pc = "retrieve"
  BY <1>1 DEF Subscribe, Idle, SignUpTypeOK
<1>2. ASSUME NEW e \in Email, Resend(r, e)
      PROVE  su'[r].pc = "mailLookup" /\ su'[r].op = "resend"
  BY <1>2 DEF Resend, Idle, SignUpTypeOK
<1>3. ASSUME NEW t \in Token, Confirm(r, t)
      PROVE  /\ su'[r].pc = "activate"
             /\ su'[r].token = t /\ su'[r].user = token[t].user
             /\ token[t].kind = "confirm" /\ token[t].sent
  BY <1>3 DEF Confirm, TokenKnown, Idle, SignUpTypeOK
<1> QED
  BY <1>1, <1>2, <1>3 DEF SignUpArrives

LEMMA AfterRetrieve ==
  ASSUME SignUpTypeOK, NEW r \in SignUpRequest, Retrieve(r)
  PROVE  \/ /\ su'[r].pc = "retrieveUser"
            /\ su'[r].user = loginInfo[su[r].email] /\ su'[r].user # Nil
         \/ su'[r].pc = "addUser"
<1>1. CASE Goto(r, "addUser")
  BY <1>1, AfterGoto
<1>2. ASSUME NEW u, u # Nil, u = loginInfo[su[r].email],
             su' = [su EXCEPT ![r] = [@ EXCEPT !.pc = "retrieveUser", !.user = u]]
      PROVE  /\ su'[r].pc = "retrieveUser"
             /\ su'[r].user = loginInfo[su[r].email] /\ su'[r].user # Nil
  BY <1>2 DEF SignUpTypeOK, Handler
<1> QED BY <1>1, <1>2 DEF Retrieve

LEMMA AfterAddUser ==
  ASSUME SignUpTypeOK, NEW r \in SignUpRequest, AddUser(r)
  PROVE  \E u \in UserId : /\ user[u].row = "never"
                           /\ user' = UserAdded(u, su[r].email)
                           /\ su'[r].pc = "addLogin" /\ su'[r].user = u
                           /\ su'[r].email = su[r].email
                           /\ su'[r].op = su[r].op
  BY DEF AddUser, SignUpTypeOK, Handler

LEMMA AfterMailLookup ==
  ASSUME SignUpTypeOK, NEW r \in SignUpRequest, MailLookup(r)
  PROVE  \/ su'[r] = Idle
         \/ /\ su'[r].pc = "saveToken" /\ su'[r].user \in FindByEmail(su[r].email)
            /\ su'[r].email = su[r].email /\ su'[r].op = su[r].op
<1>1. CASE Answer(r)
  BY <1>1, AfterAnswer
<1>2. ASSUME NEW u \in FindByEmail(su[r].email),
             su' = [su EXCEPT ![r] = [@ EXCEPT !.pc = "saveToken", !.user = u]]
      PROVE  /\ su'[r].pc = "saveToken" /\ su'[r].user \in FindByEmail(su[r].email)
             /\ su'[r].email = su[r].email /\ su'[r].op = su[r].op
  BY <1>2 DEF SignUpTypeOK, Handler
<1> QED BY <1>1, <1>2 DEF MailLookup

LEMMA AfterSaveToken ==
  ASSUME SignUpTypeOK, NEW r \in SignUpRequest, SaveToken(r)
  PROVE  \E t \in FreshTokens : /\ token' = TokenStored(t, "confirm", su[r].user, su[r].email)
                                /\ su'[r].pc = "expireToken" /\ su'[r].token = t
                                /\ su'[r].user = su[r].user
                                /\ su'[r].email = su[r].email /\ su'[r].op = su[r].op
  BY DEF SaveToken, SignUpTypeOK, Handler

(* Where the others lead.                                                     *)
LEMMA AfterCall ==
  ASSUME SignUpTypeOK, NEW r \in SignUpRequest, SignUpStep(r)
  PROVE  \/ Retrieve(r) \/ AddUser(r) \/ MailLookup(r) \/ SaveToken(r)
         \/ su'[r] = Idle
         \/ RetrieveUser(r) /\ su'[r].pc = "addUser" /\ Kept(r)
         \/ AddLogin(r) /\ su'[r].pc = "addPassword" /\ Kept(r)
         \/ AddPassword(r) /\ su'[r].pc = "mailLookup" /\ Kept(r)
         \/ ExpireToken(r) /\ su'[r].pc = "mail" /\ Kept(r)
         \/ SendMail(r) /\ su'[r].pc = "openSession" /\ su[r].op = "signUp" /\ Kept(r)
         \/ Activate(r) /\ su'[r].pc = "count" /\ Kept(r)
         \/ CountActive(r) /\ su'[r].pc = "grant" /\ Kept(r)
            /\ ~(Cardinality(ActiveUsers) > 1)
  BY AfterGoto, AfterAnswer
  DEF SignUpStep, RetrieveUser, AddLogin, AddPassword, ExpireToken, SendMail, OpenSession,
      Activate, CountActive, Grant

-----------------------------------------------------------------------------
(* RowsInv                                                                    *)

(* No step of a sign-up takes a live row away.                                *)
LEMMA LiveStays ==
  ASSUME SignUpTypeOK, RowsInv, [SignUpNext]_signUpVars, NEW u \in UserId, IsLive(u)
  PROVE  IsLive(u)' /\ user'[u].email = user[u].email
<1>1. ASSUME NEW r \in SignUpRequest, AddUser(r)
      PROVE  IsLive(u)' /\ user'[u].email = user[u].email
  BY <1>1 DEF AddUser, UserAdded, IsLive, SignUpTypeOK, StoreTypeOK
<1>2. ASSUME NEW r \in SignUpRequest, Activate(r)
      PROVE  IsLive(u)' /\ user'[u].email = user[u].email
  BY <1>2 DEF Activate, ActiveUpdated, IsLive, SignUpTypeOK, StoreTypeOK, UserRow
<1>3. CASE UNCHANGED user
  BY <1>3 DEF IsLive
<1> QED
  BY <1>1, <1>2, <1>3
  DEF SignUpNext, SignUpArrives, SignUpStep, Subscribe, Resend, Confirm, Retrieve, RetrieveUser,
      AddLogin, AddPassword, MailLookup, SaveToken, ExpireToken, SendMail, OpenSession,
      CountActive, Grant, Abort, TokenExpires, signUpVars, store, postgres, redis

(* What a handler whose label is in a set L of labels does next, in terms of  *)
(* the user it holds: it keeps it, unless it was given one by a query.        *)
LEMMA RowsStep ==
  SignUpTypeOK /\ RowsInv /\ [SignUpNext]_signUpVars => RowsInv'
<1> SUFFICES ASSUME SignUpTypeOK, RowsInv, [SignUpNext]_signUpVars PROVE RowsInv'
  OBVIOUS
<1>l. \A u \in UserId : user[u].row = "live" => user'[u].row = "live"
  BY LiveStays DEF IsLive
<1>1. \A u \in UserId : \/ user'[u].row = "live"
                        \/ user'[u].row = "never" /\ ~user'[u].active
  <2>1. ASSUME NEW r \in SignUpRequest, AddUser(r)
        PROVE  \A u \in UserId : user'[u] = user[u] \/ user'[u].row = "live"
    BY <2>1 DEF AddUser, UserAdded, SignUpTypeOK, StoreTypeOK
  <2>2. ASSUME NEW r \in SignUpRequest, Activate(r)
        PROVE  \A u \in UserId : user'[u] = user[u] \/ user'[u].row = "live"
    <3>1. su[r].user \in UserId /\ user[su[r].user].row = "live"
      BY <2>2 DEF Activate, At, UserLabels, RowsInv, IsLive, SignUpTypeOK, Ready
    <3> QED BY <2>2, <3>1 DEF Activate, ActiveUpdated, SignUpTypeOK, StoreTypeOK, UserRow
  <2>3. \A u \in UserId : user'[u] = user[u] \/ user'[u].row = "live"
    BY <2>1, <2>2
    DEF SignUpNext, SignUpArrives, SignUpStep, Subscribe, Resend, Confirm, Retrieve,
        RetrieveUser, AddLogin, AddPassword, MailLookup, SaveToken, ExpireToken, SendMail,
        OpenSession, CountActive, Grant, Abort, TokenExpires, signUpVars, store, postgres, redis
  <2> QED BY <2>3 DEF RowsInv
<1>2. \A e \in Email : loginInfo'[e] # Nil => user'[loginInfo'[e]].row = "live"
  <2>1. ASSUME NEW r \in SignUpRequest, AddLogin(r)
        PROVE  \A e \in Email : loginInfo'[e] \in {loginInfo[e], su[r].user}
    BY <2>1 DEF AddLogin, SignUpTypeOK, StoreTypeOK
  <2>2. ASSUME NEW r \in SignUpRequest, AddLogin(r)
        PROVE  user[su[r].user].row = "live" /\ su[r].user \in UserId
    BY <2>2 DEF AddLogin, At, UserLabels, RowsInv, IsLive, SignUpTypeOK, Ready
  <2>3. ASSUME NEW r \in SignUpRequest, AddLogin(r)
        PROVE  \A e \in Email : loginInfo'[e] # Nil => user'[loginInfo'[e]].row = "live"
    BY <2>1, <2>2, <2>3, <1>l DEF RowsInv, IsLive, SignUpTypeOK, StoreTypeOK
  <2>4. CASE UNCHANGED loginInfo
    BY <2>4, <1>l DEF RowsInv, IsLive, SignUpTypeOK, StoreTypeOK
  <2> QED
    BY <2>3, <2>4
    DEF SignUpNext, SignUpArrives, SignUpStep, Subscribe, Resend, Confirm, Retrieve,
        RetrieveUser, AddUser, AddPassword, MailLookup, SaveToken, ExpireToken, SendMail,
        OpenSession, Activate, CountActive, Grant, Abort, TokenExpires, signUpVars, store,
        postgres, redis
<1>3. \A t \in Token : token'[t].kind # "none" => user'[token'[t].user].row = "live"
  <2>1. ASSUME NEW t \in Token, NEW r \in SignUpRequest, SaveToken(r)
        PROVE  token'[t] = token[t] \/ token'[t].user = su[r].user
    BY <2>1 DEF SaveToken, TokenStored, FreshTokens, SignUpTypeOK, StoreTypeOK
  <2>2. ASSUME NEW r \in SignUpRequest, SaveToken(r)
        PROVE  user[su[r].user].row = "live" /\ su[r].user \in UserId
    BY <2>2 DEF SaveToken, At, UserLabels, RowsInv, IsLive, SignUpTypeOK, Ready
  <2>3. ASSUME NEW t \in Token,
               token'[t].kind = token[t].kind /\ token'[t].user = token[t].user
        PROVE  token'[t].kind # "none" => user'[token'[t].user].row = "live"
    BY <2>3, <1>l DEF RowsInv, IsLive, SignUpTypeOK, StoreTypeOK
  <2>4. ASSUME NEW r \in SignUpRequest, SaveToken(r), NEW t \in Token
        PROVE  token'[t].kind # "none" => user'[token'[t].user].row = "live"
    BY <2>1, <2>2, <2>3, <2>4, <1>l
  <2>5. ASSUME NEW r \in SignUpRequest, ExpireToken(r) \/ SendMail(r), NEW t \in Token
        PROVE  token'[t].kind # "none" => user'[token'[t].user].row = "live"
    <3>1. token'[t].kind = token[t].kind /\ token'[t].user = token[t].user
      BY <2>5 DEF ExpireToken, SendMail, SignUpTypeOK, StoreTypeOK, TokenRow
    <3> QED BY <3>1, <2>3
  <2>6. ASSUME NEW x \in Token, TokenExpires(x), NEW t \in Token
        PROVE  token'[t].kind # "none" => user'[token'[t].user].row = "live"
    <3>1. token'[t].kind = token[t].kind /\ token'[t].user = token[t].user
      BY <2>6 DEF TokenExpires, TokenGone, SignUpTypeOK, StoreTypeOK, TokenRow
    <3> QED BY <3>1, <2>3
  <2>7. CASE UNCHANGED token
    BY <2>7, <2>3
  <2> QED
    BY <2>4, <2>5, <2>6, <2>7
    DEF SignUpNext, SignUpArrives, SignUpStep, Subscribe, Resend, Confirm, Retrieve,
        RetrieveUser, AddUser, AddLogin, AddPassword, MailLookup,
        OpenSession, Activate, CountActive, Grant, Abort, signUpVars, store, postgres, redis
<1>4. ASSUME NEW q \in SignUpRequest, su'[q].pc \in UserLabels
      PROVE  user'[su'[q].user].row = "live"
  <2>1. su[q].pc \in UserLabels => su[q].user \in UserId /\ user'[su[q].user].row = "live"
    BY <1>l DEF RowsInv, IsLive, SignUpTypeOK, Ready
  <2>2. CASE su'[q] = su[q]
    BY <1>4, <2>1, <2>2
  <2>3. CASE Retrieve(q)
    <3>1. su[q].email \in Email
      BY <2>3 DEF Retrieve, At, SignUpTypeOK, Ready, SignUpLabels
    <3>2. loginInfo[su[q].email] # Nil => user'[loginInfo[su[q].email]].row = "live"
      BY <1>l, <3>1 DEF RowsInv, IsLive, SignUpTypeOK, StoreTypeOK
    <3> QED BY <1>4, <2>3, <3>2, AfterRetrieve DEF UserLabels
  <2>4. CASE AddUser(q)
    BY <2>4, AfterAddUser DEF UserAdded, SignUpTypeOK, StoreTypeOK
  <2>5. CASE MailLookup(q)
    BY <1>4, <1>l, <2>5, AfterMailLookup DEF FindByEmail, IsLive, Idle, UserLabels
  <2>6. CASE SaveToken(q)
    BY <2>1, <2>6, AfterSaveToken DEF SaveToken, At, UserLabels
  <2>7. CASE SignUpStep(q)
    <3>1. CASE su'[q] = Idle \/ su'[q].pc \in {"addUser", "mailLookup", "openSession"}
      BY <1>4, <3>1 DEF Idle, UserLabels
    <3>2. CASE Kept(q) /\ (AddLogin(q) \/ ExpireToken(q) \/ Activate(q) \/ CountActive(q))
      BY <2>1, <3>2 DEF Kept, AddLogin, ExpireToken, Activate, CountActive, At, UserLabels
    <3> QED BY <2>3, <2>4, <2>5, <2>6, <2>7, <3>1, <3>2, AfterCall
  <2>8. CASE SignUpArrives(q)
    BY <1>4, <1>l, <2>8, AfterArrival DEF RowsInv, IsLive, SignUpTypeOK, StoreTypeOK, UserLabels
  <2>9. CASE Abort(q)
    BY <1>4, <2>9, AfterAnswer DEF Abort, Idle, UserLabels
  <2> QED BY <2>2, <2>7, <2>8, <2>9, OwnStep
<1> QED
  BY <1>1, <1>2, <1>3, <1>4 DEF RowsInv, IsLive

-----------------------------------------------------------------------------
(* AdminInv                                                                   *)

(* One active user at most was counted: two active users are the same.        *)
LEMMA OneActive ==
  ASSUME ~(Cardinality(ActiveUsers) > 1), NEW u \in ActiveUsers, NEW v \in ActiveUsers
  PROVE  u = v
<1>1. IsFiniteSet(ActiveUsers)
  BY UserIdAssumption, FS_Subset DEF ActiveUsers
<1>2. Cardinality(ActiveUsers) \in Nat
  BY <1>1, FS_CardinalityType
<1>3. Cardinality(ActiveUsers) # 0
  BY <1>1, FS_EmptySet
<1>4. \E x : ActiveUsers = {x}
  <2>1. Cardinality(ActiveUsers) = 1
    BY <1>2, <1>3
  <2> QED BY <1>1, <2>1, FS_Singleton
<1> QED BY <1>4

(* A sign-up deactivates nobody.                                              *)
LEMMA ActiveStays ==
  ASSUME SignUpTypeOK, RowsInv, [SignUpNext]_signUpVars, NEW u \in ActiveUsers
  PROVE  u \in ActiveUsers'
<1>1. u \in UserId /\ user[u].row = "live" /\ user[u].active
  BY DEF ActiveUsers, Exists, RowsInv
<1>2. ASSUME user'[u].row = "live", user'[u].active PROVE u \in ActiveUsers'
  BY <1>1, <1>2 DEF ActiveUsers, Exists
<1>3. ASSUME NEW r \in SignUpRequest, AddUser(r) PROVE u \in ActiveUsers'
  BY <1>1, <1>2, <1>3 DEF AddUser, UserAdded, SignUpTypeOK, StoreTypeOK
<1>4. ASSUME NEW r \in SignUpRequest, Activate(r) PROVE u \in ActiveUsers'
  <2>1. Exists(u)
    BY <1>1 DEF Exists
  <2>2. user'[u].row = "live" /\ user'[u].active
    BY <1>1, <1>4, <2>1 DEF Activate, ActiveUpdated, SignUpTypeOK, StoreTypeOK, UserRow
  <2> QED BY <1>2, <2>2
<1>5. CASE UNCHANGED user
  BY <1>1, <1>2, <1>5
<1> QED
  BY <1>3, <1>4, <1>5
  DEF SignUpNext, SignUpArrives, SignUpStep, Subscribe, Resend, Confirm, Retrieve, RetrieveUser,
      AddLogin, AddPassword, MailLookup, SaveToken, ExpireToken, SendMail, OpenSession,
      CountActive, Grant, Abort, TokenExpires, signUpVars, store, postgres, redis

(* The user that a confirmation activates is active when it is counted.       *)
LEMMA ActivateActivates ==
  ASSUME SignUpTypeOK, RowsInv, NEW r \in SignUpRequest, Activate(r)
  PROVE  su[r].user \in ActiveUsers'
<1>1. su[r].user \in UserId /\ user[su[r].user].row = "live" /\ user[su[r].user] \in UserRow
  BY DEF Activate, At, UserLabels, RowsInv, IsLive, SignUpTypeOK, StoreTypeOK, Ready
<1>2. Exists(su[r].user)
  BY <1>1 DEF Exists
<1>3. user'[su[r].user].row = "live" /\ user'[su[r].user].active
  BY <1>1, <1>2 DEF Activate, ActiveUpdated, SignUpTypeOK, StoreTypeOK, UserRow
<1> QED BY <1>1, <1>3 DEF ActiveUsers, Exists

(* What brings a handler to the label "grant", and to the label "count".      *)
LEMMA EntersGrant ==
  ASSUME SignUpTypeOK, [SignUpNext]_signUpVars, NEW q \in SignUpRequest,
         su'[q].pc \in {"count", "grant"}
  PROVE  \/ su'[q] = su[q]
         \/ su'[q].pc = "count" /\ Activate(q) /\ su'[q].user = su[q].user
         \/ /\ su'[q].pc = "grant" /\ CountActive(q) /\ su'[q].user = su[q].user
            /\ ~(Cardinality(ActiveUsers) > 1)
<1>1. CASE SignUpArrives(q)
  BY <1>1, AfterArrival
<1>2. CASE SignUpStep(q)
  BY <1>2, AfterCall, AfterRetrieve, AfterAddUser, AfterMailLookup, AfterSaveToken DEF Idle, Kept
<1>3. CASE Abort(q)
  BY <1>3, AfterAnswer DEF Abort, Idle
<1> QED BY <1>1, <1>2, <1>3, OwnStep

LEMMA AdminStep ==
  SignUpTypeOK /\ RowsInv /\ AdminInv /\ [SignUpNext]_signUpVars => AdminInv'
<1> SUFFICES ASSUME SignUpTypeOK, RowsInv, AdminInv, [SignUpNext]_signUpVars PROVE AdminInv'
  OBVIOUS
<1>a. ASSUME NEW u \in ActiveUsers PROVE u \in ActiveUsers'
  BY ActiveStays
<1>c. \A r \in SignUpRequest : CountActive(r) => su[r].user \in ActiveUsers
  BY DEF AdminInv, CountActive, At
<1>s. \/ UNCHANGED superadmin
      \/ \E r \in SignUpRequest : /\ su[r].pc = "grant"
                                  /\ superadmin' = superadmin \cup {su[r].user}
                                  /\ su' = [su EXCEPT ![r] = Idle]
  BY DEF SignUpNext, SignUpArrives, SignUpStep, Subscribe, Resend, Confirm, Retrieve,
         RetrieveUser, AddUser, AddLogin, AddPassword, MailLookup, SaveToken, ExpireToken,
         SendMail, OpenSession, Activate, CountActive, Grant, Abort, TokenExpires, At, Answer,
         signUpVars, store, postgres, redis
<1>1. superadmin' \subseteq ActiveUsers'
  BY <1>a, <1>s DEF AdminInv
<1>2. ASSUME NEW r \in SignUpRequest, su'[r].pc \in {"count", "grant"}
      PROVE  su'[r].user \in ActiveUsers'
  BY <1>a, <1>c, <1>2, EntersGrant, ActivateActivates DEF AdminInv
<1>3. ASSUME NEW r \in SignUpRequest, NEW q \in SignUpRequest,
             su'[r].pc = "grant", su'[q].pc = "grant"
      PROVE  su'[r].user = su'[q].user
  <2>1. CASE su'[r] = su[r] /\ su'[q] = su[q]
    BY <1>3, <2>1 DEF AdminInv
  <2>2. CASE ~(Cardinality(ActiveUsers) > 1)
    <3>1. ASSUME NEW x \in SignUpRequest, su'[x].pc = "grant"
          PROVE  su'[x].user \in ActiveUsers
      BY <1>c, <3>1, EntersGrant DEF AdminInv
    <3> QED BY <1>3, <2>2, <3>1, OneActive
  <2> QED BY <1>3, <2>1, <2>2, EntersGrant
<1>4. ASSUME NEW r \in SignUpRequest, su'[r].pc = "grant"
      PROVE  superadmin' \subseteq {su'[r].user}
  <2>1. CASE UNCHANGED superadmin
    <3>1. CASE su'[r] = su[r]
      BY <1>4, <2>1, <3>1 DEF AdminInv
    <3>2. CASE CountActive(r) /\ su'[r].user = su[r].user /\ ~(Cardinality(ActiveUsers) > 1)
      BY <1>c, <2>1, <3>2, OneActive DEF AdminInv
    <3> QED BY <1>4, <3>1, <3>2, EntersGrant
  <2>2. ASSUME NEW q \in SignUpRequest, su[q].pc = "grant",
               superadmin' = superadmin \cup {su[q].user}, su' = [su EXCEPT ![q] = Idle]
        PROVE  superadmin' \subseteq {su'[r].user}
    <3>1. su'[r] = su[r] /\ q # r
      BY <1>4, <2>2 DEF Idle, SignUpTypeOK
    <3> QED BY <1>4, <2>2, <3>1 DEF AdminInv
  <2> QED BY <1>s, <2>1, <2>2
<1>5. ASSUME NEW u \in superadmin', NEW v \in superadmin'
      PROVE  u = v
  BY <1>s, <1>5 DEF AdminInv
<1> QED
  BY <1>1, <1>2, <1>3, <1>4, <1>5 DEF AdminInv

-----------------------------------------------------------------------------
(* RegistryInv                                                                *)

(* What brings a handler to the labels that RegistryInv speaks of.            *)
LEMMA EntersAddLogin ==
  ASSUME SignUpTypeOK, [SignUpNext]_signUpVars, NEW q \in SignUpRequest, su'[q].pc = "addLogin"
  PROVE  \/ su'[q] = su[q]
         \/ \E u \in UserId : /\ user[u].row = "never"
                             /\ user' = UserAdded(u, su[q].email)
                             /\ su'[q].user = u /\ su'[q].email = su[q].email
                             /\ AddUser(q)
<1>1. CASE SignUpArrives(q)
  BY <1>1, AfterArrival
<1>2. CASE SignUpStep(q)
  BY <1>2, AfterCall, AfterRetrieve, AfterAddUser, AfterMailLookup, AfterSaveToken DEF Idle
<1>3. CASE Abort(q)
  BY <1>3, AfterAnswer DEF Abort, Idle
<1> QED BY <1>1, <1>2, <1>3, OwnStep

LEMMA EntersAddPassword ==
  ASSUME SignUpTypeOK, [SignUpNext]_signUpVars, NEW q \in SignUpRequest, su'[q].pc = "addPassword"
  PROVE  su'[q] = su[q] \/ (AddLogin(q) /\ Kept(q))
<1>1. CASE SignUpArrives(q)
  BY <1>1, AfterArrival
<1>2. CASE SignUpStep(q)
  BY <1>2, AfterCall, AfterRetrieve, AfterAddUser, AfterMailLookup, AfterSaveToken DEF Idle
<1>3. CASE Abort(q)
  BY <1>3, AfterAnswer DEF Abort, Idle
<1>4. CASE su'[q] = su[q]
  BY <1>4
<1> QED BY <1>1, <1>2, <1>3, <1>4, OwnStep

LEMMA EntersMail ==
  ASSUME SignUpTypeOK, [SignUpNext]_signUpVars, NEW q \in SignUpRequest,
         su'[q].op = "signUp", su'[q].pc \in MailLabels \cup {"openSession"}
  PROVE  /\ su'[q].email = su[q].email
         /\ su[q].pc \in MailLabels \cup {"addPassword", "openSession"}
         /\ su[q].op = "signUp"
<1>1. CASE SignUpArrives(q)
  BY <1>1, AfterArrival DEF MailLabels
<1>2. CASE MailLookup(q)
  <2>1. su[q].pc = "mailLookup"
    BY <1>2 DEF MailLookup, At
  <2>2. su'[q] # Idle
    BY DEF Idle
  <2> QED BY <1>2, <2>1, <2>2, AfterMailLookup DEF MailLabels
<1>3. CASE SaveToken(q)
  BY <1>3, AfterSaveToken DEF SaveToken, At, MailLabels
<1>4. CASE Kept(q) /\ (AddPassword(q) \/ ExpireToken(q) \/ SendMail(q))
  BY <1>4 DEF Kept, AddPassword, ExpireToken, SendMail, At, MailLabels
<1>5. CASE SignUpStep(q)
  BY <1>2, <1>3, <1>4, <1>5, AfterCall, AfterRetrieve, AfterAddUser DEF Idle, MailLabels
<1>6. CASE Abort(q)
  BY <1>6, AfterAnswer DEF Abort, Idle
<1>7. CASE su'[q] = su[q]
  BY <1>7
<1> QED BY <1>1, <1>5, <1>6, <1>7, OwnStep

(* The statements that write the tables of the registry.                      *)
LEMMA LoginWrites ==
  ASSUME SignUpTypeOK, [SignUpNext]_signUpVars
  PROVE  \/ UNCHANGED loginInfo
         \/ \E r \in SignUpRequest :
              /\ su[r].pc = "addLogin" /\ AddLogin(r)
              /\ su[r].email \in Email /\ su[r].user \in UserId
              /\ loginInfo[su[r].email] = Nil
              /\ loginInfo' = [loginInfo EXCEPT ![su[r].email] = su[r].user]
              /\ UNCHANGED <<user, superadmin, redis>>
<1>1. ASSUME NEW r \in SignUpRequest, AddLogin(r), loginInfo' # loginInfo
      PROVE  /\ su[r].pc = "addLogin"
             /\ su[r].email \in Email /\ su[r].user \in UserId
             /\ loginInfo[su[r].email] = Nil
             /\ loginInfo' = [loginInfo EXCEPT ![su[r].email] = su[r].user]
             /\ UNCHANGED <<user, superadmin, redis>>
  <2>1. su[r].pc = "addLogin" /\ su[r].email \in Email /\ su[r].user \in UserId
    BY <1>1 DEF AddLogin, At, SignUpTypeOK, Ready, SignUpLabels, UserLabels
  <2> QED BY <1>1, <2>1 DEF AddLogin, LoginAllowed
<1> QED
  BY <1>1
  DEF SignUpNext, SignUpArrives, SignUpStep, Subscribe, Resend, Confirm, Retrieve,
      RetrieveUser, AddUser, AddPassword, MailLookup, SaveToken, ExpireToken, SendMail,
      OpenSession, Activate, CountActive, Grant, Abort, TokenExpires, signUpVars, store,
      postgres, redis

LEMMA PasswordWrites ==
  ASSUME SignUpTypeOK, [SignUpNext]_signUpVars
  PROVE  \/ UNCHANGED passwordInfo
         \/ \E r \in SignUpRequest :
              /\ su[r].pc = "addPassword" /\ AddPassword(r)
              /\ su[r].email \in Email /\ su[r].password \in Password
              /\ passwordInfo' = [passwordInfo EXCEPT ![su[r].email] = su[r].password]
              /\ UNCHANGED postgres
<1>1. ASSUME NEW r \in SignUpRequest, AddPassword(r), passwordInfo' # passwordInfo
      PROVE  /\ su[r].pc = "addPassword"
             /\ su[r].email \in Email /\ su[r].password \in Password
             /\ passwordInfo' = [passwordInfo EXCEPT ![su[r].email] = su[r].password]
             /\ UNCHANGED postgres
  BY <1>1 DEF AddPassword, At, SignUpTypeOK, Ready, SignUpLabels
<1> QED
  BY <1>1
  DEF SignUpNext, SignUpArrives, SignUpStep, Subscribe, Resend, Confirm, Retrieve,
      RetrieveUser, AddUser, AddLogin, MailLookup, SaveToken, ExpireToken, SendMail,
      OpenSession, Activate, CountActive, Grant, Abort, TokenExpires, signUpVars, store,
      postgres, redis

LEMMA RegistryStep ==
  SignUpTypeOK /\ RowsInv /\ RegistryInv /\ [SignUpNext]_signUpVars => RegistryInv'
<1> SUFFICES ASSUME SignUpTypeOK, RowsInv, RegistryInv, [SignUpNext]_signUpVars
             PROVE  RegistryInv'
  OBVIOUS
<1>l. \A u \in UserId : user[u].row = "live" => user'[u].email = user[u].email
  BY LiveStays DEF IsLive
<1>k. \A e \in Email : loginInfo[e] # Nil => loginInfo'[e] = loginInfo[e]
  BY LoginWrites DEF SignUpTypeOK, StoreTypeOK
<1>1. \A e \in Email : loginInfo'[e] # Nil => user'[loginInfo'[e]].email = e
  <2>1. CASE UNCHANGED loginInfo
    BY <1>l, <2>1 DEF RegistryInv, RowsInv, IsLive, SignUpTypeOK, StoreTypeOK
  <2>2. ASSUME NEW r \in SignUpRequest, su[r].pc = "addLogin", su[r].email \in Email,
               loginInfo' = [loginInfo EXCEPT ![su[r].email] = su[r].user], user' = user,
               NEW e \in Email, loginInfo'[e] # Nil
        PROVE  user'[loginInfo'[e]].email = e
    BY <2>2 DEF RegistryInv, SignUpTypeOK, StoreTypeOK
  <2> QED BY <2>1, <2>2, LoginWrites
<1>2. ASSUME NEW r \in SignUpRequest, su'[r].pc = "addLogin"
      PROVE  /\ user'[su'[r].user].email = su'[r].email
             /\ \A e \in Email : loginInfo'[e] # su'[r].user
  <2>1. CASE su'[r] = su[r]
    <3>1. su[r].pc = "addLogin" /\ su[r].user \in UserId /\ user[su[r].user].row = "live"
      BY <1>2, <2>1 DEF RowsInv, IsLive, UserLabels, SignUpTypeOK, Ready
    <3>2. user'[su[r].user].email = su[r].email
      BY <1>l, <3>1 DEF RegistryInv
    <3>3. ASSUME NEW q \in SignUpRequest, su[q].pc = "addLogin", AddLogin(q),
                 su[q].email \in Email,
                 loginInfo' = [loginInfo EXCEPT ![su[q].email] = su[q].user]
          PROVE  \A e \in Email : loginInfo'[e] # su[r].user
      <4>1. q # r
        <5>1. su'[q] # su[q]
          BY <3>3, AfterGoto, AfterAnswer DEF AddLogin, Idle, At
        <5> QED BY <2>1, <5>1
      <4>2. su[q].user # su[r].user
        BY <3>1, <3>3, <4>1 DEF RegistryInv
      <4> QED BY <3>1, <3>3, <4>2 DEF RegistryInv, SignUpTypeOK, StoreTypeOK
    <3>4. \A e \in Email : loginInfo'[e] # su[r].user
      BY <3>1, <3>3, LoginWrites DEF RegistryInv
    <3> QED BY <2>1, <3>2, <3>4
  <2>2. ASSUME NEW u \in UserId, user[u].row = "never", user' = UserAdded(u, su[r].email),
               su'[r].user = u, su'[r].email = su[r].email, AddUser(r)
        PROVE  /\ user'[su'[r].user].email = su'[r].email
               /\ \A e \in Email : loginInfo'[e] # su'[r].user
    <3>1. user'[u].email = su[r].email
      BY <2>2 DEF UserAdded, SignUpTypeOK, StoreTypeOK
    <3>2. \A e \in Email : loginInfo[e] # u
      BY <2>2, NilAssumption DEF RowsInv, IsLive, SignUpTypeOK, StoreTypeOK
    <3>3. UNCHANGED loginInfo
      BY <2>2 DEF AddUser
    <3> QED BY <2>2, <3>1, <3>2, <3>3
  <2> QED BY <1>2, <2>1, <2>2, EntersAddLogin
<1>3. ASSUME NEW r \in SignUpRequest, su'[r].pc = "addPassword"
      PROVE  /\ loginInfo'[su'[r].email] = su'[r].user
             /\ passwordInfo'[su'[r].email] = Nil
  <2>1. CASE su'[r] = su[r]
    <3>1. /\ su[r].pc = "addPassword" /\ su[r].user \in UserId /\ su[r].email \in Email
          /\ loginInfo[su[r].email] = su[r].user /\ passwordInfo[su[r].email] = Nil
      BY <1>3, <2>1 DEF RegistryInv, SignUpTypeOK, Ready, SignUpLabels, UserLabels
    <3>2. loginInfo'[su[r].email] = su[r].user
      BY <1>k, <3>1, NilAssumption
    <3>3. ASSUME NEW q \in SignUpRequest, su[q].pc = "addPassword", AddPassword(q),
                 su[q].email \in Email,
                 passwordInfo' = [passwordInfo EXCEPT ![su[q].email] = su[q].password]
          PROVE  passwordInfo'[su[r].email] = Nil
      <4>1. q # r
        <5>1. su'[q] # su[q]
          BY <3>3, AfterGoto DEF AddPassword, At
        <5> QED BY <2>1, <5>1
      <4>2. su[q].email # su[r].email
        BY <3>1, <3>3, <4>1 DEF RegistryInv
      <4> QED BY <3>1, <3>3, <4>2 DEF SignUpTypeOK, StoreTypeOK
    <3>4. passwordInfo'[su[r].email] = Nil
      BY <3>1, <3>3, PasswordWrites
    <3> QED BY <2>1, <3>2, <3>4
  <2>2. CASE AddLogin(r) /\ Kept(r)
    <3>1. su[r].email \in Email /\ su[r].pc = "addLogin"
      BY <2>2 DEF AddLogin, At, SignUpTypeOK, Ready, SignUpLabels
    <3>2. /\ loginInfo[su[r].email] = Nil
          /\ loginInfo' = [loginInfo EXCEPT ![su[r].email] = su[r].user]
      BY <1>3, <2>2, AfterAnswer DEF AddLogin, LoginAllowed, Idle
    <3>3. UNCHANGED passwordInfo
      BY <2>2 DEF AddLogin, redis
    <3> QED
      BY <2>2, <3>1, <3>2, <3>3 DEF Kept, RegistryInv, SignUpTypeOK, StoreTypeOK
  <2> QED BY <1>3, <2>1, <2>2, EntersAddPassword
<1>4. ASSUME NEW r \in SignUpRequest, NEW q \in SignUpRequest,
             su'[r].pc \in {"addLogin", "addPassword"},
             su'[q].pc \in {"addLogin", "addPassword"}, su'[r].user = su'[q].user
      PROVE  r = q
  <2>1. ASSUME NEW x \in SignUpRequest, su'[x].pc \in {"addLogin", "addPassword"}
        PROVE  \/ su[x].pc \in {"addLogin", "addPassword"} /\ su'[x].user = su[x].user
               \/ user[su'[x].user].row = "never" /\ AddUser(x)
    BY <2>1, EntersAddLogin, EntersAddPassword DEF Kept, AddLogin, At
  <2>2. ASSUME NEW x \in SignUpRequest, su[x].pc \in {"addLogin", "addPassword"}
        PROVE  user[su[x].user].row = "live"
    BY <2>2 DEF RowsInv, IsLive, UserLabels
  <2>3. ASSUME AddUser(r), AddUser(q) PROVE r = q
    <3>1. su[r].pc = "addUser" /\ su[q].pc = "addUser" /\ su'[q].pc = "addLogin"
      BY <2>3, AfterAddUser DEF AddUser, At
    <3>2. \E u \in UserId : su' = [su EXCEPT ![r] = [@ EXCEPT !.pc = "addLogin", !.user = u]]
      BY <2>3 DEF AddUser
    <3> QED BY <3>1, <3>2 DEF SignUpTypeOK
  <2> QED BY <1>4, <2>1, <2>2, <2>3 DEF RegistryInv
<1>5. \A e \in Email : passwordInfo'[e] # Nil => loginInfo'[e] # Nil
  <2>1. ASSUME NEW r \in SignUpRequest, su[r].pc = "addPassword", su[r].email \in Email,
               passwordInfo' = [passwordInfo EXCEPT ![su[r].email] = su[r].password],
               NEW e \in Email, passwordInfo'[e] # Nil
        PROVE  loginInfo[e] # Nil
    <3>1. loginInfo[su[r].email] # Nil
      BY <2>1, NilAssumption DEF RegistryInv, UserLabels, SignUpTypeOK, Ready
    <3> QED BY <2>1, <3>1 DEF RegistryInv, SignUpTypeOK, StoreTypeOK
  <2> QED BY <1>k, <2>1, PasswordWrites DEF RegistryInv
<1>6. ASSUME NEW r \in SignUpRequest, su'[r].op = "signUp",
             su'[r].pc \in MailLabels \cup {"openSession"}
      PROVE  loginInfo'[su'[r].email] # Nil
  <2>1. su'[r].email = su[r].email /\ su[r].email \in Email /\ su[r].op = "signUp"
    BY <1>6, EntersMail DEF SignUpTypeOK, Ready
  <2>2. loginInfo[su[r].email] # Nil
    BY <1>6, <2>1, EntersMail, NilAssumption DEF RegistryInv, UserLabels, SignUpTypeOK, Ready
  <2> QED BY <1>k, <2>1, <2>2
<1>7. \A e \in session' : loginInfo'[e] # Nil
  <2>1. ASSUME NEW r \in SignUpRequest, OpenSession(r)
        PROVE  \A e \in session' : e \in Email /\ loginInfo[e] # Nil
    BY <2>1 DEF OpenSession, At, RegistryInv, SignUpTypeOK, StoreTypeOK, Ready, SignUpLabels
  <2>2. CASE UNCHANGED session
    BY <1>k, <2>2 DEF RegistryInv, SignUpTypeOK, StoreTypeOK
  <2> QED
    BY <1>k, <2>1, <2>2
    DEF SignUpNext, SignUpArrives, SignUpStep, Subscribe, Resend, Confirm, Retrieve,
        RetrieveUser, AddUser, AddLogin, AddPassword, MailLookup, SaveToken, ExpireToken,
        SendMail, Activate, CountActive, Grant, Abort, TokenExpires, signUpVars, store,
        postgres, redis
<1> QED
  BY <1>1, <1>2, <1>3, <1>4, <1>5, <1>6, <1>7 DEF RegistryInv

-----------------------------------------------------------------------------
(* MailInv                                                                    *)

(* What brings a handler to the labels that MailInv speaks of.                *)
LEMMA EntersSaveToken ==
  ASSUME SignUpTypeOK, [SignUpNext]_signUpVars, NEW q \in SignUpRequest, su'[q].pc = "saveToken"
  PROVE  \/ su'[q] = su[q]
         \/ su'[q].user \in FindByEmail(su'[q].email)
<1>1. CASE SignUpArrives(q)
  BY <1>1, AfterArrival
<1>2. CASE SignUpStep(q)
  BY <1>2, AfterCall, AfterRetrieve, AfterAddUser, AfterMailLookup, AfterSaveToken DEF Idle
<1>3. CASE Abort(q)
  BY <1>3, AfterAnswer DEF Abort, Idle
<1> QED BY <1>1, <1>2, <1>3, OwnStep

LEMMA EntersActivate ==
  ASSUME SignUpTypeOK, [SignUpNext]_signUpVars, NEW q \in SignUpRequest, su'[q].pc = "activate"
  PROVE  \/ su'[q] = su[q]
         \/ \E t \in Token : /\ su'[q].token = t /\ su'[q].user = token[t].user
                            /\ token[t].kind = "confirm" /\ token[t].sent
<1>1. CASE SignUpArrives(q)
  BY <1>1, AfterArrival
<1>2. CASE SignUpStep(q)
  BY <1>2, AfterCall, AfterRetrieve, AfterAddUser, AfterMailLookup, AfterSaveToken DEF Idle
<1>3. CASE Abort(q)
  BY <1>3, AfterAnswer DEF Abort, Idle
<1> QED BY <1>1, <1>2, <1>3, OwnStep

(* A token keeps what it says once it is drawn; one drawn in this step says   *)
(* what its handler holds.                                                    *)
LEMMA TokenWrites ==
  ASSUME SignUpTypeOK, [SignUpNext]_signUpVars, NEW t \in Token
  PROVE  \/ /\ token'[t].kind = token[t].kind /\ token'[t].user = token[t].user
            /\ token'[t].email = token[t].email /\ (token[t].sent => token'[t].sent)
         \/ /\ token[t].kind = "none" /\ token'[t].kind = "confirm"
            /\ \E r \in SignUpRequest : /\ su[r].pc = "saveToken"
                                       /\ token'[t].user = su[r].user
                                       /\ token'[t].email = su[r].email
<1> DEFINE Goal ==
      \/ /\ token'[t].kind = token[t].kind /\ token'[t].user = token[t].user
         /\ token'[t].email = token[t].email /\ (token[t].sent => token'[t].sent)
      \/ /\ token[t].kind = "none" /\ token'[t].kind = "confirm"
         /\ \E r \in SignUpRequest : /\ su[r].pc = "saveToken"
                                    /\ token'[t].user = su[r].user
                                    /\ token'[t].email = su[r].email
<1>1. ASSUME NEW r \in SignUpRequest, SaveToken(r) PROVE Goal
  <2>1. su[r].pc = "saveToken"
    BY <1>1 DEF SaveToken, At
  <2>2. PICK x \in FreshTokens : token' = TokenStored(x, "confirm", su[r].user, su[r].email)
    BY <1>1, AfterSaveToken
  <2>3. CASE t = x
    BY <2>1, <2>2, <2>3 DEF TokenStored, FreshTokens, SignUpTypeOK, StoreTypeOK
  <2>4. CASE t # x
    BY <2>2, <2>4 DEF TokenStored, FreshTokens, SignUpTypeOK, StoreTypeOK
  <2> QED BY <2>3, <2>4
<1>2. ASSUME NEW r \in SignUpRequest, ExpireToken(r) \/ SendMail(r) PROVE Goal
  BY SMTT(30), <1>2 DEF ExpireToken, SendMail, SignUpTypeOK, StoreTypeOK, TokenRow
<1>3. ASSUME NEW x \in Token, TokenExpires(x) PROVE Goal
  BY <1>3 DEF TokenExpires, TokenGone, SignUpTypeOK, StoreTypeOK, TokenRow
<1>4. CASE UNCHANGED token
  BY <1>4
<1> QED
  BY <1>1, <1>2, <1>3, <1>4
  DEF SignUpNext, SignUpArrives, SignUpStep, Subscribe, Resend, Confirm, Retrieve,
      RetrieveUser, AddUser, AddLogin, AddPassword, MailLookup, OpenSession,
      Activate, CountActive, Grant, Abort, signUpVars, store, postgres, redis

LEMMA MailStep ==
  SignUpTypeOK /\ RowsInv /\ MailInv /\ [SignUpNext]_signUpVars => MailInv'
<1> SUFFICES ASSUME SignUpTypeOK, RowsInv, MailInv, [SignUpNext]_signUpVars PROVE MailInv'
  OBVIOUS
<1>l. \A u \in UserId : user[u].row = "live" =>
        user'[u].row = "live" /\ user'[u].email = user[u].email
  BY LiveStays DEF IsLive
<1>1. ASSUME NEW t \in Token, token'[t].kind # "none"
      PROVE  token'[t].kind = "confirm" /\ user'[token'[t].user].email = token'[t].email
  <2>1. CASE /\ token'[t].kind = token[t].kind /\ token'[t].user = token[t].user
             /\ token'[t].email = token[t].email
    BY <1>1, <1>l, <2>1 DEF MailInv, RowsInv, IsLive, SignUpTypeOK, StoreTypeOK
  <2>2. ASSUME token'[t].kind = "confirm", NEW r \in SignUpRequest, su[r].pc = "saveToken",
               token'[t].user = su[r].user, token'[t].email = su[r].email
        PROVE  token'[t].kind = "confirm" /\ user'[token'[t].user].email = token'[t].email
    BY <1>l, <2>2 DEF MailInv, RowsInv, IsLive, UserLabels, SignUpTypeOK, Ready
  <2> QED BY <2>1, <2>2, TokenWrites
<1>2. ASSUME NEW r \in SignUpRequest, su'[r].pc = "saveToken"
      PROVE  user'[su'[r].user].email = su'[r].email
  <2>1. CASE su'[r] = su[r]
    BY <1>2, <1>l, <2>1 DEF MailInv, RowsInv, IsLive, UserLabels, SignUpTypeOK, Ready
  <2>2. CASE su'[r].user \in FindByEmail(su'[r].email)
    BY <1>l, <2>2 DEF FindByEmail, IsLive
  <2> QED BY <1>2, <2>1, <2>2, EntersSaveToken
<1>3. ASSUME NEW r \in SignUpRequest, su'[r].pc = "activate"
      PROVE  LET t == su'[r].token
             IN  token'[t].kind = "confirm" /\ token'[t].sent /\ token'[t].user = su'[r].user
  <2>1. ASSUME NEW t \in Token, token[t].kind = "confirm", token[t].sent
        PROVE  token'[t].kind = "confirm" /\ token'[t].sent /\ token'[t].user = token[t].user
    BY <2>1, TokenWrites
  <2>2. CASE su'[r] = su[r]
    BY <1>3, <2>1, <2>2 DEF MailInv, SignUpTypeOK, Ready
  <2> QED BY <1>3, <2>1, <2>2, EntersActivate
<1>4. ASSUME NEW u \in ActiveUsers'
      PROVE  \E t \in Token : /\ token'[t].sent
                             /\ token'[t].kind \in {"confirm", "email"}
                             /\ token'[t].user = u
                             /\ token'[t].email = user'[u].email
  <2>1. u \in UserId
    BY DEF ActiveUsers
  <2>2. CASE u \in ActiveUsers
    <3>1. user[u].row = "live" /\ u \in UserId
      BY <2>2 DEF ActiveUsers, Exists, RowsInv
    <3>2. PICK t \in Token : /\ token[t].sent /\ token[t].kind \in {"confirm", "email"}
                             /\ token[t].user = u /\ token[t].email = user[u].email
      BY <2>2 DEF MailInv, ActiveOnlyByMail
    <3> QED BY <1>l, <3>1, <3>2, TokenWrites
  <2>3. ASSUME NEW r \in SignUpRequest, Activate(r), su[r].user = u
        PROVE  \E t \in Token : /\ token'[t].sent
                               /\ token'[t].kind \in {"confirm", "email"}
                               /\ token'[t].user = u
                               /\ token'[t].email = user'[u].email
    <3> DEFINE t == su[r].token
    <3>1. t \in Token /\ token[t].kind = "confirm" /\ token[t].sent /\ token[t].user = u
      BY <2>3 DEF Activate, At, MailInv, SignUpTypeOK, Ready
    <3>2. user[u].email = token[t].email /\ user[u].row = "live"
      BY <3>1 DEF MailInv, RowsInv, IsLive
    <3>3. UNCHANGED token
      BY <2>3 DEF Activate, redis
    <3> QED BY <1>l, <2>1, <3>1, <3>2, <3>3
  <2>4. u \in ActiveUsers \/ \E r \in SignUpRequest : Activate(r) /\ su[r].user = u
    <3>1. ASSUME NEW r \in SignUpRequest, Activate(r)
          PROVE  u \in ActiveUsers \/ (Activate(r) /\ su[r].user = u)
      BY <2>1, <3>1 DEF Activate, ActiveUpdated, ActiveUsers, Exists, SignUpTypeOK, StoreTypeOK
    <3>2. ASSUME NEW r \in SignUpRequest, AddUser(r)
          PROVE  u \in ActiveUsers
      BY <2>1, <3>2 DEF AddUser, UserAdded, ActiveUsers, Exists, SignUpTypeOK, StoreTypeOK
    <3>3. CASE UNCHANGED user
      BY <3>3 DEF ActiveUsers, Exists
    <3> QED
      BY <3>1, <3>2, <3>3
      DEF SignUpNext, SignUpArrives, SignUpStep, Subscribe, Resend, Confirm, Retrieve,
          RetrieveUser, AddLogin, AddPassword, MailLookup, SaveToken, ExpireToken, SendMail,
          OpenSession, CountActive, Grant, Abort, TokenExpires, signUpVars, store, postgres,
          redis
  <2> QED BY <2>2, <2>3, <2>4
<1>5. ActiveOnlyByMail'
  BY <1>4 DEF ActiveOnlyByMail
<1> QED
  BY <1>1, <1>2, <1>3, <1>5 DEF MailInv

-----------------------------------------------------------------------------
(* SignUpInv is an inductive invariant of the specification.                  *)
THEOREM InvCorrect == SignUpSpec => []SignUpInv
<1>1. SignUpInit => SignUpInv
  BY TypeInit, InvInit DEF SignUpInv
<1>2. SignUpInv /\ [SignUpNext]_signUpVars => SignUpInv'
  BY TypeStep, RowsStep, AdminStep, RegistryStep, MailStep DEF SignUpInv
<1> QED BY <1>1, <1>2, PTL DEF SignUpSpec

(* Nobody becomes superadmin beside another one, however the confirmations     *)
(* interleave: only the user who was alone when counted is granted the role    *)
(* (SignUpService.grantToAdminFirstUser).                                      *)
THEOREM AtMostOneSuperadminCorrect == SignUpSpec => []AtMostOneSuperadmin
<1>1. SignUpInv => AtMostOneSuperadmin
  <2> SUFFICES ASSUME SignUpInv PROVE AtMostOneSuperadmin
    OBVIOUS
  <2>1. CASE superadmin = {}
    BY <2>1, FS_EmptySet DEF AtMostOneSuperadmin
  <2>2. ASSUME NEW u \in superadmin PROVE AtMostOneSuperadmin
    <3>1. superadmin = {u}
      BY <2>2 DEF SignUpInv, AdminInv
    <3>2. Cardinality(superadmin) = 1
      BY <3>1, FS_Singleton
    <3> QED BY <3>2 DEF AtMostOneSuperadmin
  <2> QED BY <2>1, <2>2
<1> QED BY <1>1, InvCorrect, PTL

(* No user becomes active unless a confirmation token naming it went to the    *)
(* address of its row (ConfirmEmailService, SignUpService.signUpConfirmation). *)
THEOREM ActiveOnlyByMailCorrect == SignUpSpec => []ActiveOnlyByMail
<1>1. SignUpInv => ActiveOnlyByMail
  BY DEF SignUpInv, MailInv
<1> QED BY <1>1, InvCorrect, PTL

(* The sign-up that lost a race for an address opens no session: each session  *)
(* is for an address whose login info leads to a live user with that address   *)
(* (SignUps.signUp, AccountService.save).                                      *)
THEOREM SessionHasLoginCorrect == SignUpSpec => []SessionHasLogin
<1>1. SignUpInv => SessionHasLogin
  BY DEF SignUpInv, SignUpTypeOK, StoreTypeOK, RowsInv, RegistryInv, SessionHasLogin
<1> QED BY <1>1, InvCorrect, PTL

-----------------------------------------------------------------------------
(* Every step of a sign-up is a step of the registry, or none.                *)
LEMMA RegistrySimulation ==
  SignUpInv /\ [SignUpNext]_signUpVars => [Registry!RegistryNext]_(Registry!registryVars)
<1> SUFFICES ASSUME SignUpInv, [SignUpNext]_signUpVars
             PROVE  [Registry!RegistryNext]_(Registry!registryVars)
  OBVIOUS
<1> USE DEF SignUpInv
<1>1. ASSUME NEW r \in SignUpRequest, AddLogin(r), loginInfo' # loginInfo
      PROVE  Registry!Claim(su[r].email, su[r].user) /\ su[r].email \in Email
             /\ su[r].user \in UserId
  BY <1>1
  DEF AddLogin, At, LoginAllowed, RegistryInv, Registry!Claim, SignUpTypeOK, Ready,
      SignUpLabels, UserLabels, redis
<1>2. ASSUME NEW r \in SignUpRequest, AddPassword(r), passwordInfo' # passwordInfo
      PROVE  Registry!SetSecret(su[r].email, su[r].password) /\ su[r].email \in Email
             /\ su[r].password \in Password
  BY <1>2, NilAssumption
  DEF AddPassword, At, RegistryInv, Registry!SetSecret, SignUpTypeOK, Ready,
      SignUpLabels, UserLabels, postgres
<1>3. ASSUME NEW r \in SignUpRequest, Grant(r), superadmin' # superadmin
      PROVE  Registry!GrantFirst(su[r].user) /\ su[r].user \in UserId
  BY <1>3
  DEF Grant, At, RoleAllowed, AdminInv, Registry!GrantFirst, SignUpTypeOK, Ready, UserLabels,
      redis
<1>4. \/ UNCHANGED <<loginInfo, passwordInfo, superadmin>>
      \/ \E r \in SignUpRequest : AddLogin(r) /\ loginInfo' # loginInfo
      \/ \E r \in SignUpRequest : AddPassword(r) /\ passwordInfo' # passwordInfo
      \/ \E r \in SignUpRequest : Grant(r) /\ superadmin' # superadmin
  BY ZenonT(60) DEF SignUpNext, SignUpArrives, SignUpStep, Subscribe, Resend, Confirm, Retrieve,
         RetrieveUser, AddUser, AddLogin, AddPassword, MailLookup, SaveToken, ExpireToken,
         SendMail, OpenSession, Activate, CountActive, Grant, Abort, TokenExpires,
         signUpVars, store, postgres, redis
<1> QED
  BY <1>1, <1>2, <1>3, <1>4 DEF Registry!RegistryNext, Registry!registryVars

(* The tables that sign-up writes are a LoginRegistry: an address is claimed   *)
(* once and by one user, and a concurrent sign-up never replaces the password  *)
(* of the winner (AccountService.save, AuthLoginInfoDao.add, AuthInfoDAOImpl). *)
THEOREM RefinesRegistry == SignUpSpec => ImplementsLoginRegistry
<1>1. SignUpInit => Registry!RegistryInit
  BY DEF SignUpInit, StoreInit, Registry!RegistryInit
<1> QED
  BY <1>1, RegistrySimulation, InvCorrect, PTL
  DEF SignUpSpec, ImplementsLoginRegistry, Registry!RegistrySpec
=============================================================================
