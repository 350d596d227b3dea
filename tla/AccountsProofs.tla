---------------------------- MODULE AccountsProofs ----------------------------
(***************************************************************************)
(* Theorems about all account flows together, for any number of requests,  *)
(* users, addresses, passwords and tokens.  What a sign-up does on its own *)
(* is taken from SignUpProofs, the types of a change of address and of a   *)
(* deletion from FlowProofs.                                               *)
(***************************************************************************)
EXTENDS Accounts, SignUpProofs, FlowProofs

-----------------------------------------------------------------------------
(* A step is one of one flow.                                                 *)
LogsIn(r)  == LogInArrives(r) \/ LogInStep(r) \/ LogInAbort(r)
Forgets(r) == ForgotArrives(r) \/ ForgotStep(r) \/ ForgotAbort(r)

LEMMA Flows ==
    ASSUME [AccountsNext]_accountsVars
    PROVE  /\ UNCHANGED swallowing
           /\ \/ [SignUpNext]_signUpVars /\ OnlySignUp
              \/ \E r \in LogInRequest : LogsIn(r) /\ OnlyLogIn
              \/ \E r \in EmailRequest : Changes(r) /\ OnlyEmail
              \/ \E r \in ForgotRequest : Forgets(r) /\ OnlyForgot
              \/ \E r \in DeleteRequest : Deletes(r) /\ OnlyDelete
              \/ (\E e \in Email : SessionExpires(e)) /\ UNCHANGED <<su, li, ue, fp, dl>>
<1>1. CASE Arrival
  BY <1>1 DEF Arrival, SignUpNext, LogsIn, Changes, Forgets, Deletes
<1>2. CASE Call
  BY <1>2 DEF Call, SignUpCall, LogInCall, EmailCall, ForgotCall, DeleteCall, SignUpNext,
     LogsIn, Changes, Forgets, Deletes
<1>3. CASE Failure
  BY <1>3 DEF Failure, SignUpNext, LogsIn, Changes, Forgets, Deletes
<1>4. CASE Expiry
  BY <1>4 DEF Expiry, SignUpNext, OnlySignUp
<1>5. CASE UNCHANGED accountsVars
  BY <1>5 DEF accountsVars, OnlySignUp, signUpVars
<1> QED BY <1>1, <1>2, <1>3, <1>4, <1>5 DEF AccountsNext

-----------------------------------------------------------------------------
(* The types, and what each handler needs for the calls still to come.        *)
ForgotReady(h) ==
    /\ h.pc \in {"saveToken", "findUser", "setPassword"} => h.email \in Email
    /\ h.pc \in {"expireToken", "mail", "findUser", "setPassword", "dropToken"} => h.token \in Token
    /\ h.pc = "saveToken" => h.user \in UserId
    /\ h.pc \in {"findUser", "setPassword"} => h.password \in Password

ForgotTypes == fp \in [ForgotRequest -> ForgotHandler] /\ \A r \in ForgotRequest : ForgotReady(fp[r])

TypesInv ==
    /\ SignUpTypeOK /\ LogInTypeOK /\ EmailTypes /\ ForgotTypes /\ DeleteTypeOK
    /\ failures \in 0..MaxFailures

LEMMA TypesInit == AccountsInit => TypesInv
<1>1. ForgotInit => ForgotTypes
  BY DEF ForgotInit, ForgotTypes, ForgotIdle, ForgotHandler, ForgotLabels, ForgotReady
<1>2. LogInInit => LogInTypeOK
  BY DEF LogInInit, LogInTypeOK, LogInIdle, LogInHandler, LogInLabels
<1>3. 0 \in 0..MaxFailures
  BY BoundsAssumption
<1> QED BY <1>1, <1>2, <1>3, TypeInit, EmailTypesInit, DeleteTypesInit DEF AccountsInit, TypesInv

LEMMA TypesImply == TypesInv => AccountsTypeOK
BY DEF TypesInv, AccountsTypeOK, EmailTypes, EmailReady, EmailTypeOK, ChangeLabels,
   ForgotTypes, ForgotReady, ForgotTypeOK

LEMMA LogInTypes ==
    ASSUME StoreTypeOK, LogInTypeOK, NEW r \in LogInRequest, LogsIn(r)
    PROVE  StoreTypeOK' /\ LogInTypeOK'
<1> USE DEF LogInTypeOK, LogInHandler, LogInLabels, LogInIdle, LogInAt, LogInAnswer
<1>1. ASSUME NEW e \in Email, NEW p \in Password, Authenticate(r, e, p) PROVE StoreTypeOK' /\ LogInTypeOK'
  BY <1>1, SameStore DEF Authenticate
<1>2. ASSUME NEW e \in Email, LogOut(r, e) PROVE StoreTypeOK' /\ LogInTypeOK'
  BY <1>2, SameStore DEF LogOut
<1>s. ASSUME NEW h \in LogInHandler, h.pc # "idle" => h.email \in Email, li' = [li EXCEPT ![r] = h]
      PROVE  LogInTypeOK'
  BY <1>s
<1>a. ASSUME LogInAnswer(r) PROVE LogInTypeOK'
  BY <1>a
<1>3. CASE RetrieveLogin(r)
  <2>1. li[r] \in LogInHandler /\ li[r].email \in Email
    BY <1>3 DEF RetrieveLogin
  <2>2. loginInfo[li[r].email] \in UserId \cup {Nil}
    BY <2>1 DEF StoreTypeOK
  <2> DEFINE h == [li[r] EXCEPT !.pc = "findUser", !.login = loginInfo[li[r].email]]
  <2>3. h \in LogInHandler /\ h.email \in Email
    BY <2>1, <2>2
  <2>4. LogInAnswer(r) \/ li' = [li EXCEPT ![r] = h]
    BY <1>3 DEF RetrieveLogin
  <2>5. LogInTypeOK'
    BY <1>a, <1>s, <2>3, <2>4
  <2> QED BY <1>3, <2>5, SameStore DEF RetrieveLogin
<1>4. CASE RetrieveOwner(r)
  <2>1. li[r] \in LogInHandler /\ li[r].email \in Email
    BY <1>4 DEF RetrieveOwner
  <2> DEFINE h == [li[r] EXCEPT !.pc = IF li[r].op = "in" THEN "open" ELSE "close", !.login = Nil]
  <2>2. h \in LogInHandler /\ h.email \in Email
    BY <2>1
  <2>3. LogInAnswer(r) \/ li' = [li EXCEPT ![r] = h]
    BY <1>4 DEF RetrieveOwner
  <2>4. LogInTypeOK'
    BY <1>a, <1>s, <2>2, <2>3
  <2> QED BY <1>4, <2>4, SameStore DEF RetrieveOwner
<1>5. CASE InitSession(r) \/ CloseSession(r)
  BY <1>5 DEF InitSession, CloseSession, StoreTypeOK, postgres
<1>6. CASE LogInAbort(r)
  BY <1>6, SameStore DEF LogInAbort
<1> QED BY <1>1, <1>2, <1>3, <1>4, <1>5, <1>6 DEF LogsIn, LogInArrives, LogInStep

LEMMA ForgotSet ==
    ASSUME ForgotTypes, NEW r \in ForgotRequest, NEW h \in ForgotHandler, ForgotReady(h),
           fp' = [fp EXCEPT ![r] = h]
    PROVE  ForgotTypes'
BY DEF ForgotTypes

LEMMA ForgotRests == ForgotIdle \in ForgotHandler /\ ForgotReady(ForgotIdle)
BY DEF ForgotIdle, ForgotHandler, ForgotLabels, ForgotReady

LEMMA ForgotStepTypes ==
    ASSUME StoreTypeOK, ForgotTypes, NEW r \in ForgotRequest, Forgets(r)
    PROVE  StoreTypeOK' /\ ForgotTypes'
<1>h. fp \in [ForgotRequest -> ForgotHandler] /\ fp[r] \in ForgotHandler /\ ForgotReady(fp[r])
  BY DEF ForgotTypes
<1>a. ASSUME ForgotAnswer(r) PROVE ForgotTypes'
  BY <1>a, ForgotSet, ForgotRests DEF ForgotAnswer
<1>1. ASSUME NEW e \in Email, AskNewPassword(r, e) PROVE StoreTypeOK' /\ ForgotTypes'
  <2>1. PICK u \in UserId :
          fp' = [fp EXCEPT ![r] = [ForgotIdle EXCEPT !.pc = "saveToken", !.email = e, !.user = u]]
    BY <1>1 DEF AskNewPassword, FindByEmail
  <2> DEFINE h == [ForgotIdle EXCEPT !.pc = "saveToken", !.email = e, !.user = u]
  <2>2. h \in ForgotHandler /\ ForgotReady(h)
    BY DEF ForgotIdle, ForgotHandler, ForgotLabels, ForgotReady
  <2> QED BY <1>1, <2>1, <2>2, ForgotSet, SameStore DEF AskNewPassword
<1>2. ASSUME NEW t \in Token, NEW p \in Password, ChangePassword(r, t, p)
      PROVE  StoreTypeOK' /\ ForgotTypes'
  <2> DEFINE h == [ForgotIdle EXCEPT !.pc = "findUser", !.password = p, !.token = t,
                                     !.email = token[t].email]
  <2>1. token[t].email \in Email
    BY <1>2 DEF ChangePassword, TokenKnown, StoreTypeOK
  <2>2. h \in ForgotHandler /\ ForgotReady(h)
    BY <2>1 DEF ForgotIdle, ForgotHandler, ForgotLabels, ForgotReady
  <2> QED BY <1>2, <2>2, ForgotSet, SameStore DEF ChangePassword
<1>3. CASE SaveForgotToken(r)
  <2>1. PICK t \in FreshTokens :
          /\ token' = TokenStored(t, "forgot", fp[r].user, fp[r].email)
          /\ fp' = [fp EXCEPT ![r].pc = "expireToken", ![r].token = t]
    BY <1>3 DEF SaveForgotToken
  <2> DEFINE h == [fp[r] EXCEPT !.pc = "expireToken", !.token = t]
  <2>2. fp' = [fp EXCEPT ![r] = h]
    BY <1>h, <2>1
  <2>3. h \in ForgotHandler /\ ForgotReady(h)
    BY <1>h, <2>1 DEF ForgotHandler, ForgotLabels, ForgotReady, FreshTokens
  <2>4. ForgotTypes'
    BY <2>2, <2>3, ForgotSet
  <2>5. StoreTypeOK'
    BY <1>3, <1>h, <2>1, TokenTypes DEF SaveForgotToken, ForgotAt, ForgotReady
  <2> QED BY <2>4, <2>5
<1>4. ASSUME NEW l \in ForgotLabels, ForgotGoto(r, l), ForgotReady([fp[r] EXCEPT !.pc = l])
      PROVE  ForgotTypes'
  <2>1. [fp[r] EXCEPT !.pc = l] \in ForgotHandler
    BY <1>h DEF ForgotHandler
  <2>2. fp' = [fp EXCEPT ![r] = [fp[r] EXCEPT !.pc = l]]
    BY <1>4, <1>h DEF ForgotGoto
  <2> QED BY <1>4, <2>1, <2>2, ForgotSet
<1>5. CASE ExpireForgotToken(r)
  <2>1. ForgotTypes'
    BY <1>5, <1>4, <1>h DEF ExpireForgotToken, ForgotAt, ForgotReady, ForgotHandler, ForgotLabels
  <2> QED BY <1>5, <1>h, <2>1, TokenTypes DEF ExpireForgotToken, ForgotAt, ForgotReady
<1>6. CASE SendForgotMail(r)
  BY <1>6, <1>a, <1>h, TokenTypes DEF SendForgotMail, ForgotAt, ForgotReady
<1>7. CASE ForgotFindUser(r)
  <2>1. ForgotReady([fp[r] EXCEPT !.pc = "setPassword"])
    BY <1>7, <1>h DEF ForgotFindUser, ForgotAt, ForgotReady, ForgotHandler
  <2> QED BY <1>7, <1>4, <1>a, <2>1, SameStore DEF ForgotFindUser, ForgotLabels
<1>8. CASE SetPassword(r)
  <2>1. ForgotReady([fp[r] EXCEPT !.pc = "dropToken"])
    BY <1>8, <1>h DEF SetPassword, ForgotAt, ForgotReady, ForgotHandler
  <2>2. StoreTypeOK'
    BY <1>8, <1>h DEF SetPassword, ForgotAt, ForgotReady, StoreTypeOK, postgres
  <2> QED BY <1>8, <1>4, <2>1, <2>2 DEF SetPassword, ForgotLabels
<1>9. CASE DropToken(r)
  BY <1>9, <1>a, <1>h, TokenTypes DEF DropToken, ForgotAt, ForgotReady
<1>10. CASE ForgotAbort(r)
  BY <1>10, <1>a, SameStore DEF ForgotAbort
<1> QED BY <1>1, <1>2, <1>3, <1>5, <1>6, <1>7, <1>8, <1>9, <1>10
        DEF Forgets, ForgotArrives, ForgotStep

LEMMA TypesStep == TypesInv /\ [AccountsNext]_accountsVars => TypesInv'
<1> SUFFICES ASSUME TypesInv, [AccountsNext]_accountsVars PROVE TypesInv'
  OBVIOUS
<1>f. failures' \in 0..MaxFailures
  BY BoundsAssumption DEF AccountsNext, Arrival, Call, Failure, Expiry, SignUpCall, LogInCall,
     EmailCall, ForgotCall, DeleteCall, accountsVars, TypesInv
<1>w. StoreTypeOK /\ (StoreTypeOK' /\ UNCHANGED <<su, swallowing>> => SignUpTypeOK')
  BY DEF TypesInv, SignUpTypeOK
<1>k. /\ UNCHANGED li => LogInTypeOK'
      /\ UNCHANGED ue => EmailTypes'
      /\ UNCHANGED fp => ForgotTypes'
      /\ UNCHANGED dl => DeleteTypeOK'
  BY DEF TypesInv, LogInTypeOK, EmailTypes, ForgotTypes, DeleteTypeOK
<1>1. CASE [SignUpNext]_signUpVars /\ OnlySignUp
  BY <1>1, <1>f, <1>k, TypeStep DEF TypesInv, OnlySignUp
<1>2. ASSUME NEW r \in LogInRequest, LogsIn(r), OnlyLogIn, UNCHANGED swallowing PROVE TypesInv'
  BY <1>2, <1>f, <1>k, <1>w, LogInTypes DEF TypesInv, OnlyLogIn
<1>3. ASSUME NEW r \in EmailRequest, Changes(r), OnlyEmail, UNCHANGED swallowing PROVE TypesInv'
  BY <1>3, <1>f, <1>k, <1>w, EmailStepTypes DEF TypesInv, OnlyEmail
<1>4. ASSUME NEW r \in ForgotRequest, Forgets(r), OnlyForgot, UNCHANGED swallowing PROVE TypesInv'
  BY <1>4, <1>f, <1>k, <1>w, ForgotStepTypes DEF TypesInv, OnlyForgot
<1>5. ASSUME NEW r \in DeleteRequest, Deletes(r), OnlyDelete, UNCHANGED swallowing PROVE TypesInv'
  BY <1>5, <1>f, <1>k, <1>w, DeleteTypes DEF TypesInv, OnlyDelete
<1>6. ASSUME NEW e \in Email, SessionExpires(e), UNCHANGED <<su, li, ue, fp, dl, swallowing>>
      PROVE  TypesInv'
  <2>1. StoreTypeOK'
    BY <1>6, <1>w DEF SessionExpires, StoreTypeOK, postgres
  <2> QED BY <1>6, <1>f, <1>k, <1>w, <2>1 DEF TypesInv
<1> QED BY <1>1, <1>2, <1>3, <1>4, <1>5, <1>6, Flows

(* The handlers of all flows keep the values their next call needs, whatever   *)
(* the calls of the other flows, the failures and the expirations between.     *)
THEOREM AccountsTypeCorrect == AccountsSpec => []AccountsTypeOK
BY TypesInit, TypesStep, TypesImply, PTL DEF AccountsSpec

-----------------------------------------------------------------------------
(* Who may activate. Only users that were added are named by tokens, and by    *)
(* the handlers that are about to store one. The address of a row is the one   *)
(* it was added with, to which its confirmation tokens go, or one that a token *)
(* was mailed to for the user; whoever follows a link holds such a token.      *)
Added(u) == user[u].row # "never"

Moved(u) == \E t \in Token : /\ token[t].sent /\ token[t].kind = "email"
                             /\ token[t].user = u /\ token[t].email = user[u].email

AddedInv ==
    /\ \A t \in Token : token[t].kind # "none" => Added(token[t].user)
    /\ \A r \in SignUpRequest : su[r].pc = "saveToken" => Added(su[r].user)
    /\ \A r \in EmailRequest : ue[r].pc = "saveToken" => Added(ue[r].id)
    /\ \A r \in ForgotRequest : fp[r].pc = "saveToken" => Added(fp[r].user)

ChangeMailed(h) ==
    h.op = "change" =>
        /\ token[h.token].kind = "email" /\ token[h.token].sent
        /\ h.pc \notin {"retrieveUser", "retrieveToken"} =>
             token[h.token].user = h.id /\ token[h.token].email = h.new

MailedInv ==
    /\ \A t \in Token : token[t].kind = "confirm" =>
         user[token[t].user].email = token[t].email \/ Moved(token[t].user)
    /\ \A r \in SignUpRequest : su[r].pc = "saveToken" =>
         user[su[r].user].email = su[r].email \/ Moved(su[r].user)
    /\ \A r \in SignUpRequest : su[r].pc = "activate" =>
         LET t == su[r].token
         IN  token[t].kind = "confirm" /\ token[t].sent /\ token[t].user = su[r].user
    /\ \A r \in EmailRequest : ChangeMailed(ue[r])
    /\ ActiveOnlyByMail

LEMMA MailedInit == AccountsInit => AddedInv /\ MailedInv
BY DEF AccountsInit, SignUpInit, StoreInit, EmailInit, ForgotInit, AddedInv, MailedInv,
   ChangeMailed, ActiveOnlyByMail, ActiveUsers, Exists, Idle, EmailIdle, ForgotIdle

(* The actions of each flow that leave a table alone.                          *)
LEMMA UserWrites ==
    ASSUME [AccountsNext]_accountsVars
    PROVE  \/ UNCHANGED user
           \/ UNCHANGED <<loginInfo, token>> /\
                \/ \E r \in SignUpRequest : AddUser(r) \/ Activate(r)
                \/ \E r \in EmailRequest : WriteRow(r)
                \/ \E r \in DeleteRequest : Archive(r) \/ Purge(r)
<1>1. CASE [SignUpNext]_signUpVars
  BY <1>1
  DEF SignUpNext, SignUpArrives, SignUpStep, Subscribe, Resend, Confirm, Retrieve, RetrieveUser,
      AddUser, AddLogin, AddPassword, MailLookup, SaveToken, ExpireToken, SendMail, OpenSession,
      Activate, CountActive, Grant, Abort, TokenExpires, signUpVars, store, postgres, redis
<1>2. ASSUME NEW r \in LogInRequest, LogsIn(r) PROVE UNCHANGED user
  BY <1>2 DEF LogsIn, LogInArrives, LogInStep, LogInAbort, Authenticate, LogOut, RetrieveLogin,
     RetrieveOwner, InitSession, CloseSession, store, postgres
<1>3. ASSUME NEW r \in EmailRequest, Changes(r)
      PROVE  UNCHANGED user \/ (WriteRow(r) /\ UNCHANGED <<loginInfo, token>>)
  BY <1>3
  DEF Changes, EmailArrives, EmailStep, EmailAbort, UpdateEmailRequest, ChangeEmail,
      RetrieveActor, RetrieveToken, CheckEmailIsFree, EmailFindUser, SaveEmailToken, ExpireEmailToken, SendEmailMail, ReadRow,
      WriteRow, ReadLogin, WriteLogin, ReadPassword, MovePassword, RemovePassword,
      DeleteEmailToken, store, postgres, redis
<1>4. ASSUME NEW r \in ForgotRequest, Forgets(r) PROVE UNCHANGED user
  BY <1>4
  DEF Forgets, ForgotArrives, ForgotStep, ForgotAbort, AskNewPassword, ChangePassword,
      SaveForgotToken, ExpireForgotToken, SendForgotMail, ForgotFindUser, SetPassword, DropToken,
      store, postgres
<1>5. ASSUME NEW r \in DeleteRequest, Deletes(r)
      PROVE  UNCHANGED user \/ ((Archive(r) \/ Purge(r)) /\ UNCHANGED <<loginInfo, token>>)
  BY <1>5 DEF Deletes, DeleteArrives, DeleteStep, DeleteAbort, Delete, Archive, DeleteLogins, Purge,
     store, postgres, redis
<1>6. ASSUME NEW e \in Email, SessionExpires(e) PROVE UNCHANGED user
  BY <1>6 DEF SessionExpires, postgres
<1> QED BY <1>1, <1>2, <1>3, <1>4, <1>5, <1>6, Flows

(* What a step does to one row.                                                *)
LEMMA RowAfter ==
    ASSUME TypesInv, [AccountsNext]_accountsVars, NEW u \in UserId
    PROVE  \/ /\ Added(u) => Added(u)'
              /\ user'[u].email = user[u].email
              /\ u \in ActiveUsers' => u \in ActiveUsers
           \/ ~Added(u) /\ Added(u)' /\ u \notin ActiveUsers'
           \/ /\ Added(u) => Added(u)'
              /\ user'[u].email = user[u].email /\ UNCHANGED token
              /\ \E r \in SignUpRequest : su[r].pc = "activate" /\ su[r].user = u
           \/ /\ Added(u) /\ Added(u)' /\ UNCHANGED token
              /\ \E r \in EmailRequest : /\ ue[r].pc = "writeRow" /\ ue[r].id = u
                                         /\ user'[u].email = ue[r].new
<1> DEFINE Same == /\ Added(u) => Added(u)'
                   /\ user'[u].email = user[u].email
                   /\ u \in ActiveUsers' => u \in ActiveUsers
<1>t. user \in [UserId -> UserRow]
  BY DEF TypesInv, SignUpTypeOK, StoreTypeOK
<1>s. user'[u] = user[u] => Same
  BY DEF Added, ActiveUsers, Exists
<1>1. CASE UNCHANGED user
  BY <1>1, <1>s
<1>2. ASSUME NEW r \in SignUpRequest, AddUser(r)
      PROVE  Same \/ (~Added(u) /\ Added(u)' /\ u \notin ActiveUsers')
  <2>1. PICK v \in UserId : user[v].row = "never" /\ user' = UserAdded(v, su[r].email)
    BY <1>2 DEF AddUser
  <2>2. CASE v = u
    BY <1>t, <2>1, <2>2 DEF UserAdded, Added, ActiveUsers
  <2>3. CASE v # u
    BY <1>t, <1>s, <2>1, <2>3 DEF UserAdded
  <2> QED BY <2>2, <2>3
<1>3. ASSUME NEW r \in SignUpRequest, Activate(r)
      PROVE  \/ Same
             \/ /\ Added(u) => Added(u)'
                /\ user'[u].email = user[u].email /\ UNCHANGED token
                /\ su[r].pc = "activate" /\ su[r].user = u
  <2>1. /\ su[r].pc = "activate" /\ UNCHANGED token
        /\ user' = [user EXCEPT ![su[r].user].active = Exists(su[r].user)]
    BY <1>3 DEF Activate, At, ActiveUpdated, redis
  <2>2. CASE su[r].user = u
    BY <1>t, <2>1, <2>2 DEF Added, UserRow
  <2>3. CASE su[r].user # u
    BY <1>t, <1>s, <2>1, <2>3
  <2> QED BY <2>2, <2>3, <2>1
<1>4. ASSUME NEW r \in EmailRequest, WriteRow(r)
      PROVE  \/ Same
             \/ /\ Added(u) /\ Added(u)' /\ UNCHANGED token
                /\ ue[r].pc = "writeRow" /\ ue[r].id = u /\ user'[u].email = ue[r].new
  <2>1. /\ ue[r].pc = "writeRow" /\ UNCHANGED token
        /\ user' = [user EXCEPT ![ue[r].id] =
                      IF Exists(ue[r].id)
                      THEN [row |-> "live", email |-> ue[r].new, active |-> ue[r].active]
                      ELSE @]
    BY <1>4 DEF WriteRow, EmailAt, redis
  <2>2. CASE ue[r].id = u /\ Exists(u)
    BY <1>t, <2>1, <2>2 DEF Added, Exists
  <2>3. CASE ~(ue[r].id = u /\ Exists(u))
    BY <1>t, <1>s, <2>1, <2>3
  <2> QED BY <2>1, <2>2, <2>3
<1>5. ASSUME NEW r \in DeleteRequest, Archive(r) \/ Purge(r) PROVE Same
  <2>1. dl[r].user \in UserId
    BY <1>5 DEF Archive, Purge, DeleteAt, TypesInv, DeleteTypeOK
  <2>2. CASE dl[r].user # u
    BY <1>5, <1>t, <1>s, <2>2 DEF Archive, Purge
  <2>3. CASE dl[r].user = u
    <3>1. CASE Archive(r)
      BY <1>t, <2>3, <3>1 DEF Archive, UserRow, Added, ActiveUsers, Exists
    <3>2. CASE Purge(r) /\ IsReferenced(u)
      BY <1>t, <2>3, <3>2 DEF Purge, UserRow, Added, ActiveUsers, Exists
    <3>3. CASE Purge(r) /\ ~IsReferenced(u)
      BY <1>t, <2>3, <3>3 DEF Purge, UserRow, Added, ActiveUsers, Exists
    <3> QED BY <1>5, <3>1, <3>2, <3>3
  <2> QED BY <2>2, <2>3
<1> QED BY <1>1, <1>2, <1>3, <1>4, <1>5, UserWrites

(* What a step does to one token: it says the same, or was just drawn.         *)
LEMMA TokenAfter ==
    ASSUME TypesInv, [AccountsNext]_accountsVars, NEW t \in Token
    PROVE  \/ SaysTheSame(t)
           \/ /\ token[t].kind = "none"
              /\ \/ /\ token'[t].kind = "confirm"
                    /\ \E r \in SignUpRequest : /\ su[r].pc = "saveToken"
                                                /\ token'[t].user = su[r].user
                                                /\ token'[t].email = su[r].email
                 \/ /\ token'[t].kind = "email"
                    /\ \E r \in EmailRequest : /\ ue[r].pc = "saveToken"
                                               /\ token'[t].user = ue[r].id
                 \/ /\ token'[t].kind = "forgot"
                    /\ \E r \in ForgotRequest : /\ fp[r].pc = "saveToken"
                                                /\ token'[t].user = fp[r].user
<1>s. StoreTypeOK /\ SignUpTypeOK
  BY DEF TypesInv, SignUpTypeOK
<1>u. token' = token => SaysTheSame(t)
  BY DEF SaysTheSame
<1>d. ASSUME NEW x \in FreshTokens, NEW k \in {"confirm", "forgot", "email"}, NEW u \in UserId,
             NEW e \in Email, token' = TokenStored(x, k, u, e)
      PROVE  \/ SaysTheSame(t)
             \/ /\ token[t].kind = "none"
                /\ token'[t].kind = k /\ token'[t].user = u /\ token'[t].email = e
  BY <1>s, <1>d, TokenDrawn DEF SaysTheSame
<1>1. CASE [SignUpNext]_signUpVars
  BY <1>1, <1>s, TokenWrites DEF SaysTheSame
<1>2. ASSUME NEW r \in LogInRequest, LogsIn(r) PROVE UNCHANGED token
  BY <1>2 DEF LogsIn, LogInArrives, LogInStep, LogInAbort, Authenticate, LogOut, RetrieveLogin,
     RetrieveOwner, InitSession, CloseSession, store, redis
<1>3. ASSUME NEW r \in EmailRequest, Changes(r)
      PROVE  \/ SaysTheSame(t)
             \/ /\ token[t].kind = "none" /\ token'[t].kind = "email"
                /\ ue[r].pc = "saveToken" /\ token'[t].user = ue[r].id
  <2>h. EmailReady(ue[r])
    BY DEF TypesInv, EmailTypes
  <2>1. CASE SaveEmailToken(r)
    <3>1. ue[r].pc = "saveToken" /\ ue[r].id \in UserId /\ ue[r].new \in Email
      BY <2>1, <2>h DEF SaveEmailToken, EmailAt, EmailReady
    <3> QED BY <2>1, <3>1, <1>d DEF SaveEmailToken
  <2>2. CASE ExpireEmailToken(r) \/ SendEmailMail(r) \/ DeleteEmailToken(r)
    <3>1. ue[r].token \in Token
      BY <2>2, <2>h DEF ExpireEmailToken, SendEmailMail, DeleteEmailToken, EmailAt, EmailReady,
         ChangeLabels
    <3> QED BY <2>2, <3>1, <1>s, FlagSet DEF ExpireEmailToken, SendEmailMail, DeleteEmailToken
  <2>3. CASE UNCHANGED token
    BY <2>3, <1>u
  <2> QED BY <1>3, <2>1, <2>2, <2>3
    DEF Changes, EmailArrives, EmailStep, EmailAbort, UpdateEmailRequest, ChangeEmail,
        RetrieveActor, RetrieveToken, CheckEmailIsFree, EmailFindUser, ReadRow, WriteRow, ReadLogin, WriteLogin,
        ReadPassword, MovePassword, RemovePassword, store, redis
<1>4. ASSUME NEW r \in ForgotRequest, Forgets(r)
      PROVE  \/ SaysTheSame(t)
             \/ /\ token[t].kind = "none" /\ token'[t].kind = "forgot"
                /\ fp[r].pc = "saveToken" /\ token'[t].user = fp[r].user
  <2>h. ForgotReady(fp[r])
    BY DEF TypesInv, ForgotTypes
  <2>1. CASE SaveForgotToken(r)
    <3>1. fp[r].pc = "saveToken" /\ fp[r].user \in UserId /\ fp[r].email \in Email
      BY <2>1, <2>h DEF SaveForgotToken, ForgotAt, ForgotReady
    <3> QED BY <2>1, <3>1, <1>d DEF SaveForgotToken
  <2>2. CASE ExpireForgotToken(r) \/ SendForgotMail(r) \/ DropToken(r)
    <3>1. fp[r].token \in Token
      BY <2>2, <2>h DEF ExpireForgotToken, SendForgotMail, DropToken, ForgotAt, ForgotReady
    <3> QED BY <2>2, <3>1, <1>s, FlagSet DEF ExpireForgotToken, SendForgotMail, DropToken
  <2>3. CASE UNCHANGED token
    BY <2>3, <1>u
  <2> QED BY <1>4, <2>1, <2>2, <2>3
    DEF Forgets, ForgotArrives, ForgotStep, ForgotAbort, AskNewPassword, ChangePassword,
        ForgotFindUser, SetPassword, store
<1>5. ASSUME NEW r \in DeleteRequest, Deletes(r) PROVE UNCHANGED token
  BY <1>5 DEF Deletes, DeleteArrives, DeleteStep, DeleteAbort, Delete, Archive, DeleteLogins, Purge,
     store, redis
<1>6. ASSUME NEW e \in Email, SessionExpires(e) PROVE UNCHANGED token
  BY <1>6 DEF SessionExpires
<1> QED BY <1>u, <1>1, <1>2, <1>3, <1>4, <1>5, <1>6, Flows

(* What brings the handler of a change of address where it is.                 *)
LEMMA EmailAfter ==
    ASSUME TypesInv, [AccountsNext]_accountsVars, NEW q \in EmailRequest
    PROVE  \/ ue'[q] = ue[q]
           \/ ue'[q].pc = "idle" /\ ue'[q].op = "none"
           \/ /\ ue'[q].pc = "retrieveUser"
              /\ ue'[q].op = "request" \/ (ue'[q].op = "change" /\ TokenKnown(ue'[q].token, "email"))
           \/ /\ ue[q].pc = "retrieveUser" /\ ue'[q].op = ue[q].op /\ ue'[q].token = ue[q].token
              /\ ue'[q].pc = IF ue[q].op = "request" THEN "checkFree" ELSE "retrieveToken"
           \/ /\ ue[q].pc = "retrieveToken" /\ ue'[q].pc = "checkFree"
              /\ ue'[q].op = ue[q].op /\ ue'[q].id = ue[q].id /\ ue'[q].token = ue[q].token
              /\ ue'[q].new = token[ue[q].token].email /\ token[ue[q].token].user = ue[q].id
           \/ /\ ue[q].pc = "saveToken" /\ ue'[q].pc = "expireToken"
              /\ ue'[q].op = ue[q].op
           \/ /\ ue[q].pc \notin {"idle", "retrieveUser", "retrieveToken", "saveToken"}
              /\ ue'[q].pc \notin {"idle", "retrieveUser", "retrieveToken"}
              /\ ue'[q].op = ue[q].op /\ ue'[q].id = ue[q].id /\ ue'[q].old = ue[q].old
              /\ ue'[q].new = ue[q].new /\ ue'[q].token = ue[q].token
              /\ ue'[q].pc = "saveToken" => FindById(ue[q].id)
              /\ ue'[q].pc = "writeLogin" => ReadLogin(q)
<1>t. ue \in [EmailRequest -> EmailHandler]
  BY DEF TypesInv, EmailTypes
<1>1. CASE UNCHANGED ue
  BY <1>1
<1>2. ASSUME NEW r \in EmailRequest, Changes(r), r # q PROVE ue'[q] = ue[q]
  BY <1>2, <1>t
  DEF Changes, EmailArrives, EmailStep, EmailAbort, UpdateEmailRequest, ChangeEmail,
      RetrieveActor, RetrieveToken, CheckEmailIsFree, EmailFindUser, SaveEmailToken, ExpireEmailToken, SendEmailMail, ReadRow,
      WriteRow, ReadLogin, WriteLogin, ReadPassword, MovePassword, RemovePassword,
      DeleteEmailToken, EmailGoto, EmailAnswer
<1>3. UNCHANGED ue \/ \E r \in EmailRequest : Changes(r)
  BY Flows DEF OnlySignUp, OnlyLogIn, OnlyForgot, OnlyDelete
<1>4. CASE Changes(q)
  <2>a. EmailAnswer(q) => ue'[q].pc = "idle" /\ ue'[q].op = "none"
    BY <1>t DEF EmailAnswer, EmailIdle
  <2>g. ASSUME NEW l, EmailGoto(q, l)
        PROVE  /\ ue'[q].pc = l
               /\ ue'[q].op = ue[q].op /\ ue'[q].id = ue[q].id /\ ue'[q].old = ue[q].old
               /\ ue'[q].new = ue[q].new /\ ue'[q].token = ue[q].token
    BY <2>g, <1>t DEF EmailGoto, EmailHandler
  <2>1. ASSUME NEW e \in Email, NEW i \in UserId, NEW n \in Email, UpdateEmailRequest(q, e, i, n)
        PROVE  ue'[q].pc = "retrieveUser" /\ ue'[q].op = "request"
    BY <2>1, <1>t DEF UpdateEmailRequest, EmailIdle
  <2>2. ASSUME NEW e \in Email, NEW i \in UserId, NEW t \in Token, ChangeEmail(q, e, i, t)
        PROVE  /\ ue'[q].pc = "retrieveUser" /\ ue'[q].op = "change"
               /\ TokenKnown(ue'[q].token, "email")
    BY <2>2, <1>t DEF ChangeEmail, EmailIdle
  <2>3. CASE RetrieveToken(q)
    <3> DEFINE t == ue[q].token
    <3>1. ue[q].pc = "retrieveToken"
      BY <2>3 DEF RetrieveToken, EmailAt
    <3>2. \/ EmailAnswer(q)
          \/ /\ token[t].user = ue[q].id
             /\ ue' = [ue EXCEPT ![q].pc = "checkFree", ![q].new = token[t].email]
      BY <2>3 DEF RetrieveToken
    <3>3. ASSUME ue' = [ue EXCEPT ![q].pc = "checkFree", ![q].new = token[t].email]
          PROVE  /\ ue'[q].pc = "checkFree" /\ ue'[q].op = ue[q].op /\ ue'[q].id = ue[q].id
                 /\ ue'[q].token = t /\ ue'[q].new = token[t].email
      BY <3>3, <1>t DEF EmailHandler
    <3> QED BY <3>1, <3>2, <3>3, <2>a
  <2>4. CASE SaveEmailToken(q)
    BY <2>4, <1>t DEF SaveEmailToken, EmailAt, EmailHandler
  <2>5. CASE ReadRow(q)
    BY <2>5, <2>a, <1>t DEF ReadRow, EmailAt, EmailHandler
  <2>6. CASE ReadLogin(q)
    BY <2>6, <2>a, <1>t DEF ReadLogin, EmailAt, EmailHandler
  <2>7. CASE ReadPassword(q)
    BY <2>7, <2>a, <1>t DEF ReadPassword, EmailAt, EmailHandler
  <2>8. CASE EmailAbort(q)
    BY <2>8, <2>a DEF EmailAbort
  <2>9. CASE EmailFindUser(q)
    BY <2>9, <2>a, <2>g DEF EmailFindUser, EmailAt
  <2>10. CASE CheckEmailIsFree(q) \/ ExpireEmailToken(q) \/ SendEmailMail(q) \/ WriteRow(q)
    BY <2>10, <2>a, <2>g DEF CheckEmailIsFree, ExpireEmailToken, SendEmailMail, WriteRow, EmailAt
  <2>11. CASE WriteLogin(q) \/ MovePassword(q) \/ RemovePassword(q) \/ DeleteEmailToken(q)
    BY <2>11, <2>a, <2>g DEF WriteLogin, MovePassword, RemovePassword, DeleteEmailToken, EmailAt
  <2>12. CASE RetrieveActor(q)
    BY <2>12, <2>a, <1>t DEF RetrieveActor, EmailAt, EmailHandler
  <2> QED BY <1>4, <2>1, <2>2, <2>3, <2>4, <2>5, <2>6, <2>7, <2>8, <2>9, <2>10, <2>11, <2>12
          DEF Changes, EmailArrives, EmailStep
<1> QED BY <1>1, <1>2, <1>3, <1>4

LEMMA AddedStep == TypesInv /\ AddedInv /\ [AccountsNext]_accountsVars => AddedInv'
<1> SUFFICES ASSUME TypesInv, AddedInv, [AccountsNext]_accountsVars PROVE AddedInv'
  OBVIOUS
<1>t. /\ SignUpTypeOK /\ StoreTypeOK
      /\ \A r \in SignUpRequest : Ready(su[r])
      /\ \A r \in EmailRequest : EmailReady(ue[r])
      /\ \A r \in ForgotRequest : ForgotReady(fp[r])
  BY DEF TypesInv, SignUpTypeOK, EmailTypes, ForgotTypes
<1>a. ASSUME NEW u \in UserId, Added(u) PROVE user'[u].row # "never"
  BY <1>a, RowAfter DEF Added
<1>1. ASSUME NEW t \in Token, token'[t].kind # "none" PROVE user'[token'[t].user].row # "never"
  <2>1. \E u \in UserId : Added(u) /\ token'[t].user = u
    <3>1. CASE SaysTheSame(t)
      BY <1>1, <1>t, <3>1 DEF SaysTheSame, AddedInv, StoreTypeOK
    <3>2. CASE \E r \in SignUpRequest : su[r].pc = "saveToken" /\ token'[t].user = su[r].user
      BY <1>t, <3>2 DEF AddedInv, Ready, UserLabels
    <3>3. CASE \E r \in EmailRequest : ue[r].pc = "saveToken" /\ token'[t].user = ue[r].id
      BY <1>t, <3>3 DEF AddedInv, EmailReady
    <3>4. CASE \E r \in ForgotRequest : fp[r].pc = "saveToken" /\ token'[t].user = fp[r].user
      BY <1>t, <3>4 DEF AddedInv, ForgotReady
    <3> QED BY <3>1, <3>2, <3>3, <3>4, TokenAfter
  <2> QED BY <2>1, <1>a
<1>2. ASSUME NEW q \in SignUpRequest, su'[q].pc = "saveToken" PROVE user'[su'[q].user].row # "never"
  <2>1. \E u \in UserId : Added(u) /\ su'[q].user = u
    <3>1. CASE su'[q] = su[q]
      BY <1>2, <1>t, <3>1 DEF AddedInv, Ready, UserLabels
    <3>2. CASE su'[q].user \in FindByEmail(su'[q].email)
      BY <3>2 DEF FindByEmail, IsLive, Added
    <3> QED BY <1>2, <1>t, <3>1, <3>2, EntersSaveToken, Flows
            DEF OnlyLogIn, OnlyEmail, OnlyForgot, OnlyDelete
  <2> QED BY <2>1, <1>a
<1>3. ASSUME NEW q \in EmailRequest, ue'[q].pc = "saveToken" PROVE user'[ue'[q].id].row # "never"
  <2>1. \E u \in UserId : Added(u) /\ ue'[q].id = u
    <3>1. CASE ue'[q] = ue[q]
      BY <1>3, <1>t, <3>1 DEF AddedInv, EmailReady
    <3>2. CASE FindById(ue[q].id) /\ ue'[q].id = ue[q].id /\ ue[q].pc # "idle"
      BY <1>t, <3>2 DEF FindById, IsLive, Added, EmailReady
    <3> QED BY <1>3, <3>1, <3>2, EmailAfter
  <2> QED BY <2>1, <1>a
<1>4. ASSUME NEW q \in ForgotRequest, fp'[q].pc = "saveToken" PROVE user'[fp'[q].user].row # "never"
  <2>f. fp \in [ForgotRequest -> ForgotHandler]
    BY DEF TypesInv, ForgotTypes
  <2>1. \E u \in UserId : Added(u) /\ fp'[q].user = u
    <3>1. CASE fp'[q] = fp[q]
      BY <1>4, <1>t, <3>1 DEF AddedInv, ForgotReady
    <3>2. ASSUME NEW r \in ForgotRequest, NEW e \in Email, AskNewPassword(r, e), fp'[q] # fp[q]
          PROVE  \E u \in UserId : Added(u) /\ fp'[q].user = u
      BY <2>f, <3>2 DEF AskNewPassword, ForgotIdle, FindByEmail, IsLive, Added
    <3>3. ASSUME NEW r \in ForgotRequest, NEW t \in Token, NEW p \in Password, ChangePassword(r, t, p)
          PROVE  fp'[q] = fp[q]
      BY <1>4, <2>f, <3>3 DEF ChangePassword, ForgotIdle
    <3>4. ASSUME NEW r \in ForgotRequest, ForgotStep(r) \/ ForgotAbort(r) PROVE fp'[q] = fp[q]
      BY <1>4, <2>f, <3>4
      DEF ForgotStep, ForgotAbort, SaveForgotToken, ExpireForgotToken, SendForgotMail,
          ForgotFindUser, SetPassword, DropToken, ForgotGoto, ForgotAnswer, ForgotIdle,
          ForgotHandler
    <3>5. UNCHANGED fp \/ \E r \in ForgotRequest : Forgets(r)
      BY Flows DEF OnlySignUp, OnlyLogIn, OnlyEmail, OnlyDelete
    <3> QED BY <3>1, <3>2, <3>3, <3>4, <3>5 DEF Forgets, ForgotArrives
  <2> QED BY <2>1, <1>a
<1> QED BY <1>1, <1>2, <1>3, <1>4 DEF AddedInv, Added

(* Moved, of the state after the step.                                         *)
MovedNext(u) == \E t \in Token : /\ token'[t].sent /\ token'[t].kind = "email"
                                 /\ token'[t].user = u /\ token'[t].email = user'[u].email

LEMMA MailedStep ==
    TypesInv /\ AddedInv /\ MailedInv /\ [AccountsNext]_accountsVars => MailedInv'
<1> SUFFICES ASSUME TypesInv, AddedInv, MailedInv, [AccountsNext]_accountsVars PROVE MailedInv'
  OBVIOUS
<1>t. /\ SignUpTypeOK /\ StoreTypeOK
      /\ \A r \in SignUpRequest : Ready(su[r])
      /\ \A r \in EmailRequest : EmailReady(ue[r])
  BY DEF TypesInv, SignUpTypeOK, EmailTypes
<1>s. ASSUME NEW t \in Token, token[t].kind # "none" PROVE SaysTheSame(t)
  BY <1>s, TokenAfter
(* Whoever is moved by a step was sent a token to where it is moved.           *)
<1>w. ASSUME NEW r \in EmailRequest, ue[r].pc = "writeRow", UNCHANGED token,
             user'[ue[r].id].email = ue[r].new
      PROVE  MovedNext(ue[r].id)
  <2>1. ue[r].op = "change" /\ ue[r].token \in Token
    BY <1>t, <1>w DEF EmailReady, ChangeLabels
  <2> QED BY <1>w, <2>1 DEF MailedInv, ChangeMailed, MovedNext
<1>m. ASSUME NEW u \in UserId, NEW e, Added(u), user[u].email = e \/ Moved(u)
      PROVE  user'[u].email = e \/ MovedNext(u)
  <2>1. CASE user'[u].email = user[u].email
    BY <1>m, <1>s, <2>1 DEF Moved, MovedNext, SaysTheSame
  <2>2. CASE user'[u].email # user[u].email
    BY <1>m, <1>w, <2>2, RowAfter
  <2> QED BY <2>1, <2>2
<1>1. ASSUME NEW t \in Token, token'[t].kind = "confirm"
      PROVE  user'[token'[t].user].email = token'[t].email \/ MovedNext(token'[t].user)
  <2>1. CASE SaysTheSame(t)
    <3>1. token[t].kind = "confirm" /\ token[t].user \in UserId
      BY <1>1, <1>t, <2>1 DEF SaysTheSame, StoreTypeOK
    <3>2. /\ Added(token[t].user)
          /\ user[token[t].user].email = token[t].email \/ Moved(token[t].user)
      BY <3>1 DEF AddedInv, MailedInv
    <3> QED BY <2>1, <3>1, <3>2, <1>m DEF SaysTheSame
  <2>2. ASSUME NEW r \in SignUpRequest, su[r].pc = "saveToken",
               token'[t].user = su[r].user, token'[t].email = su[r].email
        PROVE  user'[token'[t].user].email = token'[t].email \/ MovedNext(token'[t].user)
    <3>1. su[r].user \in UserId
      BY <1>t, <2>2 DEF Ready, UserLabels
    <3> QED BY <2>2, <3>1, <1>m DEF AddedInv, MailedInv
  <2> QED BY <1>1, <2>1, <2>2, TokenAfter
<1>2. ASSUME NEW q \in SignUpRequest, su'[q].pc = "saveToken"
      PROVE  user'[su'[q].user].email = su'[q].email \/ MovedNext(su'[q].user)
  <2>1. CASE su'[q] = su[q]
    <3>1. su[q].user \in UserId
      BY <1>2, <1>t, <2>1 DEF Ready, UserLabels
    <3> QED BY <1>2, <2>1, <3>1, <1>m DEF AddedInv, MailedInv
  <2>2. CASE su'[q].user \in FindByEmail(su'[q].email)
    BY <2>2, <1>m DEF FindByEmail, IsLive, Added
  <2> QED BY <1>2, <1>t, <2>1, <2>2, EntersSaveToken, Flows
          DEF OnlyLogIn, OnlyEmail, OnlyForgot, OnlyDelete
<1>3. ASSUME NEW q \in SignUpRequest, su'[q].pc = "activate"
      PROVE  LET t == su'[q].token
             IN  token'[t].kind = "confirm" /\ token'[t].sent /\ token'[t].user = su'[q].user
  <2>1. CASE su'[q] = su[q]
    <3>1. su[q].token \in Token
      BY <1>3, <1>t, <2>1 DEF Ready
    <3> QED BY <1>3, <2>1, <3>1, <1>s DEF MailedInv, SaysTheSame
  <2>2. ASSUME NEW t \in Token, su'[q].token = t, su'[q].user = token[t].user,
               token[t].kind = "confirm", token[t].sent
        PROVE  LET x == su'[q].token
               IN  token'[x].kind = "confirm" /\ token'[x].sent /\ token'[x].user = su'[q].user
    BY <2>2, <1>s DEF SaysTheSame
  <2> QED BY <1>3, <1>t, <2>1, <2>2, EntersActivate, Flows
          DEF OnlyLogIn, OnlyEmail, OnlyForgot, OnlyDelete
<1>4. ASSUME NEW q \in EmailRequest, ue'[q].op = "change" PROVE ChangeMailed(ue[q])'
  <2>h. ue'[q].token \in Token
    BY <1>4, TypesStep DEF TypesInv, EmailTypes, EmailReady
  <2>i. ue[q].op = "change" => ue[q].pc # "saveToken"
    BY <1>t DEF EmailReady
  <2>1. /\ token[ue'[q].token].kind = "email" /\ token[ue'[q].token].sent
        /\ ue'[q].pc \notin {"retrieveUser", "retrieveToken"} =>
             token[ue'[q].token].user = ue'[q].id /\ token[ue'[q].token].email = ue'[q].new
    BY <1>4, <2>i, EmailAfter DEF MailedInv, ChangeMailed, TokenKnown
  <2> QED BY <2>h, <2>1, <1>s DEF ChangeMailed, SaysTheSame
<1>5. ASSUME NEW u \in ActiveUsers'
      PROVE  \E t \in Token : /\ token'[t].sent
                              /\ token'[t].kind \in {"confirm", "email"}
                              /\ token'[t].user = u
                              /\ token'[t].email = user'[u].email
  <2>u. u \in UserId
    BY DEF ActiveUsers
  <2>1. CASE u \in ActiveUsers /\ user'[u].email = user[u].email
    <3>1. PICK t \in Token : /\ token[t].sent /\ token[t].kind \in {"confirm", "email"}
                             /\ token[t].user = u /\ token[t].email = user[u].email
      BY <2>1 DEF MailedInv, ActiveOnlyByMail
    <3> QED BY <2>1, <3>1, <1>s DEF SaysTheSame
  <2>2. ASSUME user'[u].email = user[u].email, UNCHANGED token,
               NEW r \in SignUpRequest, su[r].pc = "activate", su[r].user = u
        PROVE  \E t \in Token : /\ token'[t].sent
                                /\ token'[t].kind \in {"confirm", "email"}
                                /\ token'[t].user = u
                                /\ token'[t].email = user'[u].email
    <3> DEFINE t == su[r].token
    <3>1. t \in Token /\ token[t].kind = "confirm" /\ token[t].sent /\ token[t].user = u
      BY <1>t, <2>2 DEF Ready, MailedInv
    <3>2. user[u].email = token[t].email \/ Moved(u)
      BY <3>1 DEF MailedInv
    <3> QED BY <2>2, <3>1, <3>2 DEF Moved
  <2>3. ASSUME NEW r \in EmailRequest, ue[r].pc = "writeRow", ue[r].id = u, UNCHANGED token,
               user'[u].email = ue[r].new
        PROVE  \E t \in Token : /\ token'[t].sent
                                /\ token'[t].kind \in {"confirm", "email"}
                                /\ token'[t].user = u
                                /\ token'[t].email = user'[u].email
    BY <2>3, <1>w DEF MovedNext
  <2> QED BY <2>u, <2>1, <2>2, <2>3, RowAfter
<1>6. ActiveOnlyByMail'
  BY <1>5 DEF ActiveOnlyByMail
<1> QED BY <1>1, <1>2, <1>3, <1>4, <1>6 DEF MailedInv, ChangeMailed, Moved, MovedNext

(* An active user was named by a token mailed to the address its row now       *)
(* holds, however sign-ups, confirmations, changes of address and deletions    *)
(* overlap and wherever they are cut short.                                    *)
THEOREM AccountsActiveOnlyByMail == AccountsSpec => []ActiveOnlyByMail
<1>1. MailedInv => ActiveOnlyByMail
  BY DEF MailedInv
<1> QED BY <1>1, TypesInit, TypesStep, MailedInit, AddedStep, MailedStep, PTL DEF AccountsSpec
-----------------------------------------------------------------------------
(* One login info per user, while changes of address come one by one: a        *)
(* sign-up adds the first of a user it has just added, and a change of address *)
(* replaces the one it has read.                                               *)
LoginsInv ==
    /\ OneLoginPerUser
    /\ \A e \in Email : loginInfo[e] # Nil => Added(loginInfo[e])
    /\ \A r \in SignUpRequest : su[r].pc = "addLogin" =>
         Added(su[r].user) /\ \A e \in Email : loginInfo[e] # su[r].user
    /\ \A r, q \in SignUpRequest :
         su[r].pc = "addLogin" /\ su[q].pc = "addLogin" /\ su[r].user = su[q].user => r = q
    /\ \A r \in EmailRequest : ue[r].pc = "writeLogin" =>
         /\ Added(ue[r].login)
         /\ \A e \in Email : loginInfo[e] = ue[r].login => e = ue[r].old
         /\ \A q \in SignUpRequest : su[q].pc = "addLogin" => su[q].user # ue[r].login

LEMMA LoginsInit == AccountsInit => LoginsInv
BY DEF AccountsInit, SignUpInit, StoreInit, EmailInit, LoginsInv, OneLoginPerUser, Idle, EmailIdle

(* The statements that write login infos.                                      *)
LEMMA LoginsWritten ==
    ASSUME TypesInv, [AccountsNext]_accountsVars
    PROVE  \/ UNCHANGED loginInfo
           \/ \E r \in SignUpRequest :
                /\ su[r].pc = "addLogin" /\ AddLogin(r)
                /\ su[r].email \in Email /\ su[r].user \in UserId
                /\ loginInfo' = [loginInfo EXCEPT ![su[r].email] = su[r].user]
                /\ UNCHANGED <<user, ue>>
           \/ \E r \in EmailRequest :
                /\ ue[r].pc = "writeLogin" /\ WriteLogin(r)
                /\ loginInfo' = [loginInfo EXCEPT ![ue[r].old] = Nil, ![ue[r].new] = ue[r].login]
                /\ UNCHANGED <<user, su>>
           \/ /\ \A e \in Email : loginInfo'[e] \in {loginInfo[e], Nil}
              /\ UNCHANGED <<user, su, ue>>
<1>1. CASE [SignUpNext]_signUpVars /\ OnlySignUp
  BY <1>1, LoginWrites DEF TypesInv, OnlySignUp
<1>2. ASSUME NEW r \in LogInRequest, LogsIn(r) PROVE UNCHANGED loginInfo
  BY <1>2 DEF LogsIn, LogInArrives, LogInStep, LogInAbort, Authenticate, LogOut, RetrieveLogin,
     RetrieveOwner, InitSession, CloseSession, store, postgres
<1>3. ASSUME NEW r \in EmailRequest, Changes(r), OnlyEmail
      PROVE  \/ UNCHANGED loginInfo
             \/ /\ ue[r].pc = "writeLogin" /\ WriteLogin(r)
                /\ loginInfo' = [loginInfo EXCEPT ![ue[r].old] = Nil, ![ue[r].new] = ue[r].login]
                /\ UNCHANGED <<user, su>>
  <2>1. CASE WriteLogin(r)
    BY <1>3, <2>1 DEF WriteLogin, OnlyEmail, EmailAt
  <2>2. CASE ReadRow(r) \/ WriteRow(r) \/ ReadLogin(r) \/ ReadPassword(r) \/ MovePassword(r)
             \/ RemovePassword(r) \/ DeleteEmailToken(r)
    BY <2>2
    DEF ReadRow, WriteRow, ReadLogin, ReadPassword, MovePassword, RemovePassword,
        DeleteEmailToken, store, postgres
  <2>3. CASE RetrieveActor(r) \/ RetrieveToken(r) \/ CheckEmailIsFree(r) \/ EmailFindUser(r)
             \/ SaveEmailToken(r) \/ ExpireEmailToken(r) \/ SendEmailMail(r)
    BY <2>3
    DEF RetrieveActor, RetrieveToken, CheckEmailIsFree, EmailFindUser, SaveEmailToken, ExpireEmailToken,
        SendEmailMail, store, postgres
  <2>4. CASE EmailArrives(r) \/ EmailAbort(r)
    BY <2>4 DEF EmailArrives, UpdateEmailRequest, ChangeEmail, EmailAbort, store, postgres
  <2> QED BY <1>3, <2>1, <2>2, <2>3, <2>4 DEF Changes, EmailStep
<1>4. ASSUME NEW r \in ForgotRequest, Forgets(r) PROVE UNCHANGED loginInfo
  <2>1. CASE ForgotStep(r)
    BY <2>1
    DEF ForgotStep, SaveForgotToken, ExpireForgotToken, SendForgotMail, ForgotFindUser,
        SetPassword, DropToken, store, postgres
  <2>2. CASE ForgotArrives(r) \/ ForgotAbort(r)
    BY <2>2 DEF ForgotArrives, ForgotAbort, AskNewPassword, ChangePassword, store, postgres
  <2> QED BY <1>4, <2>1, <2>2 DEF Forgets
<1>5. ASSUME NEW r \in DeleteRequest, Deletes(r), OnlyDelete
      PROVE  \/ UNCHANGED loginInfo
             \/ /\ \A e \in Email : loginInfo'[e] \in {loginInfo[e], Nil}
                /\ UNCHANGED <<user, su, ue>>
  BY <1>5 DEF Deletes, DeleteArrives, DeleteStep, DeleteAbort, Delete, Archive, DeleteLogins, Purge,
     store, postgres, redis, OnlyDelete
<1>6. ASSUME NEW e \in Email, SessionExpires(e) PROVE UNCHANGED loginInfo
  BY <1>6 DEF SessionExpires, postgres
<1> QED BY <1>1, <1>2, <1>3, <1>4, <1>5, <1>6, Flows

(* A sign-up that comes to the insertion of a login info has just added its    *)
(* user.                                                                       *)
LEMMA SignUpAdds ==
    ASSUME TypesInv, [AccountsNext]_accountsVars,
           NEW q \in SignUpRequest, su'[q].pc = "addLogin", su'[q] # su[q]
    PROVE  /\ su'[q].user \in UserId /\ ~Added(su'[q].user)
           /\ user'[su'[q].user].row # "never"
           /\ \A r \in SignUpRequest : r # q => su'[r] = su[r]
           /\ UNCHANGED loginInfo
<1>1. [SignUpNext]_signUpVars
  BY Flows DEF OnlyLogIn, OnlyEmail, OnlyForgot, OnlyDelete
<1>2. PICK u \in UserId : /\ user[u].row = "never" /\ user' = UserAdded(u, su[q].email)
                          /\ su'[q].user = u /\ AddUser(q)
  BY <1>1, EntersAddLogin DEF TypesInv
<1>3. \A r \in SignUpRequest : r # q => su'[r] = su[r]
  BY <1>2 DEF AddUser, TypesInv, SignUpTypeOK
<1>4. user'[u].row # "never"
  BY <1>2 DEF UserAdded, TypesInv, SignUpTypeOK, StoreTypeOK
<1> QED BY <1>2, <1>3, <1>4 DEF AddUser, Added

LEMMA LoginsStep ==
    ASSUME \A q, r \in EmailRequest : q = r
    PROVE  TypesInv /\ LoginsInv /\ [AccountsNext]_accountsVars => LoginsInv'
<1> SUFFICES ASSUME TypesInv, LoginsInv, [AccountsNext]_accountsVars PROVE LoginsInv'
  OBVIOUS
<1>t. /\ loginInfo \in [Email -> UserId \cup {Nil}] /\ Nil \notin UserId
      /\ su \in [SignUpRequest -> Handler]
      /\ ue \in [EmailRequest -> EmailHandler]
      /\ \A r \in SignUpRequest : su[r].pc = "addLogin" => su[r].user \in UserId
      /\ \A r \in EmailRequest : ue[r].pc = "writeLogin" =>
           ue[r].login \in UserId /\ ue[r].old \in Email /\ ue[r].new \in Email
  BY NilAssumption DEF TypesInv, SignUpTypeOK, StoreTypeOK, EmailTypes, EmailReady, Ready, UserLabels
<1>a. ASSUME NEW u \in UserId, Added(u) PROVE user'[u].row # "never"
  BY <1>a, RowAfter DEF Added
<1>i. /\ \A e, f \in Email : loginInfo[e] # Nil /\ loginInfo[e] = loginInfo[f] => e = f
      /\ \A e \in Email : loginInfo[e] # Nil => Added(loginInfo[e])
      /\ \A r \in SignUpRequest : su[r].pc = "addLogin" =>
           Added(su[r].user) /\ \A e \in Email : loginInfo[e] # su[r].user
      /\ \A r, q \in SignUpRequest :
           su[r].pc = "addLogin" /\ su[q].pc = "addLogin" /\ su[r].user = su[q].user => r = q
      /\ \A r \in EmailRequest : ue[r].pc = "writeLogin" =>
           /\ Added(ue[r].login)
           /\ \A e \in Email : loginInfo[e] = ue[r].login => e = ue[r].old
           /\ \A q \in SignUpRequest : su[q].pc = "addLogin" => su[q].user # ue[r].login
  BY DEF LoginsInv, OneLoginPerUser
<1> DEFINE One == \A e, f \in Email : loginInfo'[e] # Nil /\ loginInfo'[e] = loginInfo'[f] => e = f
           Rows == \A e \in Email : loginInfo'[e] # Nil => user'[loginInfo'[e]].row # "never"
           Adds == \A r \in SignUpRequest : su'[r].pc = "addLogin" =>
                     /\ user'[su'[r].user].row # "never"
                     /\ \A e \in Email : loginInfo'[e] # su'[r].user
           Apart == \A r, q \in SignUpRequest :
                      /\ su'[r].pc = "addLogin" /\ su'[q].pc = "addLogin"
                      /\ su'[r].user = su'[q].user
                      => r = q
           Moves == \A r \in EmailRequest : ue'[r].pc = "writeLogin" =>
                      /\ user'[ue'[r].login].row # "never"
                      /\ \A e \in Email : loginInfo'[e] = ue'[r].login => e = ue'[r].old
                      /\ \A q \in SignUpRequest : su'[q].pc = "addLogin" => su'[q].user # ue'[r].login
<1> SUFFICES One /\ Rows /\ Adds /\ Apart /\ Moves
  BY DEF LoginsInv, OneLoginPerUser, Added
<1>1. CASE UNCHANGED loginInfo
  <2>1. One /\ Rows
    BY <1>1, <1>i, <1>a, <1>t
  <2>2. ASSUME NEW r \in SignUpRequest, su'[r].pc = "addLogin"
        PROVE  /\ user'[su'[r].user].row # "never"
               /\ \A e \in Email : loginInfo'[e] # su'[r].user
    <3>1. CASE su'[r] = su[r]
      BY <1>1, <1>i, <1>a, <1>t, <2>2, <3>1
    <3>2. CASE su'[r] # su[r]
      BY <1>1, <1>i, <1>t, <2>2, <3>2, SignUpAdds
    <3> QED BY <3>1, <3>2
  <2>3. Apart
    BY <1>i, SignUpAdds
  <2>4. ASSUME NEW r \in EmailRequest, ue'[r].pc = "writeLogin"
        PROVE  /\ user'[ue'[r].login].row # "never"
               /\ \A e \in Email : loginInfo'[e] = ue'[r].login => e = ue'[r].old
               /\ \A q \in SignUpRequest : su'[q].pc = "addLogin" => su'[q].user # ue'[r].login
    <3>1. /\ ue'[r].login \in UserId /\ Added(ue'[r].login)
          /\ \A e \in Email : loginInfo[e] = ue'[r].login => e = ue'[r].old
          /\ \A q \in SignUpRequest : su[q].pc = "addLogin" => su[q].user # ue'[r].login
      <4>1. CASE ue'[r] = ue[r]
        BY <1>i, <1>t, <2>4, <4>1
      <4>2. CASE ReadLogin(r)
        <5>1. /\ loginInfo[ue[r].old] # Nil /\ ue[r].old \in Email
              /\ ue'[r].old = ue[r].old /\ ue'[r].login = loginInfo[ue[r].old]
          BY <1>t, <2>4, <4>2 DEF ReadLogin, EmailAt, EmailAnswer, EmailIdle, EmailHandler,
             TypesInv, EmailTypes, EmailReady
        <5> QED BY <1>i, <1>t, <5>1
      <4> QED BY <2>4, <4>1, <4>2, EmailAfter
    <3>2. ASSUME NEW q \in SignUpRequest, su'[q].pc = "addLogin" PROVE su'[q].user # ue'[r].login
      BY <3>1, <3>2, SignUpAdds
    <3> QED BY <1>1, <1>a, <3>1, <3>2
  <2> QED BY <2>1, <2>2, <2>3, <2>4
<1>2. ASSUME NEW r \in SignUpRequest, su[r].pc = "addLogin", AddLogin(r),
             su[r].email \in Email, su[r].user \in UserId,
             loginInfo' = [loginInfo EXCEPT ![su[r].email] = su[r].user], UNCHANGED <<user, ue>>
      PROVE  One /\ Rows /\ Adds /\ Apart /\ Moves
  <2>1. /\ \A q \in SignUpRequest : q # r => su'[q] = su[q]
        /\ su'[r].pc # "addLogin"
    BY <1>2, <1>t DEF AddLogin, Goto, Answer, Handler, Idle
  <2>2. \A e \in Email : loginInfo'[e] = IF e = su[r].email THEN su[r].user ELSE loginInfo[e]
    BY <1>2, <1>t
  <2>3. One
    BY <1>i, <1>2, <2>2
  <2>4. Rows
    BY <1>i, <1>2, <2>2 DEF Added
  <2>5. Adds /\ Apart
    BY <1>i, <1>2, <2>1, <2>2 DEF Added
  <2>6. Moves
    BY <1>i, <1>2, <2>1, <2>2 DEF Added
  <2> QED BY <2>3, <2>4, <2>5, <2>6
<1>3. ASSUME NEW r \in EmailRequest, ue[r].pc = "writeLogin", WriteLogin(r), UNCHANGED <<user, su>>,
             loginInfo' = [loginInfo EXCEPT ![ue[r].old] = Nil, ![ue[r].new] = ue[r].login]
      PROVE  One /\ Rows /\ Adds /\ Apart /\ Moves
  <2>1. ue'[r].pc # "writeLogin"
    BY <1>3, <1>t DEF WriteLogin, EmailGoto, EmailAnswer, EmailHandler, EmailIdle
  <2>2. \A e \in Email : loginInfo'[e] = IF e = ue[r].new THEN ue[r].login
                                         ELSE IF e = ue[r].old THEN Nil ELSE loginInfo[e]
    BY <1>3, <1>t
  <2>3. One /\ Rows
    BY <1>i, <1>t, <1>3, <2>2 DEF Added
  <2>4. Adds /\ Apart
    BY <1>i, <1>t, <1>3, <2>2 DEF Added
  <2> QED BY <2>1, <2>3, <2>4
<1>4. CASE (\A e \in Email : loginInfo'[e] \in {loginInfo[e], Nil}) /\ UNCHANGED <<user, su, ue>>
  <2>1. One /\ Rows
    BY <1>i, <1>4 DEF Added
  <2>2. Adds /\ Apart
    BY <1>i, <1>t, <1>4 DEF Added
  <2>3. Moves
    BY <1>i, <1>t, <1>4 DEF Added
  <2> QED BY <2>1, <2>2, <2>3
<1> QED BY <1>1, <1>2, <1>3, <1>4, LoginsWritten

(* No user has two login infos while changes of address are served one at a    *)
(* time, whatever sign-ups and deletions run beside them and wherever a flow   *)
(* is cut short.                                                               *)
THEOREM LoginsStaySingle ==
    ASSUME \A q, r \in EmailRequest : q = r
    PROVE  AccountsSpec => []OneLoginPerUser
<1>1. TypesInv /\ LoginsInv /\ [AccountsNext]_accountsVars => LoginsInv'
  BY LoginsStep
<1>2. LoginsInv => OneLoginPerUser
  BY DEF LoginsInv
<1> QED BY <1>1, <1>2, TypesInit, TypesStep, LoginsInit, PTL DEF AccountsSpec
-----------------------------------------------------------------------------
(* One request at a time, no failure, no deletion and no administrator. Whom   *)
(* it serves, a request leaves as usable as it found it; everybody else is not *)
(* touched: all accounts but those of X open, and every login info but those   *)
(* of X is that of a user with its address.                                    *)
Opens(u) == /\ user[u].email \in Email
            /\ loginInfo[user[u].email] = u
            /\ passwordInfo[user[u].email] # Nil

Settled(X) ==
    /\ \A u \in UserId : user[u].row \in {"never", "live"}
    /\ \A u \in UserId \ X : IsLive(u) => Opens(u)
    /\ \A e \in Email : loginInfo[e] # Nil /\ loginInfo[e] \notin X =>
         IsLive(loginInfo[e]) /\ user[loginInfo[e]].email = e

(* No password but the one of a request that is about to remove it.            *)
NoPasswordBut(E) == \A e \in Email \ E : passwordInfo[e] # Nil => loginInfo[e] # Nil

AllSettled == Settled({}) /\ NoPasswordBut({})

(* What is missing of an account: u has a row with the address e, and the      *)
(* login infos of u are those of L.                                            *)
HasRow(u, e)   == IsLive(u) /\ user[u].email = e
LoginsOf(u, L) == \A e \in Email : loginInfo[e] = u <=> e \in L

IsFree(e) == AllSettled /\ FindByEmail(e) = {}

(* A sign-up wrote the row, and then the login info.                           *)
RowWritten(u, e) ==
    /\ Settled({u}) /\ NoPasswordBut({})
    /\ HasRow(u, e) /\ LoginsOf(u, {}) /\ loginInfo[e] = Nil

LoginWritten(u, e) ==
    /\ Settled({u}) /\ NoPasswordBut({})
    /\ HasRow(u, e) /\ LoginsOf(u, {e})

(* A change of address from o to n moved the row, the login info and the       *)
(* password.                                                                   *)
RowMoved(u, o, n) ==
    /\ Settled({u}) /\ NoPasswordBut({})
    /\ HasRow(u, n) /\ LoginsOf(u, {o}) /\ loginInfo[n] = Nil
    /\ o # n /\ passwordInfo[o] # Nil

LoginMoved(u, o, n) ==
    /\ Settled({u}) /\ NoPasswordBut({o})
    /\ HasRow(u, n) /\ LoginsOf(u, {n}) /\ loginInfo[o] = Nil
    /\ o # n /\ passwordInfo[o] # Nil

PasswordMoved(o) == Settled({}) /\ NoPasswordBut({o}) /\ loginInfo[o] = Nil

SignUpSettled(h) ==
    \/ \E e \in Email : h.email = e /\ h.pc \in {"retrieve", "addUser"} /\ IsFree(e)
    \/ \E e \in Email, u \in UserId :
         /\ h.email = e /\ h.user = u
         /\ \/ h.pc = "addLogin" /\ RowWritten(u, e)
            \/ h.pc = "addPassword" /\ LoginWritten(u, e)
    \/ h.pc \in MailLabels \cup ConfirmLabels \cup {"openSession"} /\ AllSettled

EmailSettled(h) ==
    \/ h.pc = "retrieveUser" /\ h.op \in {"request", "change"} /\ h.login = h.id /\ AllSettled
    \/ h.pc \in {"saveToken", "expireToken", "mail", "deleteToken"} /\ AllSettled
    \/ h.pc \in {"checkFree", "findUser"} /\ h.op = "request" /\ AllSettled
    \/ \E u \in UserId, o \in Email :
         /\ h.id = u /\ h.old = o /\ h.op = "change"
         /\ h.pc \in {"retrieveToken", "checkFree"}
         /\ AllSettled /\ HasRow(u, o)
    \/ \E u \in UserId, o \in Email, n \in Email :
         /\ h.id = u /\ h.old = o /\ h.new = n /\ h.op = "change"
         /\ \/ h.pc \in {"findUser", "readRow", "writeRow"} /\ IsFree(n) /\ HasRow(u, o)
            \/ h.pc = "readLogin" /\ RowMoved(u, o, n)
            \/ h.pc = "writeLogin" /\ RowMoved(u, o, n) /\ h.login = u
            \/ h.pc \in {"readPassword", "addPassword"} /\ LoginMoved(u, o, n)
            \/ h.pc = "removePassword" /\ PasswordMoved(o)

ForgotSettled(h) ==
    /\ AllSettled
    /\ h.pc = "setPassword" => \E e \in Email : h.email = e /\ FindByEmail(e) # {}

(* Whom the server is serving.                                                 *)
SignUpRests == \A r \in SignUpRequest : su[r].pc = "idle"
LogInRests  == \A r \in LogInRequest : li[r].pc = "idle"
EmailsRest  == \A r \in EmailRequest : ue[r].pc = "idle"
ForgotsRest == \A r \in ForgotRequest : fp[r].pc = "idle"

NobodyServed == SignUpRests /\ LogInRests /\ EmailsRest /\ ForgotsRest /\ AllSettled

SignUpServed(r) ==
    /\ LogInRests /\ EmailsRest /\ ForgotsRest
    /\ \A q \in SignUpRequest : su[q].pc # "idle" <=> q = r
    /\ SignUpSettled(su[r])

LogInServed(r) ==
    /\ SignUpRests /\ EmailsRest /\ ForgotsRest
    /\ \A q \in LogInRequest : li[q].pc # "idle" <=> q = r
    /\ AllSettled

EmailServed(r) ==
    /\ SignUpRests /\ LogInRests /\ ForgotsRest
    /\ \A q \in EmailRequest : ue[q].pc # "idle" <=> q = r
    /\ EmailSettled(ue[r])

ForgotServed(r) ==
    /\ SignUpRests /\ LogInRests /\ EmailsRest
    /\ \A q \in ForgotRequest : fp[q].pc # "idle" <=> q = r
    /\ ForgotSettled(fp[r])

SerialInv ==
    /\ ~swallowing
    /\ \/ NobodyServed
       \/ \E r \in SignUpRequest : SignUpServed(r)
       \/ \E r \in LogInRequest : LogInServed(r)
       \/ \E r \in EmailRequest : EmailServed(r)
       \/ \E r \in ForgotRequest : ForgotServed(r)

Serially ==
    MaxBusy = 1 /\ MaxFailures = 0 /\ ErrorsSwallowed = FALSE /\ DeleteRequest = {} /\ Admin = {}

LEMMA SerialInit == Serially /\ AccountsInit => SerialInv
<1> SUFFICES ASSUME Serially, AccountsInit PROVE SerialInv
  OBVIOUS
<1>1. ~swallowing
  BY DEF Serially, AccountsInit, SignUpInit
<1>2. SignUpRests /\ LogInRests /\ EmailsRest /\ ForgotsRest
  BY DEF AccountsInit, SignUpInit, LogInInit, EmailInit, ForgotInit, SignUpRests, LogInRests,
     EmailsRest, ForgotsRest, Idle, LogInIdle, EmailIdle, ForgotIdle
<1>3. AllSettled
  BY DEF AccountsInit, SignUpInit, StoreInit, AllSettled, Settled, NoPasswordBut, IsLive
<1> QED BY <1>1, <1>2, <1>3 DEF SerialInv, NobodyServed

(* Nobody is busy when every handler is idle.                                  *)
DeletesRest == \A r \in DeleteRequest : dl[r].pc = "idle"

LEMMA BusyCounts ==
    /\ Busy \in Nat
    /\ Busy = 0 => SignUpRests /\ LogInRests /\ EmailsRest /\ ForgotsRest /\ DeletesRest
<1> DEFINE S == {r \in SignUpRequest : su[r].pc # "idle"}
           L == {r \in LogInRequest : li[r].pc # "idle"}
           E == {r \in EmailRequest : ue[r].pc # "idle"}
           F == {r \in ForgotRequest : fp[r].pc # "idle"}
           D == {r \in DeleteRequest : dl[r].pc # "idle"}
<1>1. IsFiniteSet(S) /\ IsFiniteSet(L) /\ IsFiniteSet(E) /\ IsFiniteSet(F) /\ IsFiniteSet(D)
  <2>1. S \subseteq SignUpRequest /\ L \subseteq LogInRequest /\ E \subseteq EmailRequest
        /\ F \subseteq ForgotRequest /\ D \subseteq DeleteRequest
    OBVIOUS
  <2>2. IsFiniteSet(SignUpRequest) /\ IsFiniteSet(LogInRequest) /\ IsFiniteSet(EmailRequest)
        /\ IsFiniteSet(ForgotRequest) /\ IsFiniteSet(DeleteRequest)
    BY RequestsAssumption
  <2> HIDE DEF S, L, E, F, D
  <2> QED BY <2>1, <2>2, FS_Subset
<1>2. Busy = Cardinality(S) + Cardinality(L) + Cardinality(E) + Cardinality(F) + Cardinality(D)
  BY DEF Busy
<1>3. S = {} /\ L = {} /\ E = {} /\ F = {} /\ D = {}
        => SignUpRests /\ LogInRests /\ EmailsRest /\ ForgotsRest /\ DeletesRest
  BY DEF SignUpRests, LogInRests, EmailsRest, ForgotsRest, DeletesRest
<1> HIDE DEF S, L, E, F, D
<1>4. /\ Cardinality(S) \in Nat /\ (Cardinality(S) = 0 <=> S = {})
      /\ Cardinality(L) \in Nat /\ (Cardinality(L) = 0 <=> L = {})
      /\ Cardinality(E) \in Nat /\ (Cardinality(E) = 0 <=> E = {})
      /\ Cardinality(F) \in Nat /\ (Cardinality(F) = 0 <=> F = {})
      /\ Cardinality(D) \in Nat /\ (Cardinality(D) = 0 <=> D = {})
  BY <1>1, FS_CardinalityType, FS_EmptySet
<1>5. Busy \in Nat
  BY <1>2, <1>4
<1>6. ASSUME Busy = 0 PROVE S = {} /\ L = {} /\ E = {} /\ F = {} /\ D = {}
  <2> DEFINE s == Cardinality(S)  l == Cardinality(L)  e == Cardinality(E)  f == Cardinality(F)
             d == Cardinality(D)
  <2>1. s \in Nat /\ l \in Nat /\ e \in Nat /\ f \in Nat /\ d \in Nat /\ s + l + e + f + d = 0
    BY <1>2, <1>4, <1>6
  <2>2. /\ (s = 0 => S = {}) /\ (l = 0 => L = {}) /\ (e = 0 => E = {}) /\ (f = 0 => F = {})
        /\ (d = 0 => D = {})
    BY <1>4
  <2> HIDE DEF s, l, e, f, d
  <2>3. s = 0 /\ l = 0 /\ e = 0 /\ f = 0 /\ d = 0
    BY <2>1
  <2> QED BY <2>2, <2>3
<1> QED BY <1>3, <1>5, <1>6

(* Without failures, and one at a time, a request arrives when none is served. *)
LEMMA SerialFlows ==
    ASSUME Serially, TypesInv, [AccountsNext]_accountsVars
    PROVE  /\ UNCHANGED swallowing
           /\ \/ UNCHANGED <<user, loginInfo, passwordInfo, su, li, ue, fp>>
              \/ OnlySignUp /\ \E r \in SignUpRequest : SignUpStep(r)
              \/ OnlyLogIn /\ \E r \in LogInRequest : LogInStep(r)
              \/ OnlyEmail /\ \E r \in EmailRequest : EmailStep(r)
              \/ OnlyForgot /\ \E r \in ForgotRequest : ForgotStep(r)
              \/ /\ SignUpRests /\ LogInRests /\ EmailsRest /\ ForgotsRest
                 /\ \/ OnlySignUp /\ \E r \in SignUpRequest : SignUpArrives(r)
                    \/ OnlyLogIn /\ \E r \in LogInRequest : LogInArrives(r)
                    \/ OnlyEmail /\ \E r \in EmailRequest : EmailArrives(r)
                    \/ OnlyForgot /\ \E r \in ForgotRequest : ForgotArrives(r)
<1>1. CASE Arrival
  <2>1. Busy < 1
    BY <1>1 DEF Arrival, Serially
  <2>2. Busy \in Nat /\ (Busy = 0 => SignUpRests /\ LogInRests /\ EmailsRest /\ ForgotsRest)
    BY BusyCounts
  <2>3. SignUpRests /\ LogInRests /\ EmailsRest /\ ForgotsRest
    BY <2>1, <2>2
  <2> QED BY <1>1, <2>3 DEF Arrival, Serially
<1>2. CASE Call
  BY <1>2 DEF Call, SignUpCall, LogInCall, EmailCall, ForgotCall, DeleteCall, Serially
<1>3. CASE Failure
  <2>1. failures = 0
    BY DEF TypesInv, Serially
  <2> QED BY <1>3, <2>1 DEF Failure, Serially
<1>4. CASE Expiry
  BY <1>4 DEF Expiry, TokenExpires, SessionExpires, postgres
<1>5. CASE UNCHANGED accountsVars
  BY <1>5 DEF accountsVars, store
<1> QED BY <1>1, <1>2, <1>3, <1>4, <1>5 DEF AccountsNext

TablesOK ==
    /\ user \in [UserId -> UserRow]
    /\ loginInfo \in [Email -> UserId \cup {Nil}]
    /\ passwordInfo \in [Email -> Password \cup {Nil}]

LEMMA TablesTypes == TypesInv => TablesOK
BY DEF TypesInv, SignUpTypeOK, StoreTypeOK, TablesOK

(* An address that no live user has, has no login info.                        *)
LEMMA FreeHasNoLogin ==
    ASSUME TablesOK, NEW e \in Email, IsFree(e)
    PROVE  loginInfo[e] = Nil
BY DEF TablesOK, IsFree, AllSettled, Settled, FindByEmail

(* Each statement that writes a row, a login info or a password, and what is   *)
(* missing of the account after it.                                            *)
LEMMA AddingUser ==
    ASSUME TablesOK, NEW e \in Email, NEW u \in UserId, IsFree(e), user[u].row = "never",
           user' = UserAdded(u, e), UNCHANGED <<loginInfo, passwordInfo>>
    PROVE  RowWritten(u, e)'
<1>1. /\ user'[u].row = "live" /\ user'[u].email = e
      /\ \A v \in UserId : v # u => user'[v] = user[v]
  BY DEF TablesOK, UserAdded
<1>2. /\ \A v \in UserId : user[v].row \in {"never", "live"}
      /\ \A v \in UserId : IsLive(v) => Opens(v)
      /\ \A x \in Email : loginInfo[x] # Nil => IsLive(loginInfo[x]) /\ user[loginInfo[x]].email = x
      /\ NoPasswordBut({})
  BY DEF IsFree, AllSettled, Settled
<1>3. loginInfo[e] = Nil
  BY FreeHasNoLogin
<1>4. \A x \in Email : loginInfo[x] # u
  BY <1>2, NilAssumption DEF IsLive
<1>5. Settled({u})'
  <2>1. \A v \in UserId \ {u} : IsLive(v)' => Opens(v)'
    BY <1>1, <1>2 DEF IsLive, Opens
  <2>2. \A x \in Email : loginInfo'[x] # Nil =>
          user'[loginInfo'[x]].row = "live" /\ user'[loginInfo'[x]].email = x
    BY <1>1, <1>2, <1>4 DEF IsLive, TablesOK
  <2>3. \A v \in UserId : user'[v].row \in {"never", "live"}
    BY <1>1, <1>2
  <2> QED BY <2>1, <2>2, <2>3 DEF Settled, IsLive
<1>6. NoPasswordBut({})'
  BY <1>2 DEF NoPasswordBut
<1>7. HasRow(u, e)' /\ LoginsOf(u, {})'
  BY <1>1, <1>4 DEF HasRow, LoginsOf, IsLive
<1> QED BY <1>3, <1>5, <1>6, <1>7 DEF RowWritten

LEMMA AddingLogin ==
    ASSUME TablesOK, NEW e \in Email, NEW u \in UserId, RowWritten(u, e),
           loginInfo' = [loginInfo EXCEPT ![e] = u], UNCHANGED <<user, passwordInfo>>
    PROVE  LoginWritten(u, e)'
<1>1. \A x \in Email : loginInfo'[x] = IF x = e THEN u ELSE loginInfo[x]
  BY DEF TablesOK
<1>2. /\ \A v \in UserId : user[v].row \in {"never", "live"}
      /\ \A v \in UserId \ {u} : IsLive(v) => Opens(v)
      /\ \A x \in Email : loginInfo[x] # Nil /\ loginInfo[x] # u =>
           IsLive(loginInfo[x]) /\ user[loginInfo[x]].email = x
      /\ \A x \in Email : passwordInfo[x] # Nil => loginInfo[x] # Nil
      /\ \A x \in Email : loginInfo[x] # u
      /\ loginInfo[e] = Nil /\ u # Nil
  BY NilAssumption DEF RowWritten, Settled, NoPasswordBut, LoginsOf
<1>3. Settled({u})'
  <2>1. ASSUME NEW v \in UserId, v # u, IsLive(v) PROVE Opens(v)'
    BY <1>1, <1>2, <2>1, NilAssumption DEF Opens
  <2>2. \A x \in Email : loginInfo'[x] # Nil /\ loginInfo'[x] # u =>
          user'[loginInfo'[x]].row = "live" /\ user'[loginInfo'[x]].email = x
    BY <1>1, <1>2 DEF IsLive
  <2> QED BY <1>2, <2>1, <2>2 DEF Settled, IsLive
<1>4. NoPasswordBut({})' /\ LoginsOf(u, {e})'
  BY <1>1, <1>2 DEF NoPasswordBut, LoginsOf
<1>5. HasRow(u, e)'
  BY DEF RowWritten, HasRow, IsLive
<1> QED BY <1>3, <1>4, <1>5 DEF LoginWritten

LEMMA AddingPassword ==
    ASSUME TablesOK, NEW e \in Email, NEW u \in UserId, NEW p \in Password, LoginWritten(u, e),
           passwordInfo' = [passwordInfo EXCEPT ![e] = p], UNCHANGED <<user, loginInfo>>
    PROVE  AllSettled'
<1>1. \A x \in Email : passwordInfo'[x] = IF x = e THEN p ELSE passwordInfo[x]
  BY DEF TablesOK
<1>2. /\ \A v \in UserId : user[v].row \in {"never", "live"}
      /\ \A v \in UserId \ {u} : IsLive(v) => Opens(v)
      /\ \A x \in Email : loginInfo[x] # Nil /\ loginInfo[x] # u =>
           IsLive(loginInfo[x]) /\ user[loginInfo[x]].email = x
      /\ \A x \in Email : passwordInfo[x] # Nil => loginInfo[x] # Nil
      /\ \A x \in Email : loginInfo[x] = u <=> x = e
      /\ IsLive(u) /\ user[u].email = e /\ u # Nil /\ p # Nil
  BY NilAssumption DEF LoginWritten, Settled, NoPasswordBut, LoginsOf, HasRow
<1>3. Settled({})'
  <2>1. ASSUME NEW v \in UserId, IsLive(v) PROVE Opens(v)'
    BY <1>1, <1>2, <2>1 DEF Opens
  <2>2. \A x \in Email : loginInfo[x] # Nil => IsLive(loginInfo[x]) /\ user[loginInfo[x]].email = x
    BY <1>2
  <2> QED BY <1>2, <2>1, <2>2 DEF Settled, IsLive
<1>4. NoPasswordBut({})'
  BY <1>1, <1>2 DEF NoPasswordBut
<1> QED BY <1>3, <1>4 DEF AllSettled

LEMMA Activating ==
    ASSUME TablesOK, NEW u \in UserId, AllSettled, user' = ActiveUpdated(u),
           UNCHANGED <<loginInfo, passwordInfo>>
    PROVE  AllSettled'
<1>1. \A v \in UserId : user'[v].row = user[v].row /\ user'[v].email = user[v].email
  BY DEF TablesOK, ActiveUpdated, UserRow
<1>2. /\ \A v \in UserId : user[v].row \in {"never", "live"}
      /\ \A v \in UserId : IsLive(v) => Opens(v)
      /\ \A x \in Email : loginInfo[x] # Nil => IsLive(loginInfo[x]) /\ user[loginInfo[x]].email = x
      /\ NoPasswordBut({})
  BY DEF AllSettled, Settled
<1>3. \A v \in UserId : IsLive(v)' => Opens(v)'
  BY <1>1, <1>2 DEF IsLive, Opens
<1>4. \A x \in Email : loginInfo'[x] # Nil =>
        user'[loginInfo'[x]].row = "live" /\ user'[loginInfo'[x]].email = x
  BY <1>1, <1>2 DEF IsLive, TablesOK
<1>5. Settled({})'
  BY <1>1, <1>2, <1>3, <1>4 DEF Settled, IsLive
<1>6. NoPasswordBut({})'
  BY <1>2 DEF NoPasswordBut
<1> QED BY <1>5, <1>6 DEF AllSettled
LEMMA MovingRow ==
    ASSUME TablesOK, NEW u \in UserId, NEW o \in Email, NEW n \in Email, IsFree(n), HasRow(u, o),
           user'[u].row = "live", user'[u].email = n, \A v \in UserId : v # u => user'[v] = user[v],
           UNCHANGED <<loginInfo, passwordInfo>>
    PROVE  RowMoved(u, o, n)'
<1>1. loginInfo[n] = Nil
  BY FreeHasNoLogin
<1>2. /\ \A v \in UserId : user[v].row \in {"never", "live"}
      /\ \A v \in UserId : IsLive(v) => Opens(v)
      /\ \A x \in Email : loginInfo[x] # Nil => IsLive(loginInfo[x]) /\ user[loginInfo[x]].email = x
      /\ NoPasswordBut({})
      /\ IsLive(u) /\ user[u].email = o /\ user[u].email # n /\ u # Nil
  BY NilAssumption DEF IsFree, AllSettled, Settled, HasRow, FindByEmail
<1>3. /\ loginInfo[o] = u /\ passwordInfo[o] # Nil
      /\ \A x \in Email : loginInfo[x] = u <=> x = o
  BY <1>2 DEF Opens
<1>4. Settled({u})'
  <2>1. \A v \in UserId \ {u} : IsLive(v)' => Opens(v)'
    BY <1>2 DEF IsLive, Opens
  <2>2. \A x \in Email : loginInfo'[x] # Nil /\ loginInfo'[x] # u =>
          user'[loginInfo'[x]].row = "live" /\ user'[loginInfo'[x]].email = x
    BY <1>2 DEF IsLive, TablesOK
  <2>3. \A v \in UserId : user'[v].row \in {"never", "live"}
    BY <1>2
  <2> QED BY <2>1, <2>2, <2>3 DEF Settled, IsLive
<1>5. NoPasswordBut({})' /\ LoginsOf(u, {o})'
  BY <1>2, <1>3 DEF NoPasswordBut, LoginsOf
<1>6. HasRow(u, n)'
  BY DEF HasRow, IsLive
<1> QED BY <1>1, <1>2, <1>3, <1>4, <1>5, <1>6 DEF RowMoved

LEMMA MovingLogin ==
    ASSUME TablesOK, NEW u \in UserId, NEW o \in Email, NEW n \in Email, RowMoved(u, o, n),
           loginInfo' = [loginInfo EXCEPT ![o] = Nil, ![n] = u], UNCHANGED <<user, passwordInfo>>
    PROVE  LoginMoved(u, o, n)'
<1>1. /\ loginInfo'[n] = u /\ loginInfo'[o] = Nil
      /\ \A x \in Email : x # n /\ x # o => loginInfo'[x] = loginInfo[x]
  BY DEF TablesOK, RowMoved
<1>2. /\ \A v \in UserId : user[v].row \in {"never", "live"}
      /\ \A v \in UserId \ {u} : IsLive(v) => Opens(v)
      /\ \A x \in Email : loginInfo[x] # Nil /\ loginInfo[x] # u =>
           IsLive(loginInfo[x]) /\ user[loginInfo[x]].email = x
      /\ \A x \in Email : passwordInfo[x] # Nil => loginInfo[x] # Nil
      /\ \A x \in Email : loginInfo[x] = u <=> x = o
      /\ loginInfo[n] = Nil /\ u # Nil /\ o # n /\ passwordInfo[o] # Nil
  BY NilAssumption DEF RowMoved, Settled, NoPasswordBut, LoginsOf
<1>3. Settled({u})'
  <2>1. ASSUME NEW v \in UserId, v # u, IsLive(v) PROVE Opens(v)'
    <3>1. /\ user[v].email \in Email /\ loginInfo[user[v].email] = v
          /\ passwordInfo[user[v].email] # Nil /\ v # Nil
      BY <1>2, <2>1, NilAssumption DEF Opens
    <3>2. user[v].email # o /\ user[v].email # n
      BY <1>2, <2>1, <3>1
    <3> QED BY <1>1, <3>1, <3>2 DEF Opens
  <2>2. ASSUME NEW x \in Email, loginInfo'[x] # Nil, loginInfo'[x] # u
        PROVE  user'[loginInfo'[x]].row = "live" /\ user'[loginInfo'[x]].email = x
    <3>1. x # n /\ x # o /\ loginInfo'[x] = loginInfo[x]
      BY <1>1, <2>2
    <3> QED BY <1>2, <2>2, <3>1 DEF IsLive
  <2> QED BY <1>2, <2>1, <2>2 DEF Settled, IsLive
<1>4. NoPasswordBut({o})'
  BY <1>1, <1>2 DEF NoPasswordBut
<1>5. LoginsOf(u, {n})'
  BY <1>1, <1>2 DEF LoginsOf
<1>6. HasRow(u, n)'
  BY DEF RowMoved, HasRow, IsLive
<1> QED BY <1>1, <1>2, <1>3, <1>4, <1>5, <1>6 DEF LoginMoved

LEMMA MovingPassword ==
    ASSUME TablesOK, NEW u \in UserId, NEW o \in Email, NEW n \in Email, NEW p \in Password,
           LoginMoved(u, o, n),
           passwordInfo' = [passwordInfo EXCEPT ![n] = p], UNCHANGED <<user, loginInfo>>
    PROVE  PasswordMoved(o)'
<1>1. \A x \in Email : passwordInfo'[x] = IF x = n THEN p ELSE passwordInfo[x]
  BY DEF TablesOK
<1>2. /\ \A v \in UserId : user[v].row \in {"never", "live"}
      /\ \A v \in UserId \ {u} : IsLive(v) => Opens(v)
      /\ \A x \in Email : loginInfo[x] # Nil /\ loginInfo[x] # u =>
           IsLive(loginInfo[x]) /\ user[loginInfo[x]].email = x
      /\ \A x \in Email : x # o /\ passwordInfo[x] # Nil => loginInfo[x] # Nil
      /\ \A x \in Email : loginInfo[x] = u <=> x = n
      /\ loginInfo[o] = Nil /\ IsLive(u) /\ user[u].email = n /\ u # Nil /\ p # Nil
  BY NilAssumption DEF LoginMoved, Settled, NoPasswordBut, LoginsOf, HasRow
<1>3. Settled({})'
  <2>1. ASSUME NEW v \in UserId, IsLive(v) PROVE Opens(v)'
    BY <1>1, <1>2, <2>1 DEF Opens
  <2>2. \A x \in Email : loginInfo[x] # Nil => IsLive(loginInfo[x]) /\ user[loginInfo[x]].email = x
    BY <1>2
  <2> QED BY <1>2, <2>1, <2>2 DEF Settled, IsLive
<1>4. NoPasswordBut({o})'
  BY <1>1, <1>2 DEF NoPasswordBut
<1> QED BY <1>2, <1>3, <1>4 DEF PasswordMoved

LEMMA RemovingPassword ==
    ASSUME TablesOK, NEW o \in Email, PasswordMoved(o),
           passwordInfo' = [passwordInfo EXCEPT ![o] = Nil], UNCHANGED <<user, loginInfo>>
    PROVE  AllSettled'
<1>1. \A x \in Email : passwordInfo'[x] = IF x = o THEN Nil ELSE passwordInfo[x]
  BY DEF TablesOK
<1>2. /\ \A v \in UserId : user[v].row \in {"never", "live"}
      /\ \A v \in UserId : IsLive(v) => Opens(v)
      /\ \A x \in Email : loginInfo[x] # Nil => IsLive(loginInfo[x]) /\ user[loginInfo[x]].email = x
      /\ \A x \in Email : x # o /\ passwordInfo[x] # Nil => loginInfo[x] # Nil
      /\ loginInfo[o] = Nil
  BY DEF PasswordMoved, Settled, NoPasswordBut
<1>3. Settled({})'
  <2>1. ASSUME NEW v \in UserId, IsLive(v) PROVE Opens(v)'
    BY <1>1, <1>2, <2>1, NilAssumption DEF Opens
  <2> QED BY <1>2, <2>1 DEF Settled, IsLive
<1>4. NoPasswordBut({})'
  BY <1>1, <1>2 DEF NoPasswordBut
<1> QED BY <1>3, <1>4 DEF AllSettled

LEMMA ReplacingPassword ==
    ASSUME TablesOK, NEW e \in Email, NEW p \in Password, AllSettled, FindByEmail(e) # {},
           passwordInfo' = [passwordInfo EXCEPT ![e] = p], UNCHANGED <<user, loginInfo>>
    PROVE  AllSettled'
<1>1. \A x \in Email : passwordInfo'[x] = IF x = e THEN p ELSE passwordInfo[x]
  BY DEF TablesOK
<1>2. /\ \A v \in UserId : user[v].row \in {"never", "live"}
      /\ \A v \in UserId : IsLive(v) => Opens(v)
      /\ \A x \in Email : loginInfo[x] # Nil => IsLive(loginInfo[x]) /\ user[loginInfo[x]].email = x
      /\ \A x \in Email : passwordInfo[x] # Nil => loginInfo[x] # Nil
      /\ p # Nil
  BY NilAssumption DEF AllSettled, Settled, NoPasswordBut
<1>3. loginInfo[e] # Nil
  BY <1>2, NilAssumption DEF FindByEmail, Opens
<1>4. Settled({})'
  <2>1. ASSUME NEW v \in UserId, IsLive(v) PROVE Opens(v)'
    BY <1>1, <1>2, <2>1 DEF Opens
  <2> QED BY <1>2, <2>1 DEF Settled, IsLive
<1>5. NoPasswordBut({})'
  BY <1>1, <1>2, <1>3 DEF NoPasswordBut
<1> QED BY <1>4, <1>5 DEF AllSettled
-----------------------------------------------------------------------------
(* A request served, call by call: what is missing of the account it serves    *)
(* when it makes the next call.                                                *)
LEMMA SameTables ==
    ASSUME UNCHANGED <<user, loginInfo, passwordInfo>>
    PROVE  /\ AllSettled => AllSettled'
           /\ \A e : FindByEmail(e)' = FindByEmail(e)
           /\ \A e : IsFree(e) => IsFree(e)'
           /\ \A u, e : HasRow(u, e) => HasRow(u, e)'
           /\ \A u, o, n : RowMoved(u, o, n) => RowMoved(u, o, n)'
           /\ \A u, o, n : LoginMoved(u, o, n) => LoginMoved(u, o, n)'
<1>1. \A e : FindByEmail(e)' = FindByEmail(e)
  BY DEF FindByEmail, IsLive
<1>2. AllSettled => AllSettled'
  BY DEF AllSettled, Settled, NoPasswordBut, Opens, IsLive
<1>3. \A e : IsFree(e) => IsFree(e)'
  BY <1>1, <1>2 DEF IsFree
<1>4. \A u, e : HasRow(u, e) => HasRow(u, e)'
  BY DEF HasRow, IsLive
<1>5. \A u, o, n : RowMoved(u, o, n) => RowMoved(u, o, n)'
  BY DEF RowMoved, Settled, NoPasswordBut, Opens, IsLive, HasRow, LoginsOf
<1>6. \A u, o, n : LoginMoved(u, o, n) => LoginMoved(u, o, n)'
  BY DEF LoginMoved, Settled, NoPasswordBut, Opens, IsLive, HasRow, LoginsOf
<1> QED BY <1>1, <1>2, <1>3, <1>4, <1>5, <1>6

LEMMA SignUpServing ==
    ASSUME NEW r \in SignUpRequest, SignUpServed(r) \/ NobodyServed, ~swallowing', OnlySignUp,
           \A q \in SignUpRequest : q # r => su'[q] = su[q]
    PROVE  /\ su'[r].pc = "idle" /\ AllSettled' => SerialInv'
           /\ su'[r].pc # "idle" /\ SignUpSettled(su[r])' => SerialInv'
<1>1. /\ LogInRests' /\ EmailsRest' /\ ForgotsRest'
      /\ \A q \in SignUpRequest : q # r => su'[q].pc = "idle"
  BY DEF SignUpServed, NobodyServed, SignUpRests, LogInRests, EmailsRest, ForgotsRest, OnlySignUp
<1>2. ASSUME su'[r].pc = "idle", AllSettled' PROVE SerialInv'
  BY <1>1, <1>2 DEF SerialInv, NobodyServed, SignUpRests
<1>3. ASSUME su'[r].pc # "idle", SignUpSettled(su[r])' PROVE SerialInv'
  <2>1. SignUpServed(r)'
    BY <1>1, <1>3 DEF SignUpServed
  <2> QED BY <1>1, <2>1 DEF SerialInv
<1> QED BY <1>2, <1>3

LEMMA SignUpCalls ==
    ASSUME SignUpTypeOK, NEW r \in SignUpRequest, SignUpStep(r)
    PROVE  /\ su[r].pc # "idle"
           /\ \A q \in SignUpRequest : q # r => su'[q] = su[q]
<1>h. ASSUME NEW h, su' = [su EXCEPT ![r] = h] PROVE \A q \in SignUpRequest : q # r => su'[q] = su[q]
  BY <1>h DEF SignUpTypeOK
<1>1. CASE Retrieve(r)
  BY <1>1, <1>h DEF Retrieve, At, Goto
<1>2. CASE RetrieveUser(r)
  BY <1>2, <1>h DEF RetrieveUser, At, Goto, Answer
<1>3. CASE AddUser(r)
  BY <1>3, <1>h DEF AddUser, At
<1>4. CASE AddLogin(r)
  BY <1>4, <1>h DEF AddLogin, At, Goto, Answer
<1>5. CASE AddPassword(r)
  BY <1>5, <1>h DEF AddPassword, At, Goto
<1>6. CASE MailLookup(r)
  <2>1. ASSUME NEW u, su' = [su EXCEPT ![r] = [@ EXCEPT !.pc = "saveToken", !.user = u]]
        PROVE  \A q \in SignUpRequest : q # r => su'[q] = su[q]
    BY <1>h, <2>1
  <2>2. ASSUME Answer(r) PROVE \A q \in SignUpRequest : q # r => su'[q] = su[q]
    BY <1>h, <2>2 DEF Answer
  <2>3. su[r].pc # "idle"
    BY <1>6 DEF MailLookup, At
  <2> QED BY <1>6, <2>1, <2>2, <2>3 DEF MailLookup
<1>7. CASE SaveToken(r)
  BY <1>7, <1>h DEF SaveToken, At
<1>8. CASE ExpireToken(r)
  BY <1>8, <1>h DEF ExpireToken, At, Goto
<1>9. CASE SendMail(r)
  BY <1>9, <1>h DEF SendMail, At, Goto, Answer
<1>10. CASE OpenSession(r)
  BY <1>10, <1>h DEF OpenSession, At, Answer
<1>11. CASE Activate(r)
  BY <1>11, <1>h DEF Activate, At, Goto
<1>12. CASE CountActive(r)
  BY <1>12, <1>h DEF CountActive, At, Goto, Answer
<1>13. CASE Grant(r)
  BY <1>13, <1>h DEF Grant, At, Answer
<1> QED BY <1>1, <1>2, <1>3, <1>4, <1>5, <1>6, <1>7,
           <1>8, <1>9, <1>10, <1>11, <1>12, <1>13 DEF SignUpStep

LEMMA SignUpSerial ==
    ASSUME TypesInv, SerialInv, NEW r \in SignUpRequest, SignUpStep(r), OnlySignUp,
           UNCHANGED swallowing
    PROVE  SerialInv'
<1>t. /\ TablesOK /\ SignUpTypeOK /\ su[r] \in Handler /\ Ready(su[r])
  BY TablesTypes DEF TypesInv, SignUpTypeOK
<1>1. SignUpServed(r) /\ ~swallowing /\ SignUpSettled(su[r])
  BY <1>t, SignUpCalls DEF SerialInv, NobodyServed, LogInServed, EmailServed, ForgotServed,
     SignUpRests, SignUpServed
<1>2. \A q \in SignUpRequest : q # r => su'[q] = su[q]
  BY <1>t, SignUpCalls
<1>i. ASSUME su'[r].pc = "idle", AllSettled' PROVE SerialInv'
  BY <1>1, <1>2, <1>i, SignUpServing
<1>b. ASSUME su'[r].pc # "idle", SignUpSettled(su[r])' PROVE SerialInv'
  BY <1>1, <1>2, <1>b, SignUpServing
(* The tail of a flow: everybody is settled, and stays so.                     *)
<1>m. ASSUME su'[r].pc \in MailLabels \cup ConfirmLabels \cup {"openSession", "idle"}, AllSettled'
      PROVE  SerialInv'
  BY <1>i, <1>b, <1>m DEF SignUpSettled
<1>l. ASSUME su[r].pc \in MailLabels \cup ConfirmLabels \cup {"openSession"} PROVE AllSettled
  BY <1>1, <1>l DEF SignUpSettled, MailLabels, ConfirmLabels
<1>f. ASSUME su[r].pc \in {"retrieve", "addUser"} PROVE su[r].email \in Email /\ IsFree(su[r].email)
  BY <1>1, <1>f DEF SignUpSettled, MailLabels, ConfirmLabels
<1>3. CASE Retrieve(r)
  <2>1. /\ su[r].pc = "retrieve" /\ su[r].email \in Email /\ IsFree(su[r].email)
        /\ UNCHANGED <<user, loginInfo, passwordInfo>>
    BY <1>f, <1>3 DEF Retrieve, At, store, postgres
  <2>2. Goto(r, "addUser")
    BY <1>1, <1>3, <1>t, <2>1, FreeHasNoLogin DEF Retrieve
  <2>3. su'[r].pc = "addUser" /\ su'[r].email = su[r].email
    BY <2>2, <1>t, AfterGoto DEF Kept
  <2>4. PICK e \in Email : e = su[r].email
    BY <2>1
  <2>5. IsFree(e)'
    BY <2>1, <2>4, SameTables
  <2>6. SignUpSettled(su[r])'
    BY <2>3, <2>4, <2>5 DEF SignUpSettled
  <2> QED BY <1>b, <2>3, <2>6
<1>4. CASE RetrieveUser(r)
  BY <1>1, <1>4 DEF RetrieveUser, At, SignUpSettled, MailLabels, ConfirmLabels
<1>5. CASE AddUser(r)
  <2>1. PICK e \in Email : e = su[r].email /\ IsFree(e)
    BY <1>f, <1>5 DEF AddUser, At
  <2>2. PICK u \in UserId : /\ user[u].row = "never" /\ user' = UserAdded(u, e)
                            /\ su'[r].pc = "addLogin" /\ su'[r].user = u /\ su'[r].email = e
    BY <1>5, <1>t, <2>1, AfterAddUser
  <2>3. RowWritten(u, e)'
    BY <1>5, <1>t, <2>1, <2>2, AddingUser DEF AddUser, redis
  <2>4. SignUpSettled(su[r])'
    BY <2>2, <2>3 DEF SignUpSettled
  <2> QED BY <1>b, <2>2, <2>4
<1>6. CASE AddLogin(r)
  <2>1. PICK e \in Email, u \in UserId : e = su[r].email /\ u = su[r].user /\ RowWritten(u, e)
    BY <1>1, <1>6 DEF AddLogin, At, SignUpSettled, MailLabels, ConfirmLabels
  <2>2. LoginAllowed(e, u)
    BY <2>1 DEF RowWritten, LoginAllowed, HasRow, IsLive, Exists
  <2>3. Goto(r, "addPassword") /\ loginInfo' = [loginInfo EXCEPT ![e] = u]
    BY <1>6, <2>1, <2>2 DEF AddLogin
  <2>4. su'[r].pc = "addPassword" /\ su'[r].user = u /\ su'[r].email = e
    BY <2>1, <2>3, <1>t, AfterGoto DEF Kept
  <2>5. LoginWritten(u, e)'
    BY <1>6, <1>t, <2>1, <2>3, AddingLogin DEF AddLogin, redis
  <2>6. SignUpSettled(su[r])'
    BY <2>4, <2>5 DEF SignUpSettled
  <2> QED BY <1>b, <2>4, <2>6
<1>7. CASE AddPassword(r)
  <2>1. PICK e \in Email, u \in UserId : e = su[r].email /\ u = su[r].user /\ LoginWritten(u, e)
    BY <1>1, <1>7 DEF AddPassword, At, SignUpSettled, MailLabels, ConfirmLabels
  <2>2. Goto(r, "mailLookup") /\ passwordInfo' = [passwordInfo EXCEPT ![e] = su[r].password]
    BY <1>1, <1>7, <2>1 DEF AddPassword
  <2>3. su[r].password \in Password
    BY <1>7, <1>t DEF AddPassword, At, Ready, SignUpLabels
  <2>4. AllSettled'
    BY <1>7, <1>t, <2>1, <2>2, <2>3, AddingPassword DEF AddPassword, postgres
  <2>5. su'[r].pc = "mailLookup"
    BY <2>2, <1>t, AfterGoto
  <2> QED BY <1>m, <2>4, <2>5 DEF MailLabels
<1>8. ASSUME su[r].pc \in MailLabels \cup ConfirmLabels \cup {"openSession"},
             UNCHANGED <<user, loginInfo, passwordInfo>>,
             su'[r].pc \in MailLabels \cup ConfirmLabels \cup {"openSession", "idle"}
      PROVE  SerialInv'
  BY <1>l, <1>m, <1>8, SameTables
<1>9. CASE MailLookup(r)
  <2>1. su[r].pc = "mailLookup" /\ UNCHANGED store
    BY <1>9 DEF MailLookup, At
  <2>2. su'[r].pc \in {"saveToken", "idle"}
    BY <1>9, <1>t, AfterMailLookup DEF Idle
  <2> QED BY <1>8, <2>1, <2>2 DEF MailLabels, store, postgres
<1>10. CASE SaveToken(r)
  <2>1. su[r].pc = "saveToken" /\ UNCHANGED <<user, loginInfo, passwordInfo>>
    BY <1>10 DEF SaveToken, At, postgres
  <2>2. su'[r].pc = "expireToken"
    BY <1>10, <1>t, AfterSaveToken
  <2> QED BY <1>8, <2>1, <2>2 DEF MailLabels
<1>11. CASE ExpireToken(r)
  BY <1>11, <1>8, <1>t, AfterGoto DEF ExpireToken, At, MailLabels, postgres
<1>12. CASE SendMail(r)
  BY <1>12, <1>8, <1>t, AfterGoto, AfterAnswer DEF SendMail, At, Idle, MailLabels, postgres
<1>13. CASE OpenSession(r)
  BY <1>13, <1>8, <1>t, AfterAnswer DEF OpenSession, At, Idle, postgres
<1>14. CASE CountActive(r) \/ Grant(r)
  <2>1. su[r].pc \in ConfirmLabels /\ UNCHANGED <<user, loginInfo, passwordInfo>>
    BY <1>14 DEF CountActive, Grant, At, ConfirmLabels, store, postgres, redis
  <2>2. su'[r].pc \in ConfirmLabels \cup {"idle"}
    BY <1>14, <1>t, AfterGoto, AfterAnswer DEF CountActive, Grant, Idle, ConfirmLabels
  <2> QED BY <1>8, <2>1, <2>2
<1>15. CASE Activate(r)
  <2>1. su[r].pc = "activate" /\ su[r].user \in UserId
    BY <1>15, <1>t DEF Activate, At, Ready, UserLabels
  <2>2. AllSettled
    BY <1>l, <2>1 DEF ConfirmLabels
  <2>3. AllSettled'
    BY <1>15, <1>t, <2>1, <2>2, Activating DEF Activate, redis
  <2>4. su'[r].pc = "count"
    BY <1>15, <1>t, AfterGoto DEF Activate
  <2> QED BY <1>m, <2>3, <2>4 DEF ConfirmLabels
<1> QED BY <1>3, <1>4, <1>5, <1>6, <1>7, <1>9, <1>10, <1>11, <1>12, <1>13, <1>14, <1>15 DEF SignUpStep

LEMMA SignUpArrivesSerial ==
    ASSUME TypesInv, SerialInv, NobodyServed, NEW r \in SignUpRequest, SignUpArrives(r), OnlySignUp,
           UNCHANGED swallowing
    PROVE  SerialInv'
<1>t. SignUpTypeOK /\ AllSettled /\ ~swallowing
  BY DEF TypesInv, SerialInv, NobodyServed
<1>h. ASSUME NEW h, su' = [su EXCEPT ![r] = h] PROVE \A q \in SignUpRequest : q # r => su'[q] = su[q]
  BY <1>h, <1>t DEF SignUpTypeOK
<1>1. UNCHANGED store /\ \A q \in SignUpRequest : q # r => su'[q] = su[q]
  <2>1. ASSUME NEW e \in Email, NEW p \in Password, Subscribe(r, e, p)
        PROVE  UNCHANGED store /\ \A q \in SignUpRequest : q # r => su'[q] = su[q]
    BY <1>h, <2>1 DEF Subscribe
  <2>2. ASSUME NEW e \in Email, Resend(r, e)
        PROVE  UNCHANGED store /\ \A q \in SignUpRequest : q # r => su'[q] = su[q]
    BY <1>h, <2>2 DEF Resend
  <2>3. ASSUME NEW t \in Token, Confirm(r, t)
        PROVE  UNCHANGED store /\ \A q \in SignUpRequest : q # r => su'[q] = su[q]
    BY <1>h, <2>3 DEF Confirm
  <2> QED BY <2>1, <2>2, <2>3 DEF SignUpArrives
<1>u. UNCHANGED <<user, loginInfo, passwordInfo>>
  BY <1>1 DEF store, postgres
<1>b. ASSUME su'[r].pc # "idle", SignUpSettled(su[r])' PROVE SerialInv'
  BY <1>t, <1>1, <1>b, SignUpServing
<1>3. ASSUME NEW e \in Email, NEW p \in Password, Subscribe(r, e, p) PROVE SerialInv'
  <2>1. su'[r].pc = "retrieve" /\ su'[r].email = e
    BY <1>3, <1>t DEF Subscribe, Idle, SignUpTypeOK
  <2>2. IsFree(e)'
    BY <1>3, <1>t, <1>u, SameTables DEF Subscribe, IsFree
  <2>3. SignUpSettled(su[r])'
    BY <2>1, <2>2 DEF SignUpSettled
  <2> QED BY <1>b, <2>1, <2>3
<1>4. ASSUME su'[r].pc \in {"mailLookup", "activate"} PROVE SerialInv'
  <2>1. SignUpSettled(su[r])'
    BY <1>4, <1>t, <1>u, SameTables DEF SignUpSettled, MailLabels, ConfirmLabels
  <2> QED BY <1>b, <1>4, <2>1
<1>5. ASSUME NEW e \in Email, Resend(r, e) PROVE SerialInv'
  BY <1>5, <1>4, <1>t DEF Resend, Idle, SignUpTypeOK
<1>6. ASSUME NEW t \in Token, Confirm(r, t) PROVE SerialInv'
  BY <1>6, <1>4, <1>t DEF Confirm, Idle, SignUpTypeOK
<1> QED BY <1>3, <1>5, <1>6 DEF SignUpArrives

LEMMA LogInSerial ==
    ASSUME TypesInv, SerialInv, NEW r \in LogInRequest, OnlyLogIn, UNCHANGED swallowing,
           LogInStep(r) \/ (NobodyServed /\ LogInArrives(r))
    PROVE  SerialInv'
<1>t. li \in [LogInRequest -> LogInHandler] /\ ~swallowing
  BY DEF TypesInv, LogInTypeOK, SerialInv
<1>1. (NobodyServed \/ LogInServed(r)) /\ AllSettled
  <2>1. LogInStep(r) => li[r].pc # "idle"
    BY DEF LogInStep, RetrieveLogin, RetrieveOwner, InitSession, CloseSession, LogInAt
  <2> QED BY <2>1 DEF SerialInv, NobodyServed, SignUpServed, LogInServed, EmailServed, ForgotServed,
       LogInRests
<1>h. ASSUME NEW h, li' = [li EXCEPT ![r] = h] PROVE \A q \in LogInRequest : q # r => li'[q] = li[q]
  BY <1>h, <1>t
<1>2. /\ UNCHANGED <<user, loginInfo, passwordInfo>>
      /\ \A q \in LogInRequest : q # r => li'[q] = li[q]
  <2>1. CASE RetrieveLogin(r) \/ RetrieveOwner(r)
    BY <1>h, <2>1 DEF RetrieveLogin, RetrieveOwner, LogInAnswer, store, postgres
  <2>2. CASE InitSession(r) \/ CloseSession(r)
    BY <1>h, <2>2 DEF InitSession, CloseSession, LogInAnswer, postgres
  <2>3. ASSUME NEW e \in Email, NEW p \in Password, Authenticate(r, e, p)
        PROVE  /\ UNCHANGED <<user, loginInfo, passwordInfo>>
               /\ \A q \in LogInRequest : q # r => li'[q] = li[q]
    BY <1>h, <2>3 DEF Authenticate, store, postgres
  <2>4. ASSUME NEW e \in Email, LogOut(r, e)
        PROVE  /\ UNCHANGED <<user, loginInfo, passwordInfo>>
               /\ \A q \in LogInRequest : q # r => li'[q] = li[q]
    BY <1>h, <2>4 DEF LogOut, store, postgres
  <2> QED BY <2>1, <2>2, <2>3, <2>4 DEF LogInStep, LogInArrives
<1>3. AllSettled' /\ SignUpRests' /\ EmailsRest' /\ ForgotsRest'
  BY <1>1, <1>2, SameTables
  DEF NobodyServed, LogInServed, SignUpRests, EmailsRest, ForgotsRest, OnlyLogIn
<1>4. \A q \in LogInRequest : q # r => li'[q].pc = "idle"
  BY <1>1, <1>2 DEF NobodyServed, LogInServed, LogInRests
<1>5. CASE li'[r].pc = "idle"
  BY <1>t, <1>3, <1>4, <1>5 DEF SerialInv, NobodyServed, LogInRests
<1>6. CASE li'[r].pc # "idle"
  <2>1. LogInServed(r)'
    BY <1>3, <1>4, <1>6 DEF LogInServed
  <2> QED BY <1>t, <2>1 DEF SerialInv
<1> QED BY <1>5, <1>6

LEMMA ForgotServing ==
    ASSUME NEW r \in ForgotRequest, ForgotServed(r) \/ NobodyServed, ~swallowing', OnlyForgot,
           \A q \in ForgotRequest : q # r => fp'[q] = fp[q]
    PROVE  /\ fp'[r].pc = "idle" /\ AllSettled' => SerialInv'
           /\ fp'[r].pc # "idle" /\ ForgotSettled(fp[r])' => SerialInv'
<1>1. /\ SignUpRests' /\ LogInRests' /\ EmailsRest'
      /\ \A q \in ForgotRequest : q # r => fp'[q].pc = "idle"
  BY DEF ForgotServed, NobodyServed, SignUpRests, LogInRests, EmailsRest, ForgotsRest, OnlyForgot
<1>2. ASSUME fp'[r].pc = "idle", AllSettled' PROVE SerialInv'
  BY <1>1, <1>2 DEF SerialInv, NobodyServed, ForgotsRest
<1>3. ASSUME fp'[r].pc # "idle", ForgotSettled(fp[r])' PROVE SerialInv'
  <2>1. ForgotServed(r)'
    BY <1>1, <1>3 DEF ForgotServed
  <2> QED BY <1>1, <2>1 DEF SerialInv
<1> QED BY <1>2, <1>3

LEMMA ForgotSerial ==
    ASSUME TypesInv, SerialInv, NEW r \in ForgotRequest, OnlyForgot, UNCHANGED swallowing,
           ForgotStep(r) \/ (NobodyServed /\ ForgotArrives(r))
    PROVE  SerialInv'
<1>t. /\ TablesOK /\ fp \in [ForgotRequest -> ForgotHandler] /\ ForgotReady(fp[r]) /\ ~swallowing
  BY TablesTypes DEF TypesInv, ForgotTypes, SerialInv
<1>1. (NobodyServed \/ ForgotServed(r)) /\ AllSettled /\ (ForgotStep(r) => ForgotSettled(fp[r]))
  <2>1. ForgotStep(r) => fp[r].pc # "idle"
    BY DEF ForgotStep, SaveForgotToken, ExpireForgotToken, SendForgotMail, ForgotFindUser,
       SetPassword, DropToken, ForgotAt
  <2> QED BY <2>1 DEF SerialInv, NobodyServed, SignUpServed, LogInServed, EmailServed, ForgotServed,
       ForgotsRest, ForgotSettled
<1>h. ASSUME NEW h, fp' = [fp EXCEPT ![r] = h]
      PROVE  fp'[r] = h /\ \A q \in ForgotRequest : q # r => fp'[q] = fp[q]
  BY <1>h, <1>t
<1>g. ASSUME NEW l, ForgotGoto(r, l)
      PROVE  /\ fp'[r].pc = l /\ fp'[r].email = fp[r].email
             /\ \A q \in ForgotRequest : q # r => fp'[q] = fp[q]
  BY <1>g, <1>t DEF ForgotGoto, ForgotHandler
<1>a. ASSUME ForgotAnswer(r)
      PROVE  fp'[r].pc = "idle" /\ \A q \in ForgotRequest : q # r => fp'[q] = fp[q]
  BY <1>a, <1>t DEF ForgotAnswer, ForgotIdle
(* Where nobody looked for a user first, nothing is asked of the tables.       *)
<1>s. ASSUME fp'[r].pc # "setPassword", AllSettled', \A q \in ForgotRequest : q # r => fp'[q] = fp[q]
      PROVE  SerialInv'
  <2>1. ForgotSettled(fp[r])'
    BY <1>s DEF ForgotSettled
  <2> QED BY <1>t, <1>1, <1>s, <2>1, ForgotServing
<1>u. ASSUME UNCHANGED <<user, loginInfo, passwordInfo>> PROVE AllSettled'
  BY <1>1, <1>u, SameTables
<1>2. ASSUME NEW e \in Email, AskNewPassword(r, e) PROVE SerialInv'
  <2>1. PICK u : fp' = [fp EXCEPT ![r] = [ForgotIdle EXCEPT !.pc = "saveToken", !.email = e, !.user = u]]
    BY <1>2 DEF AskNewPassword
  <2>2. fp'[r].pc = "saveToken" /\ \A q \in ForgotRequest : q # r => fp'[q] = fp[q]
    BY <2>1, <1>h DEF ForgotIdle
  <2>3. UNCHANGED store
    BY <1>2 DEF AskNewPassword
  <2> QED BY <1>s, <1>u, <2>2, <2>3 DEF store, postgres
<1>3. ASSUME NEW t \in Token, NEW p \in Password, ChangePassword(r, t, p) PROVE SerialInv'
  <2>1. fp'[r].pc = "findUser" /\ \A q \in ForgotRequest : q # r => fp'[q] = fp[q]
    BY <1>3, <1>h DEF ChangePassword, ForgotIdle
  <2> QED BY <1>3, <1>s, <1>u, <2>1 DEF ChangePassword, store, postgres
<1>4. CASE SaveForgotToken(r)
  <2>1. fp'[r].pc = "expireToken" /\ \A q \in ForgotRequest : q # r => fp'[q] = fp[q]
    BY <1>4, <1>t DEF SaveForgotToken, ForgotHandler
  <2> QED BY <1>4, <1>s, <1>u, <2>1 DEF SaveForgotToken, postgres
<1>5. CASE ExpireForgotToken(r)
  BY <1>5, <1>g, <1>s, <1>u DEF ExpireForgotToken, postgres
<1>6. CASE SendForgotMail(r)
  BY <1>6, <1>a, <1>s, <1>u DEF SendForgotMail, postgres
<1>7. CASE ForgotFindUser(r)
  <2>1. fp[r].email \in Email /\ AllSettled'
    BY <1>7, <1>t, <1>u DEF ForgotFindUser, ForgotAt, ForgotReady, store, postgres
  <2>2. CASE ForgotAnswer(r)
    BY <2>1, <2>2, <1>a, <1>s
  <2>3. ASSUME FindByEmail(fp[r].email) # {}, ForgotGoto(r, "setPassword") PROVE SerialInv'
    <3>1. PICK e \in Email : e = fp[r].email
      BY <2>1
    <3>2. FindByEmail(e)' # {}
      BY <1>7, <2>3, <3>1 DEF ForgotFindUser, FindByEmail, IsLive, store, postgres
    <3>3. fp'[r].email = e
      BY <2>3, <3>1, <1>g
    <3>4. ForgotSettled(fp[r])'
      BY <2>1, <3>2, <3>3 DEF ForgotSettled
    <3> QED BY <1>t, <1>1, <1>g, <2>3, <3>4, ForgotServing
  <2> QED BY <1>7, <2>2, <2>3 DEF ForgotFindUser
<1>8. CASE SetPassword(r)
  <2>1. PICK e \in Email : e = fp[r].email /\ FindByEmail(e) # {}
    BY <1>1, <1>8 DEF SetPassword, ForgotAt, ForgotSettled, ForgotStep
  <2>2. fp[r].password \in Password
    BY <1>8, <1>t DEF SetPassword, ForgotAt, ForgotReady
  <2>3. passwordInfo' = [passwordInfo EXCEPT ![e] = fp[r].password]
    BY <1>8, <1>t, <2>1 DEF SetPassword
  <2>4. AllSettled'
    BY <1>8, <1>1, <1>t, <2>1, <2>2, <2>3, ReplacingPassword DEF SetPassword, postgres
  <2> QED BY <1>8, <1>g, <1>s, <2>4 DEF SetPassword
<1>9. CASE DropToken(r)
  BY <1>9, <1>a, <1>s, <1>u DEF DropToken, postgres
<1> QED BY <1>2, <1>3, <1>4, <1>5, <1>6, <1>7, <1>8, <1>9 DEF ForgotStep, ForgotArrives

LEMMA EmailServing ==
    ASSUME NEW r \in EmailRequest, EmailServed(r) \/ NobodyServed, ~swallowing', OnlyEmail,
           \A q \in EmailRequest : q # r => ue'[q] = ue[q]
    PROVE  /\ ue'[r].pc = "idle" /\ AllSettled' => SerialInv'
           /\ ue'[r].pc # "idle" /\ EmailSettled(ue[r])' => SerialInv'
<1>1. /\ SignUpRests' /\ LogInRests' /\ ForgotsRest'
      /\ \A q \in EmailRequest : q # r => ue'[q].pc = "idle"
  BY DEF EmailServed, NobodyServed, SignUpRests, LogInRests, EmailsRest, ForgotsRest, OnlyEmail
<1>2. ASSUME ue'[r].pc = "idle", AllSettled' PROVE SerialInv'
  BY <1>1, <1>2 DEF SerialInv, NobodyServed, EmailsRest
<1>3. ASSUME ue'[r].pc # "idle", EmailSettled(ue[r])' PROVE SerialInv'
  <2>1. EmailServed(r)'
    BY <1>1, <1>3 DEF EmailServed
  <2> QED BY <1>1, <2>1 DEF SerialInv
<1> QED BY <1>2, <1>3

LEMMA EmailArrivesSerial ==
    ASSUME Serially, TypesInv, SerialInv, NobodyServed, NEW r \in EmailRequest, EmailArrives(r),
           OnlyEmail, UNCHANGED swallowing
    PROVE  SerialInv'
<1>t. /\ TablesOK /\ EmailTypes /\ ue \in [EmailRequest -> EmailHandler]
      /\ ~swallowing /\ AllSettled
  BY TablesTypes DEF TypesInv, EmailTypes, SerialInv, NobodyServed
<1>h. ASSUME NEW h, ue' = [ue EXCEPT ![r] = h]
      PROVE  ue'[r] = h /\ \A q \in EmailRequest : q # r => ue'[q] = ue[q]
  BY <1>h, <1>t
<1>1. ASSUME NEW e \in Email, NEW i \in UserId, NEW n \in Email, UpdateEmailRequest(r, e, i, n)
      PROVE  SerialInv'
  <2>1. /\ ue'[r].pc = "retrieveUser" /\ ue'[r].op = "request" /\ ue'[r].login = ue'[r].id
        /\ \A q \in EmailRequest : q # r => ue'[q] = ue[q]
    BY <1>1, <1>h DEF UpdateEmailRequest, Allowed, Serially, EmailIdle
  <2>2. AllSettled'
    BY <1>1, <1>t, SameTables DEF UpdateEmailRequest, store, postgres
  <2>3. EmailSettled(ue[r])'
    BY <2>1, <2>2 DEF EmailSettled
  <2> QED BY <1>t, <2>1, <2>3, EmailServing
<1>2. ASSUME NEW e \in Email, NEW i \in UserId, NEW t \in Token, ChangeEmail(r, e, i, t)
      PROVE  SerialInv'
  (* Nobody is an administrator: the user to change is the one that acts.      *)
  <2>1. /\ ue'[r].pc = "retrieveUser" /\ ue'[r].op = "change" /\ ue'[r].login = ue'[r].id
        /\ \A q \in EmailRequest : q # r => ue'[q] = ue[q]
    BY <1>2, <1>h DEF ChangeEmail, Allowed, Serially, EmailIdle
  <2>2. AllSettled'
    BY <1>2, <1>t, SameTables DEF ChangeEmail, store, postgres
  <2>3. EmailSettled(ue[r])'
    BY <2>1, <2>2 DEF EmailSettled
  <2> QED BY <1>t, <2>1, <2>3, EmailServing
<1> QED BY <1>1, <1>2 DEF EmailArrives

LEMMA EmailSerial ==
    ASSUME TypesInv, SerialInv, NEW r \in EmailRequest, EmailStep(r), OnlyEmail, UNCHANGED swallowing
    PROVE  SerialInv'
<1>t. /\ TablesOK /\ EmailTypes /\ ue \in [EmailRequest -> EmailHandler] /\ EmailReady(ue[r])
      /\ ~swallowing
  BY TablesTypes DEF TypesInv, EmailTypes, SerialInv
<1>1. EmailServed(r) /\ EmailSettled(ue[r])
  BY <1>t, EmailCalls DEF SerialInv, NobodyServed, SignUpServed, LogInServed, EmailServed,
     ForgotServed, EmailsRest
<1>i. ASSUME EmailAnswer(r), AllSettled' PROVE SerialInv'
  BY <1>t, <1>1, <1>i, EmailEnds, EmailServing
<1>b. ASSUME ue'[r].pc # "idle", EmailSettled(ue[r])', \A q \in EmailRequest : q # r => ue'[q] = ue[q]
      PROVE  SerialInv'
  BY <1>t, <1>1, <1>b, EmailServing
<1>0. CASE RetrieveActor(r)
  <2>1. /\ AllSettled /\ UNCHANGED <<user, loginInfo, passwordInfo>>
        /\ ue[r].login = ue[r].id /\ ue[r].id \in UserId /\ ue[r].op \in {"request", "change"}
    BY <1>0, <1>1, <1>t DEF RetrieveActor, EmailAt, EmailSettled, EmailReady, store, postgres
  <2>2. AllSettled'
    BY <2>1, SameTables
  <2>3. ASSUME Retrieved(ue[r].login),
               ue' = [ue EXCEPT ![r] =
                        [@ EXCEPT !.pc = IF ue[r].op = "request" THEN "checkFree" ELSE "retrieveToken",
                                  !.old = user[ue[r].login].email, !.login = Nil]]
        PROVE  SerialInv'
    <3>1. PICK u \in UserId, o \in Email : u = ue[r].id /\ o = user[u].email /\ HasRow(u, o)
      BY <1>t, <2>1, <2>3 DEF Retrieved, FindById, HasRow, TablesOK, UserRow
    <3>2. /\ ue'[r].pc = IF ue[r].op = "request" THEN "checkFree" ELSE "retrieveToken"
          /\ ue'[r].op = ue[r].op /\ ue'[r].id = u /\ ue'[r].old = o
          /\ \A q \in EmailRequest : q # r => ue'[q] = ue[q]
      BY <1>t, <2>1, <2>3, <3>1 DEF EmailHandler
    <3>3. HasRow(u, o)'
      BY <2>1, <3>1, SameTables
    <3>4. EmailSettled(ue[r])'
      BY <2>1, <2>2, <3>2, <3>3 DEF EmailSettled
    <3> QED BY <1>b, <3>2, <3>4
  <2> QED BY <1>0, <1>i, <2>2, <2>3 DEF RetrieveActor
<1>2. CASE RetrieveToken(r)
  <2>1. PICK u \in UserId, o \in Email :
          ue[r].id = u /\ ue[r].old = o /\ ue[r].op = "change" /\ AllSettled /\ HasRow(u, o)
    BY <1>1, <1>2 DEF RetrieveToken, EmailAt, EmailSettled
  <2>2. AllSettled' /\ HasRow(u, o)'
    BY <1>2, <2>1, SameTables DEF RetrieveToken, store, postgres
  <2>3. ASSUME ue' = [ue EXCEPT ![r].pc = "checkFree", ![r].new = token[ue[r].token].email]
        PROVE  SerialInv'
    <3>1. /\ ue'[r].pc = "checkFree" /\ ue'[r].id = u /\ ue'[r].old = o /\ ue'[r].op = "change"
          /\ \A q \in EmailRequest : q # r => ue'[q] = ue[q]
      BY <1>t, <2>1, <2>3 DEF EmailHandler
    <3>2. EmailSettled(ue[r])'
      BY <2>2, <3>1 DEF EmailSettled
    <3> QED BY <1>b, <3>1, <3>2
  <2> QED BY <1>2, <1>i, <2>2, <2>3 DEF RetrieveToken
<1>3. CASE CheckEmailIsFree(r)
  <2>1. AllSettled /\ ue[r].new \in Email /\ UNCHANGED <<user, loginInfo, passwordInfo>>
    BY <1>1, <1>t, <1>3 DEF CheckEmailIsFree, EmailAt, EmailSettled, EmailReady, store, postgres
  <2>2. PICK n \in Email : n = ue[r].new
    BY <2>1
  <2>3. ASSUME FindByEmail(n) = {}, EmailGoto(r, "findUser") PROVE SerialInv'
    <3>1. IsFree(n)'
      BY <2>1, <2>3, SameTables DEF IsFree
    <3>2. CASE ue[r].op = "request"
      <4>1. ue'[r].pc = "findUser" /\ ue'[r].op = "request" /\ AllSettled'
        BY <1>t, <2>1, <2>3, <3>2, EmailGoes, SameTables
      <4>2. EmailSettled(ue[r])'
        BY <4>1 DEF EmailSettled
      <4> QED BY <1>t, <1>b, <2>3, <4>1, <4>2, EmailGoes
    <3>3. CASE ue[r].op # "request"
      <4>1. PICK u \in UserId, o \in Email :
              ue[r].id = u /\ ue[r].old = o /\ ue[r].op = "change" /\ HasRow(u, o)
        BY <1>1, <1>3, <3>3 DEF CheckEmailIsFree, EmailAt, EmailSettled
      <4>2. /\ ue'[r].pc = "findUser" /\ ue'[r].op = "change" /\ ue'[r].id = u /\ ue'[r].old = o
            /\ ue'[r].new = n
        BY <1>t, <2>2, <2>3, <4>1, EmailGoes
      <4>3. HasRow(u, o)'
        BY <2>1, <4>1, SameTables
      <4>4. EmailSettled(ue[r])'
        BY <3>1, <4>2, <4>3 DEF EmailSettled
      <4> QED BY <1>t, <1>b, <2>3, <4>2, <4>4, EmailGoes
    <3> QED BY <3>2, <3>3
  <2> QED BY <1>3, <1>i, <2>1, <2>2, <2>3, SameTables DEF CheckEmailIsFree
<1>4. CASE EmailFindUser(r)
  <2>1. AllSettled /\ UNCHANGED <<user, loginInfo, passwordInfo>>
    BY <1>1, <1>4 DEF EmailFindUser, EmailAt, EmailSettled, IsFree, store, postgres
  <2>2. ASSUME ue[r].op = "request", EmailGoto(r, "saveToken") PROVE SerialInv'
    <3>1. ue'[r].pc = "saveToken" /\ AllSettled'
      BY <1>t, <2>1, <2>2, EmailGoes, SameTables
    <3>2. EmailSettled(ue[r])'
      BY <3>1 DEF EmailSettled
    <3> QED BY <1>t, <1>b, <2>2, <3>1, <3>2, EmailGoes
  <2>3. ASSUME ue[r].op # "request", EmailGoto(r, "readRow") PROVE SerialInv'
    <3>1. PICK u \in UserId, o \in Email, n \in Email :
            /\ ue[r].id = u /\ ue[r].old = o /\ ue[r].new = n /\ ue[r].op = "change"
            /\ IsFree(n) /\ HasRow(u, o)
      BY <1>1, <1>4, <2>3 DEF EmailFindUser, EmailAt, EmailSettled
    <3>2. /\ ue'[r].pc = "readRow" /\ ue'[r].op = "change" /\ ue'[r].id = u /\ ue'[r].old = o
          /\ ue'[r].new = n
      BY <1>t, <2>3, <3>1, EmailGoes
    <3>3. IsFree(n)' /\ HasRow(u, o)'
      BY <2>1, <3>1, SameTables
    <3>4. EmailSettled(ue[r])'
      BY <3>2, <3>3 DEF EmailSettled
    <3> QED BY <1>t, <1>b, <2>3, <3>2, <3>4, EmailGoes
  <2> QED BY <1>4, <1>i, <2>1, <2>2, <2>3, SameTables DEF EmailFindUser
(* The calls about the token.                                                  *)
<1>5. ASSUME ue[r].pc \in {"saveToken", "expireToken", "mail", "deleteToken"},
             UNCHANGED <<user, loginInfo, passwordInfo>>
      PROVE  AllSettled'
  BY <1>1, <1>5, SameTables DEF EmailSettled
<1>6. ASSUME ue'[r].pc \in {"expireToken", "mail", "deleteToken"}, AllSettled',
             \A q \in EmailRequest : q # r => ue'[q] = ue[q]
      PROVE  SerialInv'
  <2>1. EmailSettled(ue[r])'
    BY <1>6 DEF EmailSettled
  <2> QED BY <1>b, <1>6, <2>1
<1>7. CASE SaveEmailToken(r)
  <2>1. ue'[r].pc = "expireToken" /\ \A q \in EmailRequest : q # r => ue'[q] = ue[q]
    BY <1>7, <1>t DEF SaveEmailToken, EmailHandler
  <2> QED BY <1>5, <1>6, <1>7, <2>1 DEF SaveEmailToken, EmailAt, postgres
<1>8. CASE ExpireEmailToken(r)
  BY <1>5, <1>6, <1>8, <1>t, EmailGoes DEF ExpireEmailToken, EmailAt, postgres
<1>9. CASE SendEmailMail(r) \/ DeleteEmailToken(r)
  BY <1>5, <1>i, <1>9 DEF SendEmailMail, DeleteEmailToken, EmailAt, postgres
(* The calls that move the account.                                            *)
<1>10. CASE ReadRow(r)
  <2>1. PICK u \in UserId, o \in Email, n \in Email :
          /\ ue[r].id = u /\ ue[r].old = o /\ ue[r].new = n /\ ue[r].op = "change"
          /\ IsFree(n) /\ HasRow(u, o)
    BY <1>1, <1>10 DEF ReadRow, EmailAt, EmailSettled
  <2>2. ue' = [ue EXCEPT ![r].pc = "writeRow", ![r].active = user[u].active]
    BY <1>10, <2>1, NilAssumption DEF ReadRow, FindById, HasRow
  <2>3. /\ ue'[r].pc = "writeRow" /\ ue'[r].op = "change" /\ ue'[r].id = u /\ ue'[r].old = o
        /\ ue'[r].new = n /\ \A q \in EmailRequest : q # r => ue'[q] = ue[q]
    BY <1>t, <2>1, <2>2 DEF EmailHandler
  <2>4. IsFree(n)' /\ HasRow(u, o)'
    BY <1>10, <2>1, SameTables DEF ReadRow, store, postgres
  <2>5. EmailSettled(ue[r])'
    BY <2>3, <2>4 DEF EmailSettled
  <2> QED BY <1>b, <2>3, <2>5
<1>11. CASE WriteRow(r)
  <2>1. PICK u \in UserId, o \in Email, n \in Email :
          /\ ue[r].id = u /\ ue[r].old = o /\ ue[r].new = n /\ ue[r].op = "change"
          /\ IsFree(n) /\ HasRow(u, o)
    BY <1>1, <1>11 DEF WriteRow, EmailAt, EmailSettled
  <2>2. user' = [user EXCEPT ![u] = [row |-> "live", email |-> n, active |-> ue[r].active]]
    BY <1>11, <2>1 DEF WriteRow, HasRow, IsLive, Exists
  <2>3. RowMoved(u, o, n)'
    BY <1>11, <1>t, <2>1, <2>2, MovingRow DEF WriteRow, TablesOK, redis
  <2>4. /\ ue'[r].pc = "readLogin" /\ ue'[r].op = "change" /\ ue'[r].id = u /\ ue'[r].old = o
        /\ ue'[r].new = n /\ \A q \in EmailRequest : q # r => ue'[q] = ue[q]
    BY <1>11, <1>t, <2>1, EmailGoes DEF WriteRow
  <2>5. EmailSettled(ue[r])'
    BY <2>3, <2>4 DEF EmailSettled
  <2> QED BY <1>b, <2>4, <2>5
<1>12. CASE ReadLogin(r)
  <2>1. PICK u \in UserId, o \in Email, n \in Email :
          /\ ue[r].id = u /\ ue[r].old = o /\ ue[r].new = n /\ ue[r].op = "change"
          /\ RowMoved(u, o, n)
    BY <1>1, <1>12 DEF ReadLogin, EmailAt, EmailSettled
  <2>2. loginInfo[o] = u /\ u # Nil
    BY <2>1, NilAssumption DEF RowMoved, LoginsOf
  <2>3. ue' = [ue EXCEPT ![r].pc = "writeLogin", ![r].login = u]
    BY <1>12, <2>1, <2>2 DEF ReadLogin
  <2>4. /\ ue'[r].pc = "writeLogin" /\ ue'[r].op = "change" /\ ue'[r].id = u /\ ue'[r].old = o
        /\ ue'[r].new = n /\ ue'[r].login = u /\ \A q \in EmailRequest : q # r => ue'[q] = ue[q]
    BY <1>t, <2>1, <2>3 DEF EmailHandler
  <2>5. RowMoved(u, o, n)'
    BY <1>12, <2>1, SameTables DEF ReadLogin, store, postgres
  <2>6. EmailSettled(ue[r])'
    BY <2>4, <2>5 DEF EmailSettled
  <2> QED BY <1>b, <2>4, <2>6
<1>13. CASE WriteLogin(r)
  <2>1. PICK u \in UserId, o \in Email, n \in Email :
          /\ ue[r].id = u /\ ue[r].old = o /\ ue[r].new = n /\ ue[r].op = "change"
          /\ ue[r].login = u /\ RowMoved(u, o, n)
    BY <1>1, <1>13 DEF WriteLogin, EmailAt, EmailSettled
  <2>2. loginInfo[o] = u /\ u # Nil /\ loginInfo[n] = Nil /\ Exists(u)
    BY <2>1, NilAssumption DEF RowMoved, LoginsOf, HasRow, IsLive, Exists
  <2>3. loginInfo' = [loginInfo EXCEPT ![o] = Nil, ![n] = u] /\ EmailGoto(r, "readPassword")
    BY <1>13, <2>1, <2>2 DEF WriteLogin
  <2>4. LoginMoved(u, o, n)'
    BY <1>13, <1>t, <2>1, <2>3, MovingLogin DEF WriteLogin, redis
  <2>5. /\ ue'[r].pc = "readPassword" /\ ue'[r].op = "change" /\ ue'[r].id = u /\ ue'[r].old = o
        /\ ue'[r].new = n /\ \A q \in EmailRequest : q # r => ue'[q] = ue[q]
    BY <1>t, <2>1, <2>3, EmailGoes
  <2>6. EmailSettled(ue[r])'
    BY <2>4, <2>5 DEF EmailSettled
  <2> QED BY <1>b, <2>5, <2>6
<1>14. CASE ReadPassword(r)
  <2>1. PICK u \in UserId, o \in Email, n \in Email :
          /\ ue[r].id = u /\ ue[r].old = o /\ ue[r].new = n /\ ue[r].op = "change"
          /\ LoginMoved(u, o, n)
    BY <1>1, <1>14 DEF ReadPassword, EmailAt, EmailSettled
  <2>2. ue' = [ue EXCEPT ![r].pc = "addPassword", ![r].password = passwordInfo[o]]
    BY <1>14, <1>t, <2>1 DEF ReadPassword, LoginMoved
  <2>3. /\ ue'[r].pc = "addPassword" /\ ue'[r].op = "change" /\ ue'[r].id = u /\ ue'[r].old = o
        /\ ue'[r].new = n /\ \A q \in EmailRequest : q # r => ue'[q] = ue[q]
    BY <1>t, <2>1, <2>2 DEF EmailHandler
  <2>4. LoginMoved(u, o, n)'
    BY <1>14, <2>1, SameTables DEF ReadPassword, store, postgres
  <2>5. EmailSettled(ue[r])'
    BY <2>3, <2>4 DEF EmailSettled
  <2> QED BY <1>b, <2>3, <2>5
<1>15. CASE MovePassword(r)
  <2>1. PICK u \in UserId, o \in Email, n \in Email :
          /\ ue[r].id = u /\ ue[r].old = o /\ ue[r].new = n /\ ue[r].op = "change"
          /\ LoginMoved(u, o, n)
    BY <1>1, <1>15 DEF MovePassword, EmailAt, EmailSettled
  <2>2. ue[r].password \in Password
    BY <1>15, <1>t DEF MovePassword, EmailAt, EmailReady
  <2>3. passwordInfo' = [passwordInfo EXCEPT ![n] = ue[r].password]
    BY <1>15, <1>t, <2>1 DEF MovePassword
  <2>4. PasswordMoved(o)'
    BY <1>15, <1>t, <2>1, <2>2, <2>3, MovingPassword DEF MovePassword, postgres
  <2>5. /\ ue'[r].pc = "removePassword" /\ ue'[r].op = "change" /\ ue'[r].id = u /\ ue'[r].old = o
        /\ ue'[r].new = n /\ \A q \in EmailRequest : q # r => ue'[q] = ue[q]
    BY <1>15, <1>t, <2>1, EmailGoes DEF MovePassword
  <2>6. EmailSettled(ue[r])'
    BY <2>4, <2>5 DEF EmailSettled
  <2> QED BY <1>b, <2>5, <2>6
<1>16. CASE RemovePassword(r)
  <2>1. PICK o \in Email : ue[r].old = o /\ PasswordMoved(o)
    BY <1>1, <1>16 DEF RemovePassword, EmailAt, EmailSettled
  <2>2. passwordInfo' = [passwordInfo EXCEPT ![o] = Nil]
    BY <1>16, <1>t, <2>1 DEF RemovePassword
  <2>3. AllSettled'
    BY <1>16, <1>t, <2>1, <2>2, RemovingPassword DEF RemovePassword, postgres
  <2> QED BY <1>6, <1>16, <1>t, <2>3, EmailGoes DEF RemovePassword
<1> QED BY <1>0, <1>2, <1>3, <1>4, <1>7, <1>8, <1>9, <1>10, <1>11, <1>12, <1>13, <1>14, <1>15, <1>16
        DEF EmailStep
-----------------------------------------------------------------------------
(* A step that writes no table the invariant reads, and serves nobody.         *)
LEMMA RestSerial ==
    ASSUME SerialInv, UNCHANGED <<user, loginInfo, passwordInfo, su, li, ue, fp>>,
           UNCHANGED swallowing
    PROVE  SerialInv'
<1>1. /\ AllSettled => AllSettled'
      /\ \A e : FindByEmail(e)' = FindByEmail(e)
      /\ \A e : IsFree(e) => IsFree(e)'
      /\ \A u, e : HasRow(u, e) => HasRow(u, e)'
      /\ \A u, o, n : RowMoved(u, o, n) => RowMoved(u, o, n)'
      /\ \A u, o, n : LoginMoved(u, o, n) => LoginMoved(u, o, n)'
  BY SameTables
<1>2. \A u, e : RowWritten(u, e) => RowWritten(u, e)'
  BY DEF RowWritten, Settled, NoPasswordBut, Opens, IsLive, HasRow, LoginsOf
<1>3. \A u, e : LoginWritten(u, e) => LoginWritten(u, e)'
  BY DEF LoginWritten, Settled, NoPasswordBut, Opens, IsLive, HasRow, LoginsOf
<1>4. \A o : PasswordMoved(o) => PasswordMoved(o)'
  BY DEF PasswordMoved, Settled, NoPasswordBut, Opens, IsLive
<1>5. /\ SignUpRests => SignUpRests'
      /\ LogInRests => LogInRests'
      /\ EmailsRest => EmailsRest'
      /\ ForgotsRest => ForgotsRest'
  BY DEF SignUpRests, LogInRests, EmailsRest, ForgotsRest
<1>6. ASSUME NEW r \in SignUpRequest, SignUpServed(r) PROVE SignUpServed(r)'
  <2>1. SignUpSettled(su[r])'
    BY <1>1, <1>2, <1>3, <1>6 DEF SignUpServed, SignUpSettled
  <2> QED BY <1>5, <1>6, <2>1 DEF SignUpServed
<1>7. ASSUME NEW r \in LogInRequest, LogInServed(r) PROVE LogInServed(r)'
  BY <1>1, <1>5, <1>7 DEF LogInServed
<1>8. ASSUME NEW r \in EmailRequest, EmailServed(r) PROVE EmailServed(r)'
  <2>1. EmailSettled(ue[r])'
    BY <1>1, <1>4, <1>8 DEF EmailServed, EmailSettled
  <2> QED BY <1>5, <1>8, <2>1 DEF EmailServed
<1>9. ASSUME NEW r \in ForgotRequest, ForgotServed(r) PROVE ForgotServed(r)'
  <2>1. ForgotSettled(fp[r])'
    BY <1>1, <1>9 DEF ForgotServed, ForgotSettled
  <2> QED BY <1>5, <1>9, <2>1 DEF ForgotServed
<1>10. NobodyServed => NobodyServed'
  BY <1>1, <1>5 DEF NobodyServed
<1> QED BY <1>6, <1>7, <1>8, <1>9, <1>10 DEF SerialInv

LEMMA SerialStep ==
    ASSUME Serially
    PROVE  TypesInv /\ SerialInv /\ [AccountsNext]_accountsVars => SerialInv'
<1> SUFFICES ASSUME TypesInv, SerialInv, [AccountsNext]_accountsVars PROVE SerialInv'
  OBVIOUS
<1>1. UNCHANGED swallowing
  BY SerialFlows
<1>2. CASE UNCHANGED <<user, loginInfo, passwordInfo, su, li, ue, fp>>
  BY <1>1, <1>2, RestSerial
<1>3. ASSUME NEW r \in SignUpRequest, SignUpStep(r), OnlySignUp PROVE SerialInv'
  BY <1>1, <1>3, SignUpSerial
<1>4. ASSUME NEW r \in LogInRequest, LogInStep(r), OnlyLogIn PROVE SerialInv'
  BY <1>1, <1>4, LogInSerial
<1>5. ASSUME NEW r \in EmailRequest, EmailStep(r), OnlyEmail PROVE SerialInv'
  BY <1>1, <1>5, EmailSerial
<1>6. ASSUME NEW r \in ForgotRequest, ForgotStep(r), OnlyForgot PROVE SerialInv'
  BY <1>1, <1>6, ForgotSerial
<1>7. ASSUME SignUpRests, LogInRests, EmailsRest, ForgotsRest PROVE NobodyServed
  BY <1>7 DEF SerialInv, SignUpServed, LogInServed, EmailServed, ForgotServed, SignUpRests,
     LogInRests, EmailsRest, ForgotsRest
<1>8. ASSUME NobodyServed, NEW r \in SignUpRequest, SignUpArrives(r), OnlySignUp PROVE SerialInv'
  BY <1>1, <1>8, SignUpArrivesSerial
<1>9. ASSUME NobodyServed, NEW r \in LogInRequest, LogInArrives(r), OnlyLogIn PROVE SerialInv'
  BY <1>1, <1>9, LogInSerial
<1>10. ASSUME NobodyServed, NEW r \in EmailRequest, EmailArrives(r), OnlyEmail PROVE SerialInv'
  BY <1>1, <1>10, EmailArrivesSerial
<1>11. ASSUME NobodyServed, NEW r \in ForgotRequest, ForgotArrives(r), OnlyForgot PROVE SerialInv'
  BY <1>1, <1>11, ForgotSerial
<1> QED BY <1>2, <1>3, <1>4, <1>5, <1>6, <1>7, <1>8, <1>9, <1>10, <1>11, SerialFlows

LEMMA SerialHolds ==
    ASSUME Serially
    PROVE  AccountsSpec => []SerialInv
<1>1. TypesInv /\ SerialInv /\ [AccountsNext]_accountsVars => SerialInv'
  BY SerialStep
<1>2. AccountsInit => SerialInv
  BY SerialInit
<1> QED BY <1>1, <1>2, TypesInit, TypesStep, PTL DEF AccountsSpec

(* Between two requests everything is settled: the other cases of the invariant *)
(* have a handler at work.                                                     *)
LEMMA SettledWhenIdle ==
    ASSUME Serially, SerialInv, Busy = 0
    PROVE  AllSettled
<1>1. SignUpRests /\ LogInRests /\ EmailsRest /\ ForgotsRest
  BY BusyCounts
<1> QED BY <1>1 DEF SerialInv, NobodyServed, SignUpServed, LogInServed, EmailServed, ForgotServed,
           SignUpRests, LogInRests, EmailsRest, ForgotsRest

(* Served one at a time and without failures, requests leave every live user   *)
(* able to sign in: each flow writes the row, the login info and the password  *)
(* in step (AccountService.save, UpdateEmailService.updateEmail).              *)
THEOREM OpensServedOneByOne ==
    ASSUME Serially
    PROVE  AccountsSpec => []EveryAccountOpens
<1>1. SerialInv => EveryAccountOpens
  <2> SUFFICES ASSUME SerialInv, Busy = 0, NEW u \in UserId, IsLive(u)
               PROVE  /\ user[u].email # Nil
                      /\ loginInfo[user[u].email] = u
                      /\ passwordInfo[user[u].email] # Nil
    BY DEF EveryAccountOpens
  <2>1. AllSettled
    BY SettledWhenIdle
  <2>2. Opens(u)
    BY <2>1 DEF AllSettled, Settled
  <2> QED BY <2>2, NilAssumption DEF Opens
<1> QED BY <1>1, SerialHolds, PTL

(* ... and no password behind for an address without a login info: a change of *)
(* address removes the old one last (UpdateEmailService.updatePasswordInfo).   *)
THEOREM NoPasswordLeftServedOneByOne ==
    ASSUME Serially
    PROVE  AccountsSpec => []NoPasswordLeftBehind
<1>1. SerialInv => NoPasswordLeftBehind
  <2> SUFFICES ASSUME SerialInv, Busy = 0
               PROVE  \A e \in Email : passwordInfo[e] # Nil => loginInfo[e] # Nil
    BY DEF NoPasswordLeftBehind
  <2>1. AllSettled
    BY SettledWhenIdle
  <2> QED BY <2>1 DEF AllSettled, NoPasswordBut
<1> QED BY <1>1, SerialHolds, PTL

-----------------------------------------------------------------------------
(* What one flow that is cut short, or errors taken for success, can break.    *)
(* A change of address writes the row, the login info, the password in this    *)
(* order, a sign-up too.  While every flow goes on to its end, even if a       *)
(* password gets lost, a login info names the address of its user (Aligned);   *)
(* while no write is lost, it has a password (Backed).  In the middle of a     *)
(* request one of the two may fail for one address, never both.                *)
NoneGone == \A u \in UserId : user[u].row \in {"never", "live"}

LoginsAdded == \A e \in Email : loginInfo[e] # Nil => Added(loginInfo[e])

(* One handler at work at most, of those that write rows or login infos.       *)
Alone ==
    /\ \A r, q \in SignUpRequest : su[r].pc # "idle" /\ su[q].pc # "idle" => r = q
    /\ \A r, q \in EmailRequest : ue[r].pc # "idle" /\ ue[q].pc # "idle" => r = q
    /\ SignUpRests \/ EmailsRest
    /\ SignUpRests \/ DeletesRest
    /\ EmailsRest \/ DeletesRest

BeforeRow   == {"retrieveToken", "checkFree", "findUser", "readRow", "writeRow"}
RowAhead    == {"readLogin", "writeLogin"}
LoginAhead  == {"readPassword", "addPassword"}

(* A change of address is made for the user that asks, and to an address that  *)
(* nobody has.                                                                 *)
HoldsRow(h) ==
    /\ h.pc = "retrieveUser" => h.login = h.id
    /\ h.pc \in BeforeRow => IsLive(h.id) /\ user[h.id].email = h.old
    /\ h.pc \in {"findUser", "readRow", "writeRow"} => FindByEmail(h.new) = {}
    /\ h.pc \in RowAhead \cup LoginAhead \cup {"removePassword"} => h.old # h.new

Paired(h) ==
    /\ h.pc = "retrieveUser" => loginInfo[user[h.id].email] = h.id
    /\ h.pc \in BeforeRow \cup RowAhead => loginInfo[h.old] = h.id
    /\ h.pc \in RowAhead => user[h.id].email = h.new /\ loginInfo[h.new] = Nil
    /\ h.pc = "writeLogin" => h.login = h.id

Aligned ==
    /\ \A e \in Email : loginInfo[e] # Nil =>
         \/ user[loginInfo[e]].email = e
         \/ \E r \in EmailRequest : ue[r].pc \in RowAhead /\ ue[r].old = e
    /\ \A r \in EmailRequest : Paired(ue[r])
    /\ \A r \in SignUpRequest : su[r].pc = "addLogin" => user[su[r].user].email = su[r].email

Carries(h) ==
    /\ h.pc = "writeLogin" => loginInfo[h.old] # Nil
    /\ h.pc \in LoginAhead \cup {"removePassword"} => loginInfo[h.old] = Nil
    /\ h.pc = "readPassword" => passwordInfo[h.old] # Nil

Backed ==
    /\ \A e \in Email : loginInfo[e] # Nil =>
         \/ passwordInfo[e] # Nil
         \/ \E r \in SignUpRequest : su[r].pc = "addPassword" /\ su[r].email = e
         \/ \E r \in EmailRequest : ue[r].pc \in LoginAhead /\ ue[r].new = e
    /\ \A r \in EmailRequest : Carries(ue[r])

UsableInv ==
    /\ Alone /\ LoginsAdded
    /\ \A r \in EmailRequest : HoldsRow(ue[r])
    /\ swallowing => failures = 0
    /\ NoneGone => /\ failures = 0 => Aligned
                   /\ failures = 0 /\ ~swallowing => Backed
                   /\ Aligned \/ (Backed /\ ~swallowing)

CutShortOnce == MaxBusy = 1 /\ MaxFailures \in {0, 1} /\ Admin = {}

LEMMA UsableInit == AccountsInit => UsableInv
BY DEF AccountsInit, SignUpInit, StoreInit, EmailInit, DeleteInit, UsableInv, Alone, LoginsAdded,
   HoldsRow, Aligned, Backed, Paired, Carries, SignUpRests, EmailsRest, DeletesRest, Idle,
   EmailIdle, DeleteIdle, BeforeRow, RowAhead, LoginAhead

(* What the calls of each flow do to the tables.                               *)
PasswordsKept == \A e \in Email : passwordInfo[e] # Nil => passwordInfo'[e] # Nil

LEMMA SignUpRows ==
    ASSUME SignUpTypeOK, NEW r \in SignUpRequest, SignUpStep(r)
    PROVE  /\ \/ UNCHANGED user
              \/ su[r].pc \in {"addUser", "activate"} /\ UNCHANGED <<loginInfo, passwordInfo>>
           /\ \A u \in UserId : Added(u) => Added(u)' /\ user'[u].email = user[u].email
           /\ NoneGone' => NoneGone
<1>t. user \in [UserId -> UserRow]
  BY DEF SignUpTypeOK, StoreTypeOK
<1>1. CASE AddUser(r)
  <2>1. PICK v \in UserId : user[v].row = "never" /\ user' = UserAdded(v, su[r].email)
    BY <1>1 DEF AddUser
  <2>2. \A u \in UserId : u # v => user'[u] = user[u]
    BY <1>t, <2>1 DEF UserAdded
  <2>3. ~Added(v) /\ Added(v)'
    BY <1>t, <2>1 DEF UserAdded, Added
  <2>4. NoneGone' => NoneGone
    BY <2>1, <2>2 DEF NoneGone
  <2> QED BY <1>1, <2>2, <2>3, <2>4 DEF AddUser, At, Added, redis
<1>2. CASE Activate(r)
  <2>1. \A u \in UserId : user'[u].row = user[u].row /\ user'[u].email = user[u].email
    BY <1>2, <1>t DEF Activate, ActiveUpdated, UserRow
  <2> QED BY <1>2, <2>1 DEF Activate, At, Added, NoneGone, redis
<1>3. CASE UNCHANGED user
  BY <1>3 DEF Added, NoneGone
<1> QED
  BY <1>1, <1>2, <1>3
  DEF SignUpStep, Retrieve, RetrieveUser, AddLogin, AddPassword, MailLookup, SaveToken,
      ExpireToken, SendMail, OpenSession, CountActive, Grant, store, postgres, redis

LEMMA DeleteTables ==
    ASSUME TypesInv, NEW r \in DeleteRequest, DeleteStep(r)
    PROVE  /\ \A u \in UserId : (Added(u) => Added(u)') /\ user'[u].email = user[u].email
           /\ NoneGone' => NoneGone
           /\ \A e \in Email : loginInfo'[e] \in {loginInfo[e], Nil}
           /\ UNCHANGED passwordInfo
           /\ dl[r].pc # "idle" /\ \A q \in DeleteRequest : q # r => dl'[q] = dl[q]
<1>t. user \in [UserId -> UserRow] /\ dl \in [DeleteRequest -> DeleteHandler]
  BY DEF TypesInv, SignUpTypeOK, StoreTypeOK, DeleteTypeOK
<1>1. CASE Archive(r)
  <2>1. \A u \in UserId : user'[u].email = user[u].email /\ user'[u].row \in {user[u].row, "deleted"}
    BY <1>1, <1>t DEF Archive, UserRow
  <2> QED BY <1>1, <1>t, <2>1 DEF Archive, DeleteAt, DeleteAnswer, Added, NoneGone, redis
<1>2. CASE DeleteLogins(r)
  BY <1>2, <1>t DEF DeleteLogins, DeleteAt, Added, NoneGone, redis
<1>3. CASE Purge(r)
  <2>1. \A u \in UserId : user'[u].email = user[u].email /\ user'[u].row \in {user[u].row, "purged"}
    <3>1. CASE IsReferenced(dl[r].user)
      BY <1>3, <1>t, <3>1 DEF Purge, UserRow
    <3>2. CASE ~IsReferenced(dl[r].user)
      BY <1>3, <1>t, <3>2 DEF Purge, UserRow
    <3> QED BY <3>1, <3>2
  <2> QED BY <1>3, <1>t, <2>1 DEF Purge, DeleteAt, DeleteAnswer, Added, NoneGone, redis
<1> QED BY <1>1, <1>2, <1>3 DEF DeleteStep

LEMMA ForgotTables ==
    ASSUME TypesInv, NEW r \in ForgotRequest, ForgotArrives(r) \/ ForgotStep(r)
    PROVE  UNCHANGED <<user, loginInfo>> /\ PasswordsKept
<1>1. CASE SetPassword(r)
  <2>1. fp[r].password \in Password
    BY <1>1 DEF SetPassword, ForgotAt, TypesInv, ForgotTypes, ForgotReady
  <2>2. passwordInfo \in [Email -> Password \cup {Nil}]
    BY DEF TypesInv, SignUpTypeOK, StoreTypeOK
  <2>3. \A e \in Email : passwordInfo'[e] \in {passwordInfo[e], fp[r].password}
    BY <1>1, <2>2 DEF SetPassword
  <2> QED BY <1>1, <2>1, <2>3, NilAssumption DEF SetPassword, PasswordsKept, postgres
<1>2. CASE ForgotArrives(r)
  BY <1>2 DEF ForgotArrives, AskNewPassword, ChangePassword, PasswordsKept, store, postgres
<1>3. CASE SaveForgotToken(r) \/ ExpireForgotToken(r) \/ SendForgotMail(r) \/ DropToken(r)
  BY <1>3 DEF SaveForgotToken, ExpireForgotToken, SendForgotMail, DropToken, PasswordsKept, postgres
<1>4. CASE ForgotFindUser(r)
  BY <1>4 DEF ForgotFindUser, PasswordsKept, store, postgres
<1> QED BY <1>1, <1>2, <1>3, <1>4 DEF ForgotStep

LEMMA LogInTables ==
    ASSUME NEW r \in LogInRequest, LogInArrives(r) \/ LogInStep(r)
    PROVE  UNCHANGED <<user, loginInfo>> /\ PasswordsKept
BY DEF LogInArrives, LogInStep, Authenticate, LogOut, RetrieveLogin, RetrieveOwner, InitSession,
   CloseSession, PasswordsKept, store, postgres

(* The steps, when one request is served at a time.                            *)
FlowsRest == SignUpRests /\ EmailsRest /\ DeletesRest

LEMMA StepsInTurn ==
    ASSUME MaxBusy = 1, TypesInv, [AccountsNext]_accountsVars
    PROVE  \/ Failure
           \/ /\ UNCHANGED <<failures, swallowing>>
              /\ \/ UNCHANGED <<user, loginInfo, su, ue, dl>> /\ PasswordsKept
                 \/ \E r \in SignUpRequest : SignUpStep(r) /\ UNCHANGED <<ue, dl>>
                 \/ \E r \in EmailRequest : EmailStep(r) /\ UNCHANGED <<su, dl>>
                 \/ \E r \in DeleteRequest : DeleteStep(r) /\ UNCHANGED <<su, ue>>
                 \/ /\ FlowsRest
                    /\ \/ \E r \in SignUpRequest : SignUpArrives(r) /\ UNCHANGED <<ue, dl>>
                       \/ \E r \in EmailRequest : EmailArrives(r) /\ UNCHANGED <<su, dl>>
                       \/ \E r \in DeleteRequest : DeleteArrives(r) /\ UNCHANGED <<su, ue>>
<1>1. CASE Arrival
  <2>1. FlowsRest
    <3>1. Busy < 1
      BY <1>1 DEF Arrival
    <3> QED BY <3>1, BusyCounts DEF FlowsRest
  <2> QED BY <1>1, <2>1, ForgotTables, LogInTables
          DEF Arrival, OnlySignUp, OnlyLogIn, OnlyEmail, OnlyForgot, OnlyDelete
<1>2. CASE Call
  <2>1. ASSUME NEW r \in LogInRequest, LogInCall(r)
        PROVE  UNCHANGED <<user, loginInfo, su, ue, dl, failures, swallowing>> /\ PasswordsKept
    BY <2>1, LogInTables DEF LogInCall, OnlyLogIn
  <2>2. ASSUME NEW r \in ForgotRequest, ForgotCall(r)
        PROVE  UNCHANGED <<user, loginInfo, su, ue, dl, failures, swallowing>> /\ PasswordsKept
    BY <2>2, ForgotTables DEF ForgotCall, OnlyForgot
  <2> QED BY <1>2, <2>1, <2>2
          DEF Call, SignUpCall, EmailCall, DeleteCall, OnlySignUp, OnlyEmail, OnlyDelete
<1>3. CASE Expiry
  BY <1>3 DEF Expiry, TokenExpires, SessionExpires, PasswordsKept, postgres
<1>4. CASE UNCHANGED accountsVars
  BY <1>4 DEF accountsVars, store, PasswordsKept
<1> QED BY <1>1, <1>2, <1>3, <1>4 DEF AccountsNext

(* A change of address, call by call: where the handler goes, what it keeps,   *)
(* and what the call wrote.                                                    *)
KeepsAddress(r) == ue'[r].id = ue[r].id /\ ue'[r].old = ue[r].old /\ ue'[r].new = ue[r].new

LoginFits(h) == /\ loginInfo[h.old] # Nil /\ Exists(h.login)
                /\ h.new = h.old \/ loginInfo[h.new] = Nil

NothingWritten == UNCHANGED <<user, loginInfo, passwordInfo>>

EmailReads(r) ==
    /\ NothingWritten
    /\ \/ /\ ue[r].pc \in (BeforeRow \ {"writeRow"}) \cup {"retrieveUser", "saveToken", "expireToken",
                                                         "mail", "deleteToken"}
          /\ ue'[r].pc \in {"idle", "saveToken", "expireToken", "mail"}
       \/ /\ ue[r].pc = "retrieveUser" /\ ue'[r].pc \in {"checkFree", "retrieveToken"}
          /\ IsLive(ue[r].login) /\ ue'[r].id = ue[r].id /\ ue'[r].old = user[ue[r].login].email
       \/ /\ ue[r].pc = "retrieveToken" /\ ue'[r].pc = "checkFree"
          /\ ue'[r].id = ue[r].id /\ ue'[r].old = ue[r].old
       \/ /\ ue[r].pc = "checkFree" /\ ue'[r].pc = "findUser"
          /\ KeepsAddress(r) /\ FindByEmail(ue[r].new) = {}
       \/ ue[r].pc = "findUser" /\ ue'[r].pc = "readRow" /\ KeepsAddress(r)
       \/ ue[r].pc = "readRow" /\ ue'[r].pc = "writeRow" /\ KeepsAddress(r)
       \/ ue[r].pc = "readLogin" /\ ue'[r].pc = "idle" /\ loginInfo[ue[r].old] = Nil
       \/ /\ ue[r].pc = "readLogin" /\ ue'[r].pc = "writeLogin" /\ loginInfo[ue[r].old] # Nil
          /\ KeepsAddress(r) /\ ue'[r].login = loginInfo[ue[r].old]
       \/ /\ ue[r].pc = "writeLogin" /\ ~LoginFits(ue[r])
          /\ \/ ue'[r].pc = "idle"
             \/ ue'[r].pc = "readPassword" /\ loginInfo[ue[r].old] = Nil /\ KeepsAddress(r)
       \/ /\ ue[r].pc = "readPassword" /\ ue'[r].pc = "idle"
          /\ passwordInfo[ue[r].old] = Nil \/ swallowing
       \/ ue[r].pc = "readPassword" /\ ue'[r].pc = "addPassword" /\ KeepsAddress(r)

EmailWrites(r) ==
    \/ /\ ue[r].pc = "writeRow" /\ ue'[r].pc = "readLogin" /\ KeepsAddress(r)
       /\ WriteRow(r) /\ UNCHANGED <<loginInfo, passwordInfo>>
    \/ /\ ue[r].pc = "writeLogin" /\ ue'[r].pc = "readPassword" /\ KeepsAddress(r)
       /\ LoginFits(ue[r]) /\ UNCHANGED <<user, passwordInfo>>
       /\ loginInfo' = [loginInfo EXCEPT ![ue[r].old] = Nil, ![ue[r].new] = ue[r].login]
    \/ /\ ue[r].pc = "addPassword" /\ ue'[r].pc = "removePassword" /\ KeepsAddress(r)
       /\ UNCHANGED <<user, loginInfo>>
       /\ \/ passwordInfo' = [passwordInfo EXCEPT ![ue[r].new] = ue[r].password]
          \/ swallowing /\ UNCHANGED passwordInfo
    \/ /\ ue[r].pc = "removePassword" /\ ue'[r].pc = "deleteToken" /\ KeepsAddress(r)
       /\ UNCHANGED <<user, loginInfo>>
       /\ \/ passwordInfo' = [passwordInfo EXCEPT ![ue[r].old] = Nil]
          \/ swallowing /\ UNCHANGED passwordInfo

LEMMA EmailMoves ==
    ASSUME EmailTypes, NEW r \in EmailRequest, EmailStep(r)
    PROVE  /\ ue[r].pc # "idle" /\ \A q \in EmailRequest : q # r => ue'[q] = ue[q]
           /\ EmailReads(r) \/ EmailWrites(r)
<1>t. ue \in [EmailRequest -> EmailHandler]
  BY DEF EmailTypes
<1>o. ASSUME NEW h, ue' = [ue EXCEPT ![r] = h] PROVE \A q \in EmailRequest : q # r => ue'[q] = ue[q]
  BY <1>o, <1>t
<1>0. CASE RetrieveActor(r)
  <2> DEFINE h == [ue[r] EXCEPT !.pc = IF ue[r].op = "request" THEN "checkFree" ELSE "retrieveToken",
                                !.old = user[ue[r].login].email, !.login = Nil]
  <2>1. ue[r].pc = "retrieveUser" /\ NothingWritten
    BY <1>0 DEF RetrieveActor, EmailAt, NothingWritten, store, postgres
  <2>2. EmailAnswer(r) \/ (IsLive(ue[r].login) /\ ue' = [ue EXCEPT ![r] = h])
    BY <1>0, <1>t DEF RetrieveActor, Retrieved, FindById
  <2>3. /\ h.pc \in {"checkFree", "retrieveToken"} /\ h.id = ue[r].id
        /\ h.old = user[ue[r].login].email
    BY <1>t DEF EmailHandler
  <2>4. ASSUME ue' = [ue EXCEPT ![r] = h]
        PROVE  ue'[r] = h /\ \A q \in EmailRequest : q # r => ue'[q] = ue[q]
    BY <1>t, <2>4
  <2> HIDE DEF h
  <2> QED BY <2>1, <2>2, <2>3, <2>4, EmailEnds DEF EmailReads
<1>1. CASE RetrieveToken(r)
  <2>1. ue[r].pc = "retrieveToken" /\ NothingWritten
    BY <1>1 DEF RetrieveToken, EmailAt, NothingWritten, store, postgres
  <2>2. ASSUME NEW n, ue' = [ue EXCEPT ![r].pc = "checkFree", ![r].new = n]
        PROVE  /\ ue'[r].pc = "checkFree" /\ ue'[r].id = ue[r].id /\ ue'[r].old = ue[r].old
               /\ \A q \in EmailRequest : q # r => ue'[q] = ue[q]
    BY <1>t, <2>2 DEF EmailHandler
  <2> QED BY <1>1, <2>1, <2>2, EmailEnds DEF RetrieveToken, EmailReads, BeforeRow
<1>2. CASE CheckEmailIsFree(r)
  BY <1>2, EmailGoes, EmailEnds
     DEF CheckEmailIsFree, EmailAt, EmailReads, BeforeRow, KeepsAddress, NothingWritten, store, postgres
<1>3. CASE EmailFindUser(r)
  BY <1>3, EmailGoes, EmailEnds
     DEF EmailFindUser, EmailAt, EmailReads, BeforeRow, KeepsAddress, NothingWritten, store, postgres
<1>4. CASE SaveEmailToken(r)
  <2>1. ue'[r].pc = "expireToken" /\ \A q \in EmailRequest : q # r => ue'[q] = ue[q]
    BY <1>4, <1>t DEF SaveEmailToken, EmailHandler
  <2> QED BY <1>4, <2>1 DEF SaveEmailToken, EmailAt, EmailReads, NothingWritten, postgres
<1>5. CASE ExpireEmailToken(r)
  BY <1>5, EmailGoes DEF ExpireEmailToken, EmailAt, EmailReads, NothingWritten, postgres
<1>6. CASE SendEmailMail(r)
  BY <1>6, EmailEnds DEF SendEmailMail, EmailAt, EmailReads, NothingWritten, postgres
<1>7. CASE ReadRow(r)
  <2>1. ASSUME NEW a, ue' = [ue EXCEPT ![r].pc = "writeRow", ![r].active = a]
        PROVE  /\ ue'[r].pc = "writeRow" /\ KeepsAddress(r)
               /\ \A q \in EmailRequest : q # r => ue'[q] = ue[q]
    BY <1>t, <2>1 DEF EmailHandler, KeepsAddress
  <2> QED BY <1>7, <2>1, EmailEnds DEF ReadRow, EmailAt, EmailReads, BeforeRow, NothingWritten, store, postgres
<1>8. CASE WriteRow(r)
  BY <1>8, EmailGoes DEF WriteRow, EmailAt, EmailWrites, KeepsAddress, redis
<1>9. CASE ReadLogin(r)
  <2>1. ASSUME NEW u, ue' = [ue EXCEPT ![r].pc = "writeLogin", ![r].login = u]
        PROVE  /\ ue'[r].pc = "writeLogin" /\ KeepsAddress(r) /\ ue'[r].login = u
               /\ \A q \in EmailRequest : q # r => ue'[q] = ue[q]
    BY <1>t, <2>1 DEF EmailHandler, KeepsAddress
  <2> QED BY <1>9, <2>1, EmailEnds DEF ReadLogin, EmailAt, EmailReads, NothingWritten, store, postgres
<1>10. CASE WriteLogin(r)
  <2>1. ue[r].pc = "writeLogin" /\ UNCHANGED <<user, passwordInfo>>
    BY <1>10 DEF WriteLogin, EmailAt, redis
  <2>2. \/ /\ LoginFits(ue[r]) /\ EmailGoto(r, "readPassword")
           /\ loginInfo' = [loginInfo EXCEPT ![ue[r].old] = Nil, ![ue[r].new] = ue[r].login]
        \/ ~LoginFits(ue[r]) /\ EmailAnswer(r) /\ UNCHANGED loginInfo
        \/ /\ ~LoginFits(ue[r]) /\ loginInfo[ue[r].old] = Nil
           /\ EmailGoto(r, "readPassword") /\ UNCHANGED loginInfo
    BY <1>10 DEF WriteLogin, LoginFits
  <2> QED BY <2>1, <2>2, EmailGoes, EmailEnds DEF EmailReads, EmailWrites, KeepsAddress, NothingWritten
<1>11. CASE ReadPassword(r)
  <2>1. ASSUME NEW p, ue' = [ue EXCEPT ![r].pc = "addPassword", ![r].password = p]
        PROVE  /\ ue'[r].pc = "addPassword" /\ KeepsAddress(r)
               /\ \A q \in EmailRequest : q # r => ue'[q] = ue[q]
    BY <1>t, <2>1 DEF EmailHandler, KeepsAddress
  <2> QED BY <1>11, <2>1, EmailEnds DEF ReadPassword, EmailAt, EmailReads, NothingWritten, store, postgres
<1>12. CASE MovePassword(r)
  BY <1>12, EmailGoes DEF MovePassword, EmailAt, EmailWrites, KeepsAddress, postgres
<1>13. CASE RemovePassword(r)
  BY <1>13, EmailGoes DEF RemovePassword, EmailAt, EmailWrites, KeepsAddress, postgres
<1>14. CASE DeleteEmailToken(r)
  BY <1>14, EmailEnds DEF DeleteEmailToken, EmailAt, EmailReads, NothingWritten, postgres
<1> QED BY <1>0, <1>1, <1>2, <1>3, <1>4, <1>5, <1>6, <1>7, <1>8, <1>9, <1>10, <1>11, <1>12, <1>13, <1>14
        DEF EmailStep

LEMMA RowChanged ==
    ASSUME TypesInv, NEW r \in EmailRequest, WriteRow(r), HoldsRow(ue[r])
    PROVE  /\ ue[r].id \in UserId /\ ue[r].old \in Email /\ ue[r].new \in Email
           /\ ue[r].old # ue[r].new
           /\ IsLive(ue[r].id)
           /\ user'[ue[r].id].row = "live" /\ user'[ue[r].id].email = ue[r].new
           /\ FindByEmail(ue[r].new) = {}
           /\ \A v \in UserId : v # ue[r].id => user'[v] = user[v]
<1>1. /\ ue[r].pc = "writeRow" /\ user \in [UserId -> UserRow]
      /\ ue[r].id \in UserId /\ ue[r].old \in Email /\ ue[r].new \in Email
  BY DEF WriteRow, EmailAt, TypesInv, EmailTypes, EmailReady, SignUpTypeOK, StoreTypeOK
<1>2. /\ IsLive(ue[r].id) /\ user[ue[r].id].email = ue[r].old /\ FindByEmail(ue[r].new) = {}
  BY <1>1 DEF HoldsRow, BeforeRow
<1>3. ue[r].old # ue[r].new
  BY <1>1, <1>2 DEF FindByEmail
<1>4. user' = [user EXCEPT ![ue[r].id] =
                [row |-> "live", email |-> ue[r].new, active |-> ue[r].active]]
  BY <1>2 DEF WriteRow, IsLive, Exists
<1>5. /\ user'[ue[r].id].row = "live" /\ user'[ue[r].id].email = ue[r].new
      /\ \A v \in UserId : v # ue[r].id => user'[v] = user[v]
  BY <1>1, <1>4
<1> QED BY <1>1, <1>2, <1>3, <1>5

(* Nobody is an administrator: a change of address is for whoever asks.        *)
LEMMA ArrivesFor ==
    ASSUME Admin = {}, ue \in [EmailRequest -> EmailHandler],
           NEW r \in EmailRequest, NEW e \in Email, NEW i \in UserId,
           \/ \E n \in Email : UpdateEmailRequest(r, e, i, n)
           \/ \E t \in Token : ChangeEmail(r, e, i, t)
    PROVE  /\ UNCHANGED store /\ loginInfo[e] = i
           /\ ue'[r].pc = "retrieveUser" /\ ue'[r].id = i /\ ue'[r].login = i
           /\ \A q \in EmailRequest : q # r => ue'[q] = ue[q]
<1>1. UNCHANGED store /\ loginInfo[e] = i
  BY DEF UpdateEmailRequest, ChangeEmail, Allowed, Account
<1>2. ASSUME NEW n \in Email, UpdateEmailRequest(r, e, i, n)
      PROVE  /\ ue'[r].pc = "retrieveUser" /\ ue'[r].id = i /\ ue'[r].login = i
             /\ \A q \in EmailRequest : q # r => ue'[q] = ue[q]
  BY <1>1, <1>2 DEF UpdateEmailRequest, Account, EmailIdle
<1>3. ASSUME NEW t \in Token, ChangeEmail(r, e, i, t)
      PROVE  /\ ue'[r].pc = "retrieveUser" /\ ue'[r].id = i /\ ue'[r].login = i
             /\ \A q \in EmailRequest : q # r => ue'[q] = ue[q]
  BY <1>1, <1>3 DEF ChangeEmail, Account, EmailIdle
<1> QED BY <1>1, <1>2, <1>3

(* With one request at a time nobody joins a handler at work.                  *)
LEMMA AloneStep ==
    ASSUME MaxBusy = 1, TypesInv, Alone, [AccountsNext]_accountsVars
    PROVE  Alone'
<1>t. /\ SignUpTypeOK /\ EmailTypes /\ ue \in [EmailRequest -> EmailHandler]
      /\ su \in [SignUpRequest -> Handler] /\ dl \in [DeleteRequest -> DeleteHandler]
  BY DEF TypesInv, SignUpTypeOK, EmailTypes, DeleteTypeOK
<1> USE DEF SignUpRests, EmailsRest, DeletesRest
<1>1. CASE Failure
  <2>1. /\ \A q \in SignUpRequest : su'[q] = su[q] \/ su'[q].pc = "idle"
        /\ \A q \in EmailRequest : ue'[q] = ue[q] \/ ue'[q].pc = "idle"
        /\ \A q \in DeleteRequest : dl'[q] = dl[q] \/ dl'[q].pc = "idle"
    BY <1>1, <1>t DEF Failure, OnlySignUp, OnlyLogIn, OnlyEmail, OnlyForgot, OnlyDelete, Abort,
       EmailAbort, DeleteAbort, Answer, EmailAnswer, DeleteAnswer, Idle, EmailIdle, DeleteIdle
  <2> QED BY <2>1 DEF Alone
<1>2. CASE UNCHANGED <<user, loginInfo, su, ue, dl>>
  BY <1>2 DEF Alone
<1>3. ASSUME NEW r \in SignUpRequest, SignUpStep(r), UNCHANGED <<ue, dl>> PROVE Alone'
  <2>1. su[r].pc # "idle" /\ \A q \in SignUpRequest : q # r => su'[q] = su[q]
    BY <1>3, <1>t, SignUpCalls
  <2> QED BY <1>3, <2>1 DEF Alone
<1>4. ASSUME NEW r \in EmailRequest, EmailStep(r), UNCHANGED <<su, dl>> PROVE Alone'
  <2>1. ue[r].pc # "idle" /\ \A q \in EmailRequest : q # r => ue'[q] = ue[q]
    BY <1>4, <1>t, EmailMoves
  <2> QED BY <1>4, <2>1 DEF Alone
<1>5. ASSUME NEW r \in DeleteRequest, DeleteStep(r), UNCHANGED <<su, ue>> PROVE Alone'
  BY <1>5, DeleteTables DEF Alone
<1>6. ASSUME FlowsRest, NEW r \in SignUpRequest, SignUpArrives(r), UNCHANGED <<ue, dl>> PROVE Alone'
  <2>1. \A q \in SignUpRequest : q # r => su'[q] = su[q]
    BY <1>6, <1>t DEF SignUpArrives, Subscribe, Resend, Confirm
  <2> QED BY <1>6, <2>1 DEF Alone, FlowsRest
<1>7. ASSUME FlowsRest, NEW r \in EmailRequest, EmailArrives(r), UNCHANGED <<su, dl>> PROVE Alone'
  <2>1. \A q \in EmailRequest : q # r => ue'[q] = ue[q]
    BY <1>7, <1>t DEF EmailArrives, UpdateEmailRequest, ChangeEmail
  <2> QED BY <1>7, <2>1 DEF Alone, FlowsRest
<1>8. ASSUME FlowsRest, NEW r \in DeleteRequest, DeleteArrives(r), UNCHANGED <<su, ue>> PROVE Alone'
  BY <1>8 DEF Alone, FlowsRest
<1> QED BY <1>1, <1>2, <1>3, <1>4, <1>5, <1>6, <1>7, <1>8, StepsInTurn

(* What holds in every history: login infos of users that were added, and      *)
(* changes of address made for the user that asks.                             *)
LEMMA HeldStep ==
    ASSUME MaxBusy = 1, Admin = {}, TypesInv, Alone, LoginsAdded, [AccountsNext]_accountsVars,
           \A r \in EmailRequest : HoldsRow(ue[r])
    PROVE  /\ LoginsAdded' /\ \A r \in EmailRequest : HoldsRow(ue[r])'
           /\ NoneGone' => NoneGone
<1>t. /\ SignUpTypeOK /\ EmailTypes /\ ue \in [EmailRequest -> EmailHandler]
      /\ su \in [SignUpRequest -> Handler] /\ dl \in [DeleteRequest -> DeleteHandler]
      /\ user \in [UserId -> UserRow] /\ loginInfo \in [Email -> UserId \cup {Nil}]
  BY DEF TypesInv, SignUpTypeOK, StoreTypeOK, EmailTypes, DeleteTypeOK
<1> USE DEF SignUpRests, EmailsRest, DeletesRest
<1>q. ASSUME NEW q \in EmailRequest, UNCHANGED user, ue'[q] = ue[q] PROVE HoldsRow(ue[q])'
  <2>1. HoldsRow(ue[q])
    OBVIOUS
  <2> QED BY <1>q, <2>1 DEF HoldsRow, IsLive, FindByEmail
<1>i. ASSUME NEW q \in EmailRequest,
             ue'[q].pc \notin BeforeRow \cup RowAhead \cup LoginAhead \cup {"retrieveUser", "removePassword"}
      PROVE  HoldsRow(ue[q])'
  BY <1>i DEF HoldsRow, BeforeRow
<1>u. ASSUME UNCHANGED <<user, loginInfo>> PROVE LoginsAdded' /\ (NoneGone' => NoneGone)
  BY <1>u DEF LoginsAdded, Added, NoneGone
<1>1. CASE Failure
  <2>1. UNCHANGED store
    BY <1>1 DEF Failure, Abort, LogInAbort, EmailAbort, ForgotAbort, DeleteAbort
  <2>2. UNCHANGED <<user, loginInfo>>
    BY <2>1 DEF store
  <2>3. /\ \A q \in SignUpRequest : su'[q] = su[q] \/ su'[q].pc = "idle"
        /\ \A q \in EmailRequest : ue'[q] = ue[q] \/ ue'[q].pc = "idle"
        /\ \A q \in DeleteRequest : dl'[q] = dl[q] \/ dl'[q].pc = "idle"
    BY <1>1, <1>t DEF Failure, OnlySignUp, OnlyLogIn, OnlyEmail, OnlyForgot, OnlyDelete, Abort,
       EmailAbort, DeleteAbort, Answer, EmailAnswer, DeleteAnswer, Idle, EmailIdle, DeleteIdle
  <2>5. \A q \in EmailRequest : HoldsRow(ue[q])'
    BY <1>i, <1>q, <2>2, <2>3 DEF BeforeRow, RowAhead, LoginAhead
  <2> QED BY <1>u, <2>2, <2>5
<1>2. CASE UNCHANGED <<user, loginInfo, su, ue, dl>>
  BY <1>2, <1>q, <1>u
<1>3. ASSUME NEW r \in SignUpRequest, SignUpStep(r), UNCHANGED <<ue, dl>>
      PROVE  /\ LoginsAdded' /\ \A q \in EmailRequest : HoldsRow(ue[q])'
             /\ NoneGone' => NoneGone
  <2>1. su[r].pc # "idle" /\ \A q \in SignUpRequest : q # r => su'[q] = su[q]
    BY <1>3, <1>t, SignUpCalls
  <2>2. EmailsRest /\ DeletesRest /\ \A q \in SignUpRequest : q # r => su[q].pc = "idle"
    BY <2>1 DEF Alone
  <2>4. \A q \in EmailRequest : HoldsRow(ue[q])'
    BY <1>3, <1>i, <2>2 DEF BeforeRow, RowAhead, LoginAhead
  <2>5. \A u \in UserId : Added(u) => Added(u)'
    BY <1>3, <1>t, SignUpRows
  <2>6. LoginsAdded'
    <3>1. CASE AddLogin(r)
      <4>1. Added(su[r].user) \/ UNCHANGED loginInfo
        BY <3>1 DEF AddLogin, LoginAllowed, Exists, Added
      <4>2. \A e \in Email : loginInfo'[e] # Nil => Added(loginInfo'[e])
        BY <1>t, <3>1, <4>1 DEF AddLogin, LoginsAdded
      <4> QED BY <3>1, <4>2 DEF AddLogin, LoginsAdded, Added
    <3>2. CASE UNCHANGED loginInfo
      BY <1>t, <2>5, <3>2, NilAssumption DEF LoginsAdded
    <3> QED
      BY <1>3, <3>1, <3>2
      DEF SignUpStep, Retrieve, RetrieveUser, AddUser, AddPassword, MailLookup, SaveToken,
          ExpireToken, SendMail, OpenSession, Activate, CountActive, Grant, store, postgres, redis
  <2> QED BY <1>3, <1>t, <2>4, <2>6, SignUpRows
<1>4. ASSUME NEW r \in EmailRequest, EmailStep(r), UNCHANGED <<su, dl>>
      PROVE  /\ LoginsAdded' /\ \A q \in EmailRequest : HoldsRow(ue[q])'
             /\ NoneGone' => NoneGone
  <2>1. /\ ue[r].pc # "idle" /\ \A q \in EmailRequest : q # r => ue'[q] = ue[q]
        /\ EmailReads(r) \/ EmailWrites(r)
    BY <1>4, <1>t, EmailMoves
  <2>2. SignUpRests /\ DeletesRest /\ \A q \in EmailRequest : q # r => ue[q].pc = "idle"
    BY <2>1 DEF Alone
  <2>4. \A q \in EmailRequest : q # r => HoldsRow(ue[q])'
    BY <1>i, <2>1, <2>2 DEF BeforeRow, RowAhead, LoginAhead
  <2>h. HoldsRow(ue[r])
    OBVIOUS
  <2>5. CASE EmailReads(r)
    <3>1. UNCHANGED <<user, loginInfo>> /\ (LoginsAdded' /\ (NoneGone' => NoneGone))
      BY <1>u, <2>5 DEF EmailReads, NothingWritten
    <3>2. HoldsRow(ue[r])'
      <4>1. ASSUME ue'[r].id = ue[r].id, ue'[r].old = ue[r].old, ue[r].pc \in BeforeRow
            PROVE  IsLive(ue[r].id)' /\ user'[ue'[r].id].email = ue'[r].old
        BY <2>h, <3>1, <4>1 DEF HoldsRow, IsLive
      <4>2. CASE ue'[r].pc \in {"checkFree", "retrieveToken"}
        <5>1. CASE ue[r].pc = "retrieveUser"
          <6>1. /\ IsLive(ue[r].login) /\ ue'[r].id = ue[r].id
                /\ ue'[r].old = user[ue[r].login].email
            BY <2>5, <4>2, <5>1 DEF EmailReads
          <6>2. IsLive(ue[r].id)' /\ user'[ue'[r].id].email = ue'[r].old
            BY <2>h, <3>1, <5>1, <6>1 DEF HoldsRow, IsLive
          <6> QED BY <4>2, <6>1, <6>2 DEF HoldsRow, BeforeRow, RowAhead, LoginAhead
        <5>2. CASE ue[r].pc # "retrieveUser"
          <6>1. ue[r].pc = "retrieveToken" /\ ue'[r].id = ue[r].id /\ ue'[r].old = ue[r].old
            BY <2>5, <4>2, <5>2 DEF EmailReads
          <6> QED BY <4>1, <4>2, <6>1 DEF HoldsRow, BeforeRow, RowAhead, LoginAhead
        <5> QED BY <5>1, <5>2
      <4>3. CASE ue'[r].pc \in {"findUser", "readRow", "writeRow"}
        <5>1. KeepsAddress(r) /\ ue[r].pc \in BeforeRow /\ FindByEmail(ue[r].new) = {}
          BY <2>5, <2>h, <4>3 DEF EmailReads, HoldsRow, BeforeRow
        <5>2. FindByEmail(ue[r].new)' = {}
          BY <3>1, <5>1 DEF KeepsAddress, FindByEmail, IsLive
        <5> QED BY <4>1, <4>3, <5>1, <5>2 DEF KeepsAddress, HoldsRow, BeforeRow, RowAhead, LoginAhead
      <4>4. CASE ue'[r].pc \in {"writeLogin", "readPassword", "addPassword"}
        <5>1. ASSUME KeepsAddress(r), ue[r].pc \in RowAhead \cup LoginAhead PROVE HoldsRow(ue[r])'
          BY <2>h, <4>4, <5>1 DEF KeepsAddress, HoldsRow, BeforeRow, RowAhead, LoginAhead
        <5> QED BY <2>5, <4>4, <5>1 DEF EmailReads, BeforeRow, RowAhead, LoginAhead
      <4> QED BY <1>i, <2>5, <4>2, <4>3, <4>4 DEF EmailReads, BeforeRow, RowAhead, LoginAhead
    <3> QED BY <2>4, <3>1, <3>2
  <2>6. CASE WriteRow(r)
    <3>1. /\ ue[r].id \in UserId /\ ue[r].old # ue[r].new /\ IsLive(ue[r].id) /\ user'[ue[r].id].row = "live"
          /\ \A v \in UserId : v # ue[r].id => user'[v] = user[v]
      BY <2>6, <2>h, RowChanged
    <3>2. UNCHANGED loginInfo /\ ue'[r].pc = "readLogin" /\ KeepsAddress(r)
      BY <2>1, <2>6 DEF EmailReads, EmailWrites, WriteRow, EmailAt, BeforeRow
    <3>3. HoldsRow(ue[r])'
      BY <3>1, <3>2 DEF KeepsAddress, HoldsRow, BeforeRow
    <3>4. \A u \in UserId : Added(u) => Added(u)'
      BY <3>1 DEF Added, IsLive
    <3>5. LoginsAdded' /\ (NoneGone' => NoneGone)
      BY <1>t, <3>1, <3>2, <3>4, NilAssumption DEF LoginsAdded, NoneGone, IsLive
    <3> QED BY <2>4, <3>3, <3>5
  <2>7. CASE EmailWrites(r) /\ ue[r].pc = "writeLogin"
    <3>1. /\ LoginFits(ue[r]) /\ UNCHANGED user /\ ue'[r].pc = "readPassword" /\ KeepsAddress(r)
          /\ loginInfo' = [loginInfo EXCEPT ![ue[r].old] = Nil, ![ue[r].new] = ue[r].login]
      BY <2>7 DEF EmailWrites
    <3>2. HoldsRow(ue[r])'
      BY <2>7, <2>h, <3>1 DEF KeepsAddress, HoldsRow, BeforeRow, RowAhead, LoginAhead
    <3>3. Added(ue[r].login)
      BY <3>1 DEF LoginFits, Exists, Added
    <3>4. \A e \in Email : loginInfo'[e] # Nil => Added(loginInfo'[e])
      BY <1>t, <3>1, <3>3 DEF LoginsAdded
    <3>5. LoginsAdded' /\ (NoneGone' => NoneGone)
      BY <3>1, <3>4 DEF LoginsAdded, Added, NoneGone
    <3> QED BY <2>4, <3>2, <3>5
  <2>8. CASE EmailWrites(r) /\ ue[r].pc \in {"addPassword", "removePassword"}
    <3>1. UNCHANGED <<user, loginInfo>> /\ ue'[r].pc \in {"removePassword", "deleteToken"} /\ KeepsAddress(r)
      BY <2>8 DEF EmailWrites
    <3>2. HoldsRow(ue[r])'
      BY <2>8, <2>h, <3>1 DEF KeepsAddress, HoldsRow, BeforeRow, RowAhead, LoginAhead
    <3> QED BY <1>u, <2>4, <3>1, <3>2
  <2> QED BY <2>1, <2>5, <2>6, <2>7, <2>8 DEF EmailWrites
<1>5. ASSUME NEW r \in DeleteRequest, DeleteStep(r), UNCHANGED <<su, ue>>
      PROVE  /\ LoginsAdded' /\ \A q \in EmailRequest : HoldsRow(ue[q])'
             /\ NoneGone' => NoneGone
  <2>1. /\ \A u \in UserId : Added(u) => Added(u)'
        /\ NoneGone' => NoneGone
        /\ \A e \in Email : loginInfo'[e] \in {loginInfo[e], Nil}
        /\ dl[r].pc # "idle" /\ \A q \in DeleteRequest : q # r => dl'[q] = dl[q]
    BY <1>5, DeleteTables
  <2>2. EmailsRest /\ SignUpRests
    BY <2>1 DEF Alone
  <2>4. \A q \in EmailRequest : HoldsRow(ue[q])'
    BY <1>5, <1>i, <2>2 DEF BeforeRow, RowAhead, LoginAhead
  <2>5. \A e \in Email : loginInfo'[e] # Nil => user'[loginInfo'[e]].row # "never"
    BY <1>t, <2>1, NilAssumption DEF LoginsAdded, Added
  <2> QED BY <2>1, <2>4, <2>5 DEF LoginsAdded, Added
<1>6. ASSUME FlowsRest, NEW r \in SignUpRequest, SignUpArrives(r), UNCHANGED <<ue, dl>>
      PROVE  /\ LoginsAdded' /\ \A q \in EmailRequest : HoldsRow(ue[q])'
             /\ NoneGone' => NoneGone
  <2>1. UNCHANGED <<user, loginInfo>> /\ \A q \in SignUpRequest : q # r => su'[q] = su[q]
    BY <1>6, <1>t DEF SignUpArrives, Subscribe, Resend, Confirm, store, postgres
  <2> QED BY <1>6, <1>q, <1>u, <2>1
<1>7. ASSUME FlowsRest, NEW r \in EmailRequest, EmailArrives(r), UNCHANGED <<su, dl>>
      PROVE  /\ LoginsAdded' /\ \A q \in EmailRequest : HoldsRow(ue[q])'
             /\ NoneGone' => NoneGone
  <2>1. PICK e \in Email, i \in UserId :
          \/ \E n \in Email : UpdateEmailRequest(r, e, i, n)
          \/ \E t \in Token : ChangeEmail(r, e, i, t)
    BY <1>7 DEF EmailArrives
  <2>2. /\ UNCHANGED store
        /\ ue'[r].pc = "retrieveUser" /\ ue'[r].id = i /\ ue'[r].login = i
        /\ \A q \in EmailRequest : q # r => ue'[q] = ue[q]
    BY <1>t, <2>1, ArrivesFor
  <2>3. UNCHANGED <<user, loginInfo>>
    BY <2>2 DEF store, postgres
  <2>5. HoldsRow(ue[r])'
    BY <2>2, <2>3 DEF HoldsRow, BeforeRow, RowAhead, LoginAhead, IsLive
  <2> QED BY <1>q, <1>u, <2>2, <2>3, <2>5
<1>8. ASSUME FlowsRest, NEW r \in DeleteRequest, DeleteArrives(r), UNCHANGED <<su, ue>>
      PROVE  /\ LoginsAdded' /\ \A q \in EmailRequest : HoldsRow(ue[q])'
             /\ NoneGone' => NoneGone
  <2>1. UNCHANGED <<user, loginInfo>>
    BY <1>8 DEF DeleteArrives, Delete, store, postgres
  <2> QED BY <1>8, <1>q, <1>u, <2>1
<1> QED BY <1>1, <1>2, <1>3, <1>4, <1>5, <1>6, <1>7, <1>8, StepsInTurn

(* Login infos name the address of their user.                                 *)
LEMMA AlignedEmail ==
    ASSUME TypesInv, Alone, LoginsAdded, NoneGone, Aligned,
           NEW r \in EmailRequest, HoldsRow(ue[r]), EmailStep(r), UNCHANGED <<su, dl>>
    PROVE  Aligned'
<1>t. /\ EmailTypes /\ EmailReady(ue[r]) /\ Paired(ue[r])
      /\ user \in [UserId -> UserRow] /\ loginInfo \in [Email -> UserId \cup {Nil}]
  BY DEF TypesInv, SignUpTypeOK, StoreTypeOK, EmailTypes, Aligned
<1>1. /\ ue[r].pc # "idle" /\ \A q \in EmailRequest : q # r => ue'[q] = ue[q]
      /\ EmailReads(r) \/ EmailWrites(r)
  BY <1>t, EmailMoves
<1>2. /\ \A q \in SignUpRequest : su'[q].pc = "idle"
      /\ \A q \in EmailRequest : q # r => ue[q].pc = "idle" /\ ue'[q].pc = "idle"
  BY <1>1 DEF Alone, SignUpRests, EmailsRest
<1>3. \A e \in Email : loginInfo[e] # Nil => \/ user[loginInfo[e]].email = e
                                             \/ ue[r].pc \in RowAhead /\ ue[r].old = e
  BY <1>2 DEF Aligned, RowAhead
<1>g. ASSUME Paired(ue[r])',
             \A e \in Email : loginInfo'[e] # Nil => \/ user'[loginInfo'[e]].email = e
                                                     \/ ue'[r].pc \in RowAhead /\ ue'[r].old = e
      PROVE  Aligned'
  BY <1>2, <1>g DEF Aligned, Paired, BeforeRow, RowAhead
(* No call that goes wrong between the row and the login info.                 *)
<1>4. ASSUME ue[r].pc \in RowAhead
      PROVE  /\ ue[r].old \in Email /\ ue[r].new \in Email /\ ue[r].id \in UserId
             /\ ue[r].id # Nil /\ loginInfo[ue[r].old] = ue[r].id /\ Exists(ue[r].id)
             /\ loginInfo[ue[r].new] = Nil /\ user[ue[r].id].email = ue[r].new
             /\ ue[r].old # ue[r].new
             /\ ue[r].pc = "writeLogin" => LoginFits(ue[r]) /\ ue[r].login = ue[r].id
  <2>1. /\ ue[r].old \in Email /\ ue[r].new \in Email /\ ue[r].id \in UserId /\ ue[r].id # Nil
    BY <1>4, <1>t, NilAssumption DEF EmailReady, RowAhead
  <2>2. /\ loginInfo[ue[r].old] = ue[r].id /\ loginInfo[ue[r].new] = Nil
        /\ user[ue[r].id].email = ue[r].new
        /\ ue[r].pc = "writeLogin" => ue[r].login = ue[r].id
    BY <1>4, <1>t DEF Paired
  <2>3. Exists(ue[r].id)
    BY <2>1, <2>2 DEF LoginsAdded, Added, NoneGone, Exists
  <2>4. ue[r].old # ue[r].new
    BY <1>4 DEF HoldsRow
  <2> QED BY <2>1, <2>2, <2>3, <2>4 DEF LoginFits
<1>5. CASE EmailReads(r)
  <2>1. UNCHANGED <<user, loginInfo>>
    BY <1>5 DEF EmailReads, NothingWritten
  <2>2. CASE ue[r].pc \in RowAhead
    <3>1. /\ ue[r].pc = "readLogin" /\ ue'[r].pc = "writeLogin" /\ KeepsAddress(r)
          /\ ue'[r].login = loginInfo[ue[r].old]
      BY <1>4, <1>5, <2>2 DEF EmailReads, BeforeRow, RowAhead
    <3>2. Paired(ue[r])'
      BY <1>4, <2>1, <2>2, <3>1 DEF Paired, KeepsAddress, BeforeRow, RowAhead
    <3> QED BY <1>3, <1>g, <2>1, <2>2, <3>1, <3>2 DEF KeepsAddress, RowAhead
  <2>3. CASE ue[r].pc \in BeforeRow
    <3>1. loginInfo[ue[r].old] = ue[r].id
      BY <1>t, <2>3 DEF Paired
    <3>2. /\ ue'[r].pc \notin RowAhead \cup {"retrieveUser"}
          /\ ue'[r].pc \in BeforeRow => ue'[r].old = ue[r].old /\ ue'[r].id = ue[r].id
      BY <1>5, <2>3 DEF EmailReads, KeepsAddress, BeforeRow, RowAhead
    <3>3. Paired(ue[r])'
      BY <2>1, <3>1, <3>2 DEF Paired, RowAhead
    <3> QED BY <1>3, <1>g, <2>1, <2>3, <3>3 DEF BeforeRow, RowAhead
  <2>4. CASE ue[r].pc = "retrieveUser"
    <3>1. /\ ue'[r].pc \notin RowAhead \cup {"retrieveUser"}
          /\ ue'[r].pc \in BeforeRow => /\ ue'[r].id = ue[r].id
                                        /\ ue'[r].old = user[ue[r].login].email
      BY <1>5, <2>4 DEF EmailReads, BeforeRow, RowAhead
    <3>2. ue[r].login = ue[r].id /\ loginInfo[user[ue[r].id].email] = ue[r].id
      BY <1>t, <2>4 DEF HoldsRow, Paired
    <3>3. Paired(ue[r])'
      BY <2>1, <3>1, <3>2 DEF Paired, RowAhead
    <3> QED BY <1>3, <1>g, <2>1, <2>4, <3>3 DEF RowAhead
  <2>5. CASE ue[r].pc \notin BeforeRow \cup RowAhead \cup {"retrieveUser"}
    <3>1. ue'[r].pc \notin BeforeRow \cup RowAhead \cup {"retrieveUser"}
      BY <1>5, <2>5 DEF EmailReads, BeforeRow, RowAhead
    <3>2. Paired(ue[r])'
      BY <3>1 DEF Paired, RowAhead
    <3> QED BY <1>3, <1>g, <2>1, <2>5, <3>2
  <2> QED BY <2>2, <2>3, <2>4, <2>5
<1>6. CASE WriteRow(r)
  <2>1. /\ ue[r].id \in UserId /\ ue[r].old \in Email /\ ue[r].new \in Email
        /\ ue[r].old # ue[r].new /\ FindByEmail(ue[r].new) = {}
        /\ user'[ue[r].id].email = ue[r].new
        /\ \A v \in UserId : v # ue[r].id => user'[v] = user[v]
    BY <1>6, RowChanged
  <2>2. ue[r].pc = "writeRow" /\ UNCHANGED loginInfo /\ ue'[r].pc = "readLogin" /\ KeepsAddress(r)
    BY <1>1, <1>6 DEF EmailReads, EmailWrites, WriteRow, EmailAt, BeforeRow
  <2>3. \A e \in Email : loginInfo[e] # Nil => user[loginInfo[e]].email = e
    BY <1>3, <2>2 DEF RowAhead
  <2>4. loginInfo[ue[r].old] = ue[r].id /\ user[ue[r].id].email = ue[r].old
    BY <1>t, <2>2 DEF Paired, HoldsRow, BeforeRow
  (* A login info for the new address would lead to a live user that has it.   *)
  <2>5. loginInfo[ue[r].new] = Nil
    BY <1>t, <2>1, <2>3 DEF LoginsAdded, Added, NoneGone, FindByEmail, IsLive
  <2>6. Paired(ue[r])'
    BY <2>1, <2>2, <2>4, <2>5 DEF Paired, KeepsAddress, BeforeRow, RowAhead
  <2>7. \A e \in Email : loginInfo'[e] # Nil => \/ user'[loginInfo'[e]].email = e
                                                \/ ue'[r].pc \in RowAhead /\ ue'[r].old = e
    BY <1>t, <2>1, <2>2, <2>3, <2>4 DEF KeepsAddress, RowAhead
  <2> QED BY <1>g, <2>6, <2>7
<1>7. CASE EmailWrites(r) /\ ue[r].pc = "writeLogin"
  <2>1. /\ UNCHANGED user /\ ue'[r].pc = "readPassword"
        /\ loginInfo' = [loginInfo EXCEPT ![ue[r].old] = Nil, ![ue[r].new] = ue[r].login]
    BY <1>7 DEF EmailWrites
  <2>2. /\ ue[r].old \in Email /\ ue[r].new \in Email /\ ue[r].login = ue[r].id
        /\ user[ue[r].id].email = ue[r].new /\ ue[r].old # ue[r].new
    BY <1>4, <1>7 DEF RowAhead
  <2>3. Paired(ue[r])'
    BY <2>1 DEF Paired, BeforeRow, RowAhead
  <2>4. \A e \in Email : loginInfo'[e] # Nil => user'[loginInfo'[e]].email = e
    BY <1>t, <1>3, <2>1, <2>2
  <2> QED BY <1>g, <2>3, <2>4
<1>8. CASE EmailWrites(r) /\ ue[r].pc \in {"addPassword", "removePassword"}
  <2>1. /\ UNCHANGED <<user, loginInfo>> /\ ue'[r].pc \in {"removePassword", "deleteToken"}
    BY <1>8 DEF EmailWrites
  <2>2. Paired(ue[r])'
    BY <2>1 DEF Paired, BeforeRow, RowAhead
  <2> QED BY <1>3, <1>8, <1>g, <2>1, <2>2 DEF RowAhead
<1> QED BY <1>1, <1>5, <1>6, <1>7, <1>8 DEF EmailWrites

LEMMA AlignedSignUp ==
    ASSUME TypesInv, Alone, LoginsAdded, Aligned, NEW r \in SignUpRequest, SignUpStep(r),
           UNCHANGED <<ue, dl, swallowing>>
    PROVE  Aligned'
<1>t. /\ SignUpTypeOK /\ user \in [UserId -> UserRow] /\ loginInfo \in [Email -> UserId \cup {Nil}]
  BY DEF TypesInv, SignUpTypeOK, StoreTypeOK
<1>1. /\ su[r].pc # "idle" /\ [SignUpNext]_signUpVars
      /\ \A q \in SignUpRequest : q # r => su'[q] = su[q]
  BY <1>t, SignUpCalls DEF SignUpNext
<1>2. /\ \A q \in EmailRequest : ue[q].pc = "idle"
      /\ \A q \in SignUpRequest : q # r => su[q].pc = "idle"
  BY <1>1 DEF Alone, SignUpRests, EmailsRest
<1>3. \A e \in Email : loginInfo[e] # Nil => user[loginInfo[e]].email = e
  BY <1>2 DEF Aligned, RowAhead
<1>4. /\ UNCHANGED user \/ (su[r].pc \in {"addUser", "activate"} /\ UNCHANGED loginInfo)
      /\ \A u \in UserId : Added(u) => user'[u].email = user[u].email
  BY <1>t, SignUpRows
<1>5. \A e \in Email : loginInfo'[e] # Nil => user'[loginInfo'[e]].email = e
  <2>1. CASE UNCHANGED loginInfo
    BY <1>t, <1>3, <1>4, <2>1 DEF LoginsAdded
  <2>2. ASSUME NEW q \in SignUpRequest, su[q].pc = "addLogin", su[q].email \in Email,
               loginInfo' = [loginInfo EXCEPT ![su[q].email] = su[q].user], UNCHANGED user
        PROVE  \A e \in Email : loginInfo'[e] # Nil => user'[loginInfo'[e]].email = e
    <3>1. user[su[q].user].email = su[q].email
      BY <2>2 DEF Aligned
    <3> QED BY <1>t, <1>3, <2>2, <3>1
  <2> QED BY <1>1, <1>t, <2>1, <2>2, LoginWrites
<1>6. \A q \in SignUpRequest : su'[q].pc = "addLogin" => user'[su'[q].user].email = su'[q].email
  <2> SUFFICES ASSUME NEW q \in SignUpRequest, su'[q].pc = "addLogin"
               PROVE  user'[su'[q].user].email = su'[q].email
    OBVIOUS
  <2>1. q = r
    BY <1>1, <1>2
  <2>2. CASE su'[q] = su[q]
    BY <1>4, <2>1, <2>2 DEF Aligned
  <2>3. ASSUME NEW u \in UserId, user' = UserAdded(u, su[q].email), su'[q].user = u,
               su'[q].email = su[q].email
        PROVE  user'[su'[q].user].email = su'[q].email
    BY <1>t, <2>3 DEF UserAdded
  <2> QED BY <1>1, <1>t, <2>2, <2>3, EntersAddLogin
<1>7. \A q \in EmailRequest : Paired(ue[q])'
  BY <1>2 DEF Paired, BeforeRow, RowAhead
<1> QED BY <1>5, <1>6, <1>7 DEF Aligned

(* Every step but a failure.                                                   *)
LEMMA AlignedStep ==
    ASSUME MaxBusy = 1, Admin = {}, TypesInv, Alone, LoginsAdded, NoneGone, Aligned,
           \A r \in EmailRequest : HoldsRow(ue[r]),
           [AccountsNext]_accountsVars, UNCHANGED failures
    PROVE  Aligned'
<1>t. /\ SignUpTypeOK /\ ue \in [EmailRequest -> EmailHandler] /\ failures \in Nat
      /\ su \in [SignUpRequest -> Handler] /\ loginInfo \in [Email -> UserId \cup {Nil}]
  BY BoundsAssumption DEF TypesInv, SignUpTypeOK, StoreTypeOK, EmailTypes
<1>f. ~Failure
  BY <1>t DEF Failure
<1>1. CASE UNCHANGED <<user, loginInfo, su, ue, dl>>
  BY <1>1 DEF Aligned, Paired
<1>2. ASSUME NEW r \in DeleteRequest, DeleteStep(r), UNCHANGED <<su, ue>> PROVE Aligned'
  <2>1. /\ \A u \in UserId : user'[u].email = user[u].email
        /\ \A e \in Email : loginInfo'[e] \in {loginInfo[e], Nil}
        /\ dl[r].pc # "idle"
    BY <1>2, DeleteTables
  <2>2. /\ \A q \in EmailRequest : ue'[q].pc = "idle"
        /\ \A q \in SignUpRequest : su'[q].pc = "idle"
    BY <1>2, <2>1 DEF Alone, SignUpRests, EmailsRest, DeletesRest
  <2>3. \A e \in Email : loginInfo[e] # Nil => user[loginInfo[e]].email = e
    BY <1>2, <2>2 DEF Aligned, RowAhead
  <2>4. \A e \in Email : loginInfo'[e] # Nil => user'[loginInfo'[e]].email = e
    BY <1>t, <2>1, <2>3
  <2>5. \A q \in EmailRequest : Paired(ue[q])'
    BY <2>2 DEF Paired, BeforeRow, RowAhead
  <2> QED BY <2>2, <2>4, <2>5 DEF Aligned
<1>3. ASSUME NEW r \in SignUpRequest, SignUpArrives(r), UNCHANGED <<ue, dl>> PROVE Aligned'
  <2>1. UNCHANGED <<user, loginInfo>> /\ \A q \in SignUpRequest : q # r => su'[q] = su[q]
    BY <1>3, <1>t DEF SignUpArrives, Subscribe, Resend, Confirm, store, postgres
  <2>2. su'[r].pc # "addLogin"
    BY <1>3, <1>t, AfterArrival
  <2> QED BY <1>3, <2>1, <2>2 DEF Aligned, Paired
<1>4. ASSUME FlowsRest, NEW r \in EmailRequest, EmailArrives(r), UNCHANGED <<su, dl>> PROVE Aligned'
  <2>1. PICK e \in Email, i \in UserId :
          \/ \E n \in Email : UpdateEmailRequest(r, e, i, n)
          \/ \E t \in Token : ChangeEmail(r, e, i, t)
    BY <1>4 DEF EmailArrives
  <2>2. /\ UNCHANGED store /\ loginInfo[e] = i
        /\ ue'[r].pc = "retrieveUser" /\ ue'[r].id = i
        /\ \A q \in EmailRequest : q # r => ue'[q] = ue[q]
    BY <1>t, <2>1, ArrivesFor
  <2>3. \A q \in EmailRequest : ue[q].pc = "idle"
    BY <1>4 DEF FlowsRest, EmailsRest
  <2>4. \A x \in Email : loginInfo[x] # Nil => user[loginInfo[x]].email = x
    BY <2>3 DEF Aligned, RowAhead
  <2>5. loginInfo[user[i].email] = i
    BY <2>2, <2>4, NilAssumption
  <2>6. UNCHANGED <<user, loginInfo>>
    BY <2>2 DEF store, postgres
  <2>7. Paired(ue[r])'
    BY <2>2, <2>5, <2>6 DEF Paired, BeforeRow, RowAhead
  <2>8. \A q \in EmailRequest : Paired(ue[q])'
    BY <2>2, <2>3, <2>7 DEF Paired, BeforeRow, RowAhead
  <2> QED BY <1>4, <2>4, <2>6, <2>8 DEF Aligned
<1>5. ASSUME NEW r \in DeleteRequest, DeleteArrives(r), UNCHANGED <<su, ue>> PROVE Aligned'
  BY <1>5 DEF DeleteArrives, Delete, store, postgres, Aligned, Paired
<1> QED BY <1>f, <1>1, <1>2, <1>3, <1>4, <1>5, StepsInTurn, AlignedEmail, AlignedSignUp

(* Login infos have a password.                                                *)
LEMMA BackedEmail ==
    ASSUME TypesInv, Alone, ~swallowing, Backed, NEW r \in EmailRequest, HoldsRow(ue[r]),
           EmailStep(r), UNCHANGED <<su, dl>>
    PROVE  Backed'
<1>t. /\ EmailTypes /\ EmailReady(ue[r]) /\ Carries(ue[r])
      /\ loginInfo \in [Email -> UserId \cup {Nil}]
      /\ passwordInfo \in [Email -> Password \cup {Nil}]
  BY DEF TypesInv, SignUpTypeOK, StoreTypeOK, EmailTypes, Backed
<1>1. /\ ue[r].pc # "idle" /\ \A q \in EmailRequest : q # r => ue'[q] = ue[q]
      /\ EmailReads(r) \/ EmailWrites(r)
  BY <1>t, EmailMoves
<1>2. /\ \A q \in SignUpRequest : su[q].pc = "idle"
      /\ \A q \in EmailRequest : q # r => ue[q].pc = "idle" /\ ue'[q].pc = "idle"
  BY <1>1 DEF Alone, SignUpRests, EmailsRest
<1>3. \A e \in Email : loginInfo[e] # Nil => \/ passwordInfo[e] # Nil
                                             \/ ue[r].pc \in LoginAhead /\ ue[r].new = e
  BY <1>2 DEF Backed, LoginAhead
<1>g. ASSUME Carries(ue[r])',
             \A e \in Email : loginInfo'[e] # Nil => \/ passwordInfo'[e] # Nil
                                                     \/ ue'[r].pc \in LoginAhead /\ ue'[r].new = e
      PROVE  Backed'
  BY <1>2, <1>g DEF Backed, Carries, LoginAhead
<1>4. CASE EmailReads(r)
  <2>1. UNCHANGED <<user, loginInfo, passwordInfo>>
    BY <1>4 DEF EmailReads, NothingWritten
  <2>2. CASE ue[r].pc = "readPassword"
    <3>1. ue'[r].pc = "addPassword" /\ KeepsAddress(r)
      BY <1>4, <1>t, <2>2 DEF EmailReads, Carries, BeforeRow
    <3>2. Carries(ue[r])'
      BY <1>t, <2>1, <2>2, <3>1 DEF Carries, KeepsAddress, LoginAhead
    <3> QED BY <1>3, <1>g, <2>1, <2>2, <3>1, <3>2 DEF KeepsAddress, LoginAhead
  <2>3. CASE ue[r].pc # "readPassword"
    <3>1. /\ ue[r].pc \notin LoginAhead
          /\ ue'[r].pc \notin LoginAhead \cup {"removePassword"}
          /\ ue'[r].pc = "writeLogin" => ue'[r].old = ue[r].old /\ loginInfo[ue[r].old] # Nil
      BY <1>4, <1>t, <2>3 DEF EmailReads, Carries, KeepsAddress, BeforeRow, LoginAhead
    <3>2. Carries(ue[r])'
      BY <2>1, <3>1 DEF Carries, LoginAhead
    <3> QED BY <1>3, <1>g, <2>1, <3>1, <3>2
  <2> QED BY <2>2, <2>3
<1>5. CASE EmailWrites(r) /\ ue[r].pc = "writeRow"
  <2>1. UNCHANGED <<loginInfo, passwordInfo>> /\ ue'[r].pc = "readLogin"
    BY <1>5 DEF EmailWrites
  <2>2. Carries(ue[r])'
    BY <2>1 DEF Carries, LoginAhead
  <2> QED BY <1>3, <1>5, <1>g, <2>1, <2>2 DEF LoginAhead
<1>6. CASE EmailWrites(r) /\ ue[r].pc = "writeLogin"
  <2>1. /\ ue'[r].pc = "readPassword" /\ KeepsAddress(r) /\ UNCHANGED passwordInfo
        /\ loginInfo' = [loginInfo EXCEPT ![ue[r].old] = Nil, ![ue[r].new] = ue[r].login]
    BY <1>6 DEF EmailWrites
  <2>2. /\ ue[r].old \in Email /\ ue[r].new \in Email /\ ue[r].old # ue[r].new
        /\ loginInfo[ue[r].old] # Nil
    BY <1>6, <1>t DEF EmailReady, HoldsRow, RowAhead, Carries
  <2>3. passwordInfo[ue[r].old] # Nil
    BY <1>3, <1>6, <2>2 DEF LoginAhead
  <2>4. Carries(ue[r])'
    BY <1>t, <2>1, <2>2, <2>3 DEF Carries, KeepsAddress
  <2>5. \A e \in Email : loginInfo'[e] # Nil => \/ passwordInfo'[e] # Nil
                                                \/ ue'[r].pc \in LoginAhead /\ ue'[r].new = e
    BY <1>t, <1>3, <1>6, <2>1, <2>2 DEF KeepsAddress, LoginAhead
  <2> QED BY <1>g, <2>4, <2>5
<1>7. CASE EmailWrites(r) /\ ue[r].pc = "addPassword"
  <2>1. /\ ue'[r].pc = "removePassword" /\ KeepsAddress(r) /\ UNCHANGED loginInfo
        /\ passwordInfo' = [passwordInfo EXCEPT ![ue[r].new] = ue[r].password]
    BY <1>7 DEF EmailWrites
  <2>2. ue[r].new \in Email /\ ue[r].password # Nil
    BY <1>7, <1>t, NilAssumption DEF EmailReady
  <2>3. Carries(ue[r])'
    BY <1>7, <1>t, <2>1 DEF Carries, KeepsAddress, LoginAhead
  <2> QED BY <1>t, <1>3, <1>g, <2>1, <2>2, <2>3
<1>8. CASE EmailWrites(r) /\ ue[r].pc = "removePassword"
  <2>1. /\ ue'[r].pc = "deleteToken" /\ UNCHANGED loginInfo
        /\ passwordInfo' = [passwordInfo EXCEPT ![ue[r].old] = Nil]
    BY <1>8 DEF EmailWrites
  <2>2. loginInfo[ue[r].old] = Nil
    BY <1>8, <1>t DEF Carries
  <2>3. Carries(ue[r])'
    BY <2>1 DEF Carries, LoginAhead
  <2> QED BY <1>t, <1>3, <1>8, <1>g, <2>1, <2>2, <2>3 DEF LoginAhead
<1> QED BY <1>1, <1>4, <1>5, <1>6, <1>7, <1>8 DEF EmailWrites

LEMMA BackedSignUp ==
    ASSUME TypesInv, Alone, ~swallowing, Backed, NEW r \in SignUpRequest, SignUpStep(r),
           UNCHANGED <<ue, dl, swallowing>>
    PROVE  Backed'
<1>t. /\ SignUpTypeOK /\ Ready(su[r]) /\ loginInfo \in [Email -> UserId \cup {Nil}]
      /\ passwordInfo \in [Email -> Password \cup {Nil}]
  BY DEF TypesInv, SignUpTypeOK, StoreTypeOK
<1>1. su[r].pc # "idle" /\ \A q \in SignUpRequest : q # r => su'[q] = su[q]
  BY <1>t, SignUpCalls
<1>2. /\ \A q \in EmailRequest : ue[q].pc = "idle"
      /\ \A q \in SignUpRequest : q # r => su[q].pc = "idle"
  BY <1>1 DEF Alone, SignUpRests, EmailsRest
<1>3. \A e \in Email : loginInfo[e] # Nil => \/ passwordInfo[e] # Nil
                                             \/ su[r].pc = "addPassword" /\ su[r].email = e
  BY <1>2 DEF Backed, LoginAhead
<1>4. \A q \in EmailRequest : Carries(ue[q])'
  BY <1>2 DEF Carries, LoginAhead
<1>g. ASSUME \A e \in Email : loginInfo'[e] # Nil =>
                 \/ passwordInfo'[e] # Nil
                 \/ su'[r].pc = "addPassword" /\ su'[r].email = e
      PROVE  Backed'
  BY <1>4, <1>g DEF Backed
<1>5. CASE AddLogin(r)
  <2>1. su[r].pc = "addLogin" /\ UNCHANGED passwordInfo
    BY <1>5 DEF AddLogin, At, redis
  <2>2. CASE Answer(r) /\ UNCHANGED loginInfo
    BY <1>3, <1>g, <2>1, <2>2
  <2>3. CASE /\ loginInfo' = [loginInfo EXCEPT ![su[r].email] = su[r].user]
             /\ Goto(r, "addPassword")
    <3>1. su'[r].pc = "addPassword" /\ su'[r].email = su[r].email
      BY <1>t, <2>3, AfterGoto DEF Kept
    <3> QED BY <1>t, <1>3, <1>g, <2>1, <2>3, <3>1
  <2> QED BY <1>5, <2>2, <2>3 DEF AddLogin
<1>6. CASE AddPassword(r)
  <2>1. /\ su[r].email \in Email /\ su[r].password # Nil /\ UNCHANGED loginInfo
        /\ passwordInfo' = [passwordInfo EXCEPT ![su[r].email] = su[r].password]
    BY <1>6, <1>t, NilAssumption DEF AddPassword, At, Ready, SignUpLabels, postgres
  <2> QED BY <1>t, <1>3, <1>g, <2>1
<1>7. CASE UNCHANGED <<loginInfo, passwordInfo>> /\ su[r].pc # "addPassword"
  BY <1>3, <1>g, <1>7
<1>8. CASE Retrieve(r) \/ RetrieveUser(r) \/ AddUser(r) \/ MailLookup(r) \/ SaveToken(r) \/ ExpireToken(r)
  BY <1>7, <1>8
     DEF Retrieve, RetrieveUser, AddUser, MailLookup, SaveToken, ExpireToken, At, store, postgres, redis
<1>9. CASE SendMail(r) \/ OpenSession(r) \/ Activate(r) \/ CountActive(r) \/ Grant(r)
  BY <1>7, <1>9 DEF SendMail, OpenSession, Activate, CountActive, Grant, At, store, postgres, redis
<1> QED BY <1>5, <1>6, <1>8, <1>9 DEF SignUpStep

LEMMA BackedStep ==
    ASSUME MaxBusy = 1, TypesInv, Alone, ~swallowing, Backed,
           \A r \in EmailRequest : HoldsRow(ue[r]),
           [AccountsNext]_accountsVars, UNCHANGED failures
    PROVE  Backed'
<1>t. /\ SignUpTypeOK /\ ue \in [EmailRequest -> EmailHandler] /\ failures \in Nat
      /\ su \in [SignUpRequest -> Handler] /\ loginInfo \in [Email -> UserId \cup {Nil}]
  BY BoundsAssumption DEF TypesInv, SignUpTypeOK, StoreTypeOK, EmailTypes
<1>f. ~Failure
  BY <1>t DEF Failure
<1>1. CASE UNCHANGED <<user, loginInfo, su, ue, dl>> /\ PasswordsKept
  <2>1. \A q \in EmailRequest : ue[q].pc \notin {"idle", "retrieveUser"} => ue[q].old \in Email
    BY DEF TypesInv, EmailTypes, EmailReady
  <2>2. \A q \in EmailRequest : Carries(ue[q])'
    BY <1>1, <2>1 DEF Backed, Carries, PasswordsKept
  <2> QED BY <1>1, <2>2 DEF Backed, PasswordsKept
<1>2. ASSUME NEW r \in DeleteRequest, DeleteStep(r), UNCHANGED <<su, ue>> PROVE Backed'
  <2>1. /\ \A e \in Email : loginInfo'[e] \in {loginInfo[e], Nil}
        /\ UNCHANGED passwordInfo /\ dl[r].pc # "idle"
    BY <1>2, DeleteTables
  <2>2. \A q \in EmailRequest : ue'[q].pc = "idle"
    BY <1>2, <2>1 DEF Alone, EmailsRest, DeletesRest
  <2>3. \A q \in EmailRequest : Carries(ue[q])'
    BY <2>2 DEF Carries, LoginAhead
  <2> QED BY <1>2, <2>1, <2>3 DEF Backed
<1>3. ASSUME FlowsRest, UNCHANGED store,
             \A q \in EmailRequest : ue'[q].pc \in {"idle", "retrieveUser"}
      PROVE  Backed'
  <2>1. \A e \in Email : loginInfo[e] # Nil => passwordInfo[e] # Nil
    BY <1>3 DEF Backed, FlowsRest, SignUpRests, EmailsRest, LoginAhead
  <2>2. \A q \in EmailRequest : Carries(ue[q])'
    BY <1>3 DEF Carries, LoginAhead
  <2> QED BY <1>3, <2>1, <2>2 DEF Backed, store, postgres
<1>4. ASSUME FlowsRest, NEW r \in SignUpRequest, SignUpArrives(r), UNCHANGED <<ue, dl>> PROVE Backed'
  BY <1>3, <1>4 DEF SignUpArrives, Subscribe, Resend, Confirm, FlowsRest, EmailsRest
<1>5. ASSUME FlowsRest, NEW r \in EmailRequest, EmailArrives(r), UNCHANGED <<su, dl>> PROVE Backed'
  <2> DEFINE Waits == /\ UNCHANGED store
                      /\ ue'[r].pc = "retrieveUser"
                      /\ \A q \in EmailRequest : q # r => ue'[q] = ue[q]
  <2>1. Waits
    <3>1. ASSUME NEW e \in Email, NEW i \in UserId, NEW n \in Email, UpdateEmailRequest(r, e, i, n)
          PROVE  Waits
      BY <1>5, <1>t, <3>1 DEF UpdateEmailRequest, EmailIdle
    <3>2. ASSUME NEW e \in Email, NEW i \in UserId, NEW t \in Token, ChangeEmail(r, e, i, t)
          PROVE  Waits
      BY <1>5, <1>t, <3>2 DEF ChangeEmail, EmailIdle
    <3> QED BY <1>5, <3>1, <3>2 DEF EmailArrives
  <2> QED BY <1>3, <1>5, <2>1 DEF FlowsRest, EmailsRest
<1>6. ASSUME FlowsRest, NEW r \in DeleteRequest, DeleteArrives(r), UNCHANGED <<su, ue>> PROVE Backed'
  BY <1>3, <1>6 DEF DeleteArrives, Delete, FlowsRest, EmailsRest
<1> QED BY <1>f, <1>1, <1>2, <1>4, <1>5, <1>6, StepsInTurn, BackedEmail, BackedSignUp

(* A flow that is cut short leaves an address half done in one way only: after *)
(* the row every login info still has a password, after the login info it      *)
(* names the address of its user.                                              *)
LEMMA CutShort ==
    ASSUME TypesInv, Aligned, Backed, Failure
    PROVE  Aligned' \/ Backed'
<1>t. /\ su \in [SignUpRequest -> Handler] /\ ue \in [EmailRequest -> EmailHandler]
  BY DEF TypesInv, SignUpTypeOK, EmailTypes
<1>1. UNCHANGED store
  BY DEF Failure, Abort, LogInAbort, EmailAbort, ForgotAbort, DeleteAbort
<1>2. UNCHANGED <<user, loginInfo, passwordInfo>>
  BY <1>1 DEF store, postgres
<1>3. ASSUME UNCHANGED <<su, ue>> PROVE Aligned'
  BY <1>2, <1>3 DEF Aligned, Paired
<1>4. ASSUME NEW r \in SignUpRequest, Abort(r), UNCHANGED ue PROVE Aligned'
  <2>1. su'[r].pc = "idle" /\ \A q \in SignUpRequest : q # r => su'[q] = su[q]
    BY <1>4, <1>t DEF Abort, Answer, Idle
  <2> QED BY <1>2, <1>4, <2>1 DEF Aligned, Paired
<1>5. ASSUME NEW r \in EmailRequest, EmailAbort(r), UNCHANGED su PROVE Aligned' \/ Backed'
  <2>1. ue'[r].pc = "idle" /\ \A q \in EmailRequest : q # r => ue'[q] = ue[q]
    BY <1>5, <1>t DEF EmailAbort, EmailAnswer, EmailIdle
  <2>2. CASE ue[r].pc \in RowAhead
    <3>1. \A q \in EmailRequest : Carries(ue[q])'
      BY <1>2, <2>1 DEF Backed, Carries, LoginAhead
    <3> QED BY <1>2, <1>5, <2>1, <2>2, <3>1 DEF Backed, RowAhead, LoginAhead
  <2>3. CASE ue[r].pc \notin RowAhead
    <3>1. \A q \in EmailRequest : Paired(ue[q])'
      BY <1>2, <2>1 DEF Aligned, Paired, BeforeRow, RowAhead
    <3> QED BY <1>2, <1>5, <2>1, <2>3, <3>1 DEF Aligned, RowAhead
  <2> QED BY <2>2, <2>3
<1> QED BY <1>3, <1>4, <1>5 DEF Failure, OnlySignUp, OnlyLogIn, OnlyEmail, OnlyForgot, OnlyDelete

LEMMA UsableStep ==
    ASSUME CutShortOnce
    PROVE  TypesInv /\ UsableInv /\ [AccountsNext]_accountsVars => UsableInv'
<1> SUFFICES ASSUME TypesInv, UsableInv, [AccountsNext]_accountsVars PROVE UsableInv'
  OBVIOUS
<1>c. MaxBusy = 1 /\ Admin = {} /\ failures \in {0, 1} /\ failures' \in {0, 1}
  BY TypesStep DEF CutShortOnce, TypesInv
<1>u. /\ Alone /\ LoginsAdded /\ \A r \in EmailRequest : HoldsRow(ue[r])
      /\ swallowing => failures = 0
      /\ NoneGone => /\ failures = 0 => Aligned
                     /\ failures = 0 /\ ~swallowing => Backed
                     /\ Aligned \/ (Backed /\ ~swallowing)
  BY DEF UsableInv
<1>1. /\ Alone' /\ LoginsAdded' /\ \A r \in EmailRequest : HoldsRow(ue[r])'
      /\ NoneGone' => NoneGone
  BY <1>c, <1>u, AloneStep, HeldStep
<1>2. UNCHANGED swallowing
  BY Flows
<1>3. CASE Failure
  <2>1. ~swallowing /\ failures = 0 /\ failures' = 1
    BY <1>3, <1>c DEF Failure
  <2>2. NoneGone' => Aligned' \/ Backed'
    BY <1>1, <1>3, <1>u, <2>1, CutShort
  <2> QED BY <1>1, <1>2, <2>1, <2>2 DEF UsableInv
<1>4. CASE UNCHANGED failures
  <2>1. NoneGone' /\ Aligned => Aligned'
    BY <1>1, <1>4, <1>c, <1>u, AlignedStep
  <2>2. ~swallowing /\ Backed => Backed'
    BY <1>4, <1>c, <1>u, BackedStep
  <2> QED BY <1>1, <1>2, <1>4, <1>u, <2>1, <2>2 DEF UsableInv
<1> QED BY <1>c, <1>3, <1>4, StepsInTurn

(* Whichever one flow is cut short, or however many errors are swallowed, as   *)
(* long as requests come one by one, nobody is an administrator and no user    *)
(* was deleted: a login info has a password, or names the address of its user, *)
(* to which a new password can be mailed (UpdateEmailService.updateEmail,      *)
(* AccountService.save).                                                       *)
THEOREM LoginsStayUsable ==
    ASSUME CutShortOnce
    PROVE  AccountsSpec => []EveryLoginUsable
<1>1. UsableInv => EveryLoginUsable
  <2> SUFFICES ASSUME UsableInv, Busy = 0, NoneGone, NEW e \in Email, loginInfo[e] # Nil
               PROVE  passwordInfo[e] # Nil \/ user[loginInfo[e]].email = e
    BY DEF EveryLoginUsable, NoneGone
  <2>1. /\ \A r \in SignUpRequest : su[r].pc = "idle"
        /\ \A r \in EmailRequest : ue[r].pc = "idle"
    BY BusyCounts DEF SignUpRests, EmailsRest
  <2>2. Aligned \/ Backed
    BY DEF UsableInv
  <2>3. Aligned => user[loginInfo[e]].email = e
    BY <2>1 DEF Aligned, RowAhead
  <2>4. Backed => passwordInfo[e] # Nil
    BY <2>1 DEF Backed, LoginAhead
  <2> QED BY <2>2, <2>3, <2>4
<1>2. TypesInv /\ UsableInv /\ [AccountsNext]_accountsVars => UsableInv'
  BY UsableStep
<1> QED BY <1>1, <1>2, UsableInit, TypesInit, TypesStep, PTL DEF AccountsSpec
(* An authLoginInfo cannot exist without user (AccountService.scala:126): so it *)
(* is, whenever no request is served, as long as requests come one by one, no  *)
(* flow was cut short and no user deleted; passwords may have been lost.  The  *)
(* run archived_login shows what a deletion does.                              *)
THEOREM NoLoginWithoutUserServedOneByOne ==
    ASSUME CutShortOnce
    PROVE  AccountsSpec => [](Busy = 0 /\ failures = 0 /\ NoneGone => NoLoginWithoutUser)
<1>1. TypesInv /\ UsableInv => (Busy = 0 /\ failures = 0 /\ NoneGone => NoLoginWithoutUser)
  <2> SUFFICES ASSUME TypesInv, UsableInv, Busy = 0, failures = 0, NoneGone,
                      NEW e \in Email, loginInfo[e] # Nil
               PROVE  FindByEmail(e) # {}
    BY DEF NoLoginWithoutUser
  <2>1. \A r \in EmailRequest : ue[r].pc = "idle"
    BY BusyCounts DEF EmailsRest
  <2>2. loginInfo[e] \in UserId
    BY DEF TypesInv, SignUpTypeOK, StoreTypeOK
  <2>3. user[loginInfo[e]].email = e
    BY <2>1 DEF UsableInv, Aligned, RowAhead
  <2>4. IsLive(loginInfo[e])
    BY <2>2 DEF UsableInv, LoginsAdded, NoneGone, Added, IsLive
  <2> QED BY <2>2, <2>3, <2>4 DEF FindByEmail
<1>2. TypesInv /\ UsableInv /\ [AccountsNext]_accountsVars => UsableInv'
  BY UsableStep
<1> QED BY <1>1, <1>2, UsableInit, TypesInit, TypesStep, PTL DEF AccountsSpec

-----------------------------------------------------------------------------
(* Two users with one address.  With one request at a time, nobody comes       *)
(* between the call that finds an address free and the one that writes it; a   *)
(* flow cut short, an error swallowed or a deletion only take rows away, or    *)
(* leave one that was to come out.                                             *)
UniqueInv == Alone /\ NoTwins /\ SignUpFree /\ EmailFree

LEMMA UniqueInit == AccountsInit => UniqueInv
<1> SUFFICES ASSUME AccountsInit PROVE UniqueInv
  OBVIOUS
<1>1. /\ \A r \in SignUpRequest : su[r].pc = "idle"
      /\ \A r \in EmailRequest : ue[r].pc = "idle"
      /\ \A r \in DeleteRequest : dl[r].pc = "idle"
  BY DEF AccountsInit, SignUpInit, EmailInit, DeleteInit, Idle, EmailIdle, DeleteIdle
<1>2. Alone /\ SignUpFree /\ EmailFree
  BY <1>1 DEF Alone, SignUpFree, EmailFree, SignUpRests, EmailsRest, DeletesRest
<1>3. NoTwins
  BY DEF AccountsInit, SignUpInit, StoreInit, NoTwins, FindByEmail, IsLive
<1> QED BY <1>2, <1>3 DEF UniqueInv

LEMMA UniqueStep ==
    ASSUME MaxBusy = 1
    PROVE  TypesInv /\ UniqueInv /\ [AccountsNext]_accountsVars => UniqueInv'
<1> SUFFICES ASSUME TypesInv, UniqueInv, [AccountsNext]_accountsVars PROVE UniqueInv'
  OBVIOUS
<1>u. Alone /\ NoTwins /\ SignUpFree /\ EmailFree
  BY DEF UniqueInv
<1>a. Alone'
  BY <1>u, AloneStep
<1> SUFFICES NoTwins' /\ SignUpFree' /\ EmailFree'
  BY <1>a DEF UniqueInv
<1>t. /\ SignUpTypeOK /\ StoreTypeOK /\ EmailTypes /\ DeleteTypeOK
      /\ ue \in [EmailRequest -> EmailHandler] /\ su \in [SignUpRequest -> Handler]
  BY DEF TypesInv, SignUpTypeOK, EmailTypes
<1>r. /\ SignUpRests' => SignUpFree'
      /\ EmailsRest' => EmailFree'
  BY DEF SignUpRests, EmailsRest, SignUpFree, EmailFree
<1>k. ASSUME UNCHANGED user,
             \A q \in SignUpRequest : su'[q] = su[q] \/ su'[q].pc = "idle",
             \A q \in EmailRequest : ue'[q] = ue[q] \/ ue'[q].pc = "idle"
      PROVE  NoTwins' /\ SignUpFree' /\ EmailFree'
  <2>1. \A e : FindByEmail(e)' = FindByEmail(e)
    BY <1>k, FoundStay DEF RowsStay
  <2> QED BY <1>u, <1>k, <2>1 DEF NoTwins, SignUpFree, EmailFree
<1>1. CASE Failure
  <2>1. UNCHANGED user
    BY <1>1 DEF Failure, Abort, LogInAbort, EmailAbort, ForgotAbort, DeleteAbort, store
  <2>2. /\ \A q \in SignUpRequest : su'[q] = su[q] \/ su'[q].pc = "idle"
        /\ \A q \in EmailRequest : ue'[q] = ue[q] \/ ue'[q].pc = "idle"
    BY <1>1, <1>t DEF Failure, OnlySignUp, OnlyLogIn, OnlyEmail, OnlyForgot, OnlyDelete, Abort,
       EmailAbort, Answer, EmailAnswer, Idle, EmailIdle
  <2> QED BY <1>k, <2>1, <2>2
<1>2. CASE UNCHANGED <<user, loginInfo, su, ue, dl>>
  BY <1>2, <1>k
<1>3. ASSUME NEW r \in SignUpRequest, SignUpStep(r) \/ SignUpArrives(r), UNCHANGED <<ue, dl>>,
             \A q \in SignUpRequest : q # r => su'[q].pc = "idle", EmailsRest'
      PROVE  NoTwins' /\ SignUpFree' /\ EmailFree'
  <2>1. NoTwins' /\ (su'[r].pc \in {"retrieve", "retrieveUser", "addUser"} =>
                        FreeThen(su'[r].email))
    BY <1>3, <1>t, <1>u, SignUpTwins DEF SignsUp
  <2> QED BY <1>3, <1>r, <2>1 DEF SignUpFree, FindByEmail, IsLive, FreeThen
<1>4. ASSUME NEW r \in EmailRequest, EmailStep(r) \/ EmailArrives(r), UNCHANGED <<su, dl>>,
             \A q \in EmailRequest : q # r => ue'[q].pc = "idle", SignUpRests'
      PROVE  NoTwins' /\ SignUpFree' /\ EmailFree'
  <2>1. NoTwins' /\ (ue'[r].op = "change" /\ ue'[r].pc \in {"findUser", "readRow", "writeRow"} =>
                        FreeThen(ue'[r].new))
    BY <1>4, <1>t, <1>u, EmailTwins DEF Changes
  <2> QED BY <1>4, <1>r, <2>1 DEF EmailFree, FindByEmail, IsLive, FreeThen
<1>5. ASSUME NEW r \in DeleteRequest, DeleteStep(r) \/ DeleteArrives(r), UNCHANGED <<su, ue>>,
             SignUpRests', EmailsRest'
      PROVE  NoTwins' /\ SignUpFree' /\ EmailFree'
  <2>1. UNCHANGED user \/ Archive(r) \/ Purge(r)
    BY <1>5 DEF DeleteStep, DeleteArrives, DeleteLogins, Delete, store, postgres
  <2>2. \A e \in Email : FindByEmail(e)' \subseteq FindByEmail(e)
    BY <1>t, <2>1, RowsDeleted DEF FindByEmail, IsLive
  <2> QED BY <1>5, <1>r, <1>u, <2>2 DEF NoTwins
<1> USE DEF SignUpRests, EmailsRest, DeletesRest
<1>6. ASSUME NEW r \in SignUpRequest, SignUpStep(r), UNCHANGED <<ue, dl>>
      PROVE  (\A q \in SignUpRequest : q # r => su'[q].pc = "idle") /\ EmailsRest'
  <2>1. su[r].pc # "idle" /\ \A q \in SignUpRequest : q # r => su'[q] = su[q]
    BY <1>6, <1>t, SignUpCalls
  <2> QED BY <1>6, <1>u, <2>1 DEF Alone
<1>7. ASSUME FlowsRest, NEW r \in SignUpRequest, SignUpArrives(r), UNCHANGED <<ue, dl>>
      PROVE  (\A q \in SignUpRequest : q # r => su'[q].pc = "idle") /\ EmailsRest'
  <2>1. \A q \in SignUpRequest : q # r => su'[q] = su[q]
    BY <1>7, <1>t DEF SignUpArrives, Subscribe, Resend, Confirm
  <2> QED BY <1>7, <2>1 DEF FlowsRest
<1>8. ASSUME NEW r \in EmailRequest, EmailStep(r), UNCHANGED <<su, dl>>
      PROVE  (\A q \in EmailRequest : q # r => ue'[q].pc = "idle") /\ SignUpRests'
  <2>1. ue[r].pc # "idle" /\ \A q \in EmailRequest : q # r => ue'[q] = ue[q]
    BY <1>8, <1>t, EmailMoves
  <2> QED BY <1>8, <1>u, <2>1 DEF Alone
<1>9. ASSUME FlowsRest, NEW r \in EmailRequest, EmailArrives(r), UNCHANGED <<su, dl>>
      PROVE  (\A q \in EmailRequest : q # r => ue'[q].pc = "idle") /\ SignUpRests'
  <2>1. \A q \in EmailRequest : q # r => ue'[q] = ue[q]
    BY <1>9, <1>t DEF EmailArrives, UpdateEmailRequest, ChangeEmail
  <2> QED BY <1>9, <2>1 DEF FlowsRest
<1>10. ASSUME NEW r \in DeleteRequest, DeleteStep(r), UNCHANGED <<su, ue>>
       PROVE  SignUpRests' /\ EmailsRest'
  BY <1>10, <1>u, DeleteTables DEF Alone
<1>11. ASSUME FlowsRest, UNCHANGED <<su, ue>> PROVE SignUpRests' /\ EmailsRest'
  BY <1>11 DEF FlowsRest
<1> HIDE DEF SignUpRests, EmailsRest, DeletesRest
<1> QED BY <1>1, <1>2, <1>3, <1>4, <1>5, <1>6, <1>7, <1>8, <1>9, <1>10, <1>11, StepsInTurn

(* Requests that come one by one never give an address to two users, not even  *)
(* between two of their calls, whatever is cut short, swallowed, deleted or    *)
(* changed by an administrator: a sign-up and a change of address look for the *)
(* address before they write it (SignUps.signUp,                               *)
(* UpdateEmailService.checkIfEmailIsAlreadyUsed; UserDAO.scala:54).            *)
THEOREM OneUserPerEmailServedOneByOne ==
    ASSUME MaxBusy = 1
    PROVE  AccountsSpec => []OneUserPerEmail
<1>1. UniqueInv => OneUserPerEmail
  <2> SUFFICES ASSUME NoTwins, NEW e \in Email PROVE Cardinality(FindByEmail(e)) <= 1
    BY DEF UniqueInv, OneUserPerEmail
  <2>1. CASE FindByEmail(e) = {}
    <3>1. Cardinality(FindByEmail(e)) = 0
      BY <2>1, FS_EmptySet
    <3> QED BY <3>1
  <2>2. ASSUME NEW u \in FindByEmail(e) PROVE Cardinality(FindByEmail(e)) <= 1
    <3>1. FindByEmail(e) = {u}
      BY DEF NoTwins
    <3>2. Cardinality(FindByEmail(e)) = 1
      BY <3>1, FS_Singleton
    <3> QED BY <3>2
  <2> QED BY <2>1, <2>2
<1>2. TypesInv /\ UniqueInv /\ [AccountsNext]_accountsVars => UniqueInv'
  BY UniqueStep
<1> QED BY <1>1, <1>2, UniqueInit, TypesInit, TypesStep, PTL DEF AccountsSpec

-----------------------------------------------------------------------------
(* Tokens and their time to live. A call of a flow that mails leaves the       *)
(* tokens alone or deletes one, draws one that it will give its time to live   *)
(* next, gives it, or mails one that has it; the handler is h, and then g.     *)
Unlimited(t)   == token[t].stored /\ ~token[t].ttl
Waits(h, t)    == h.pc = "expireToken" /\ h.token = t
MailReady(h)   == /\ h.pc \in {"expireToken", "mail"} => token[h.token].kind # "none"
                  /\ h.pc = "mail" => token[h.token].ttl
MailsNext(g)   == /\ g.pc \in {"expireToken", "mail"} => token'[g.token].kind # "none"
                  /\ g.pc = "mail" => token'[g.token].ttl

Works(h, g) ==
    \/ /\ h.pc # "expireToken" /\ g.pc \notin {"expireToken", "mail"}
       /\ UNCHANGED token \/ \E t \in Token : token' = TokenGone(t)
    \/ /\ h.pc # "expireToken" /\ g.pc = "expireToken"
       /\ \E k \in {"confirm", "forgot", "email"}, u \in UserId, e \in Email :
            g.token \in FreshTokens /\ token' = TokenStored(g.token, k, u, e)
    \/ /\ h.pc = "expireToken" /\ g.pc = "mail" /\ g.token = h.token
       /\ token' = [token EXCEPT ![h.token].ttl = TRUE]
    \/ /\ h.pc = "mail" /\ g.pc \notin {"expireToken", "mail"}
       /\ token' = [token EXCEPT ![h.token].sent = TRUE]

TokensLive == \A t \in Token : /\ token[t].ttl => token[t].kind # "none"
                               /\ token[t].sent => token[t].ttl

ExpiryInv ==
    /\ TokensLive
    /\ \A r \in SignUpRequest : MailReady(su[r])
    /\ \A r \in EmailRequest : MailReady(ue[r])
    /\ \A r \in ForgotRequest : MailReady(fp[r])
    /\ IsFiniteSet(Lingering) /\ Cardinality(Lingering) <= failures

(* What every token keeps.                                                     *)
TokensKept == \A t \in Token : /\ token[t].ttl => token'[t].ttl
                               /\ token[t].kind # "none" => token'[t].kind # "none"

LEMMA GoneKeeps ==
    ASSUME StoreTypeOK, TokensLive, UNCHANGED token \/ \E t \in Token : token' = TokenGone(t)
    PROVE  TokensKept /\ TokensLive' /\ \A t \in Token : Unlimited(t)' => Unlimited(t)
<1>1. ASSUME NEW t \in Token, token' = TokenGone(t)
      PROVE  \A x \in Token : /\ token'[x].ttl = token[x].ttl /\ token'[x].sent = token[x].sent
                              /\ token'[x].kind = token[x].kind
                              /\ token'[x].stored => token[x].stored
  BY <1>1 DEF StoreTypeOK, TokenGone, TokenRow
<1> QED BY <1>1 DEF TokensKept, TokensLive, Unlimited

LEMMA WorkKeeps ==
    ASSUME StoreTypeOK, TokensLive, NEW h, NEW g, Works(h, g),
           h.pc \in {"expireToken", "mail"} => h.token \in Token /\ MailReady(h)
    PROVE  /\ TokensKept /\ TokensLive' /\ MailsNext(g)
           /\ \A t \in Token : Unlimited(t)' /\ ~Waits(g, t) => Unlimited(t) /\ ~Waits(h, t)
<1>t. token \in [Token -> TokenRow]
  BY DEF StoreTypeOK
<1>1. CASE /\ h.pc # "expireToken" /\ g.pc \notin {"expireToken", "mail"}
           /\ UNCHANGED token \/ \E t \in Token : token' = TokenGone(t)
  BY <1>1, GoneKeeps DEF MailsNext, Waits
<1>2. ASSUME h.pc # "expireToken", g.pc = "expireToken", NEW k \in {"confirm", "forgot", "email"},
             NEW u \in UserId, NEW e \in Email, g.token \in FreshTokens,
             token' = TokenStored(g.token, k, u, e)
      PROVE  /\ TokensKept /\ TokensLive' /\ MailsNext(g)
             /\ \A t \in Token : Unlimited(t)' /\ ~Waits(g, t) => Unlimited(t) /\ ~Waits(h, t)
  <2>1. /\ g.token \in Token /\ token[g.token].kind = "none" /\ token'[g.token].kind = k
        /\ \A x \in Token : x # g.token => token'[x] = token[x]
    BY <1>2, TokenDrawn
  <2>2. ~token'[g.token].ttl /\ ~token'[g.token].sent
    BY <1>t, <1>2, <2>1 DEF TokenStored
  <2> QED BY <1>2, <2>1, <2>2 DEF TokensKept, TokensLive, MailReady, MailsNext, Unlimited, Waits
<1>3. CASE /\ h.pc = "expireToken" /\ g.pc = "mail" /\ g.token = h.token
           /\ token' = [token EXCEPT ![h.token].ttl = TRUE]
  <2>1. h.token \in Token /\ token[h.token].kind # "none"
    BY <1>3 DEF MailReady
  <2>2. /\ token'[h.token].ttl /\ token'[h.token].kind = token[h.token].kind
        /\ \A x \in Token : x # h.token => token'[x] = token[x]
    BY <1>t, <1>3, <2>1 DEF TokenRow
  <2> QED BY <1>3, <2>1, <2>2 DEF TokensKept, TokensLive, MailReady, MailsNext, Unlimited, Waits
<1>4. CASE /\ h.pc = "mail" /\ g.pc \notin {"expireToken", "mail"}
           /\ token' = [token EXCEPT ![h.token].sent = TRUE]
  <2>1. h.token \in Token /\ token[h.token].kind # "none" /\ token[h.token].ttl
    BY <1>4 DEF MailReady
  <2>2. /\ token'[h.token].ttl /\ token'[h.token].kind = token[h.token].kind
        /\ \A x \in Token : x # h.token => token'[x] = token[x]
    BY <1>t, <1>4, <2>1 DEF TokenRow
  <2> QED BY <1>4, <2>1, <2>2 DEF TokensKept, TokensLive, MailReady, MailsNext, Unlimited, Waits
<1> QED BY <1>1, <1>2, <1>3, <1>4 DEF Works

(* Every call of a flow that mails is work of that kind.                       *)
LEMMA SignUpWorks ==
    ASSUME TypesInv, NEW r \in SignUpRequest, SignUpArrives(r) \/ SignUpStep(r)
    PROVE  Works(su[r], su'[r]) /\ \A q \in SignUpRequest : q # r => su'[q] = su[q]
<1>t. SignUpTypeOK /\ su \in [SignUpRequest -> Handler] /\ Ready(su[r]) /\ StoreTypeOK
  BY DEF TypesInv, SignUpTypeOK
<1>o. \A q \in SignUpRequest : q # r => su'[q] = su[q]
  BY <1>t
  DEF SignUpArrives, Subscribe, Resend, Confirm, SignUpStep, Retrieve, RetrieveUser, AddUser,
      AddLogin, AddPassword, MailLookup, SaveToken, ExpireToken, SendMail, OpenSession, Activate,
      CountActive, Grant, Goto, Answer
<1>1. CASE SignUpArrives(r)
  BY <1>t, <1>o, <1>1, AfterArrival
  DEF SignUpArrives, Subscribe, Resend, Confirm, At, Works, store
<1>2. CASE SaveToken(r)
  <2>1. PICK t \in FreshTokens : /\ token' = TokenStored(t, "confirm", su[r].user, su[r].email)
                                 /\ su'[r].pc = "expireToken" /\ su'[r].token = t
    BY <1>t, <1>2, AfterSaveToken
  <2>2. su[r].pc = "saveToken" /\ su[r].user \in UserId /\ su[r].email \in Email
    BY <1>t, <1>2 DEF SaveToken, At, Ready, UserLabels, MailLabels
  <2> QED BY <1>o, <2>1, <2>2 DEF Works
<1>3. CASE ExpireToken(r)
  BY <1>t, <1>o, <1>3, AfterGoto DEF ExpireToken, At, Kept, Works
<1>4. CASE SendMail(r)
  <2>1. su'[r].pc \notin {"expireToken", "mail"}
    BY <1>t, <1>4, AfterGoto, AfterAnswer DEF SendMail, Idle
  <2> QED BY <1>o, <1>4, <2>1 DEF SendMail, At, Works
<1>5. CASE Retrieve(r) \/ RetrieveUser(r)
  <2>1. su'[r].pc \notin {"expireToken", "mail"}
    BY <1>t, <1>5, AfterRetrieve, AfterGoto, AfterAnswer DEF RetrieveUser, Idle
  <2> QED BY <1>o, <1>5, <2>1 DEF Retrieve, RetrieveUser, At, Works, store
<1>6. CASE AddUser(r)
  BY <1>t, <1>o, <1>6, AfterAddUser DEF AddUser, At, Works, redis
<1>7. CASE AddLogin(r) \/ AddPassword(r)
  BY <1>t, <1>o, <1>7, AfterGoto, AfterAnswer DEF AddLogin, AddPassword, At, Idle, Works, redis
<1>8. CASE MailLookup(r)
  <2>1. su'[r].pc \notin {"expireToken", "mail"}
    BY <1>t, <1>8, AfterMailLookup DEF Idle
  <2> QED BY <1>o, <1>8, <2>1 DEF MailLookup, At, Works, store
<1>9. CASE OpenSession(r) \/ Activate(r) \/ CountActive(r) \/ Grant(r)
  BY <1>t, <1>o, <1>9, AfterGoto, AfterAnswer
  DEF OpenSession, Activate, CountActive, Grant, At, Idle, Works, store, redis
<1> QED BY <1>1, <1>2, <1>3, <1>4, <1>5, <1>6, <1>7, <1>8, <1>9 DEF SignUpStep

LEMMA EmailWorks ==
    ASSUME TypesInv, NEW r \in EmailRequest, EmailArrives(r) \/ EmailStep(r)
    PROVE  Works(ue[r], ue'[r]) /\ \A q \in EmailRequest : q # r => ue'[q] = ue[q]
<1>t. ue \in [EmailRequest -> EmailHandler] /\ EmailReady(ue[r]) /\ EmailTypes
  BY DEF TypesInv, EmailTypes
<1>o. \A q \in EmailRequest : q # r => ue'[q] = ue[q]
  BY <1>t
  DEF EmailArrives, EmailStep, UpdateEmailRequest, ChangeEmail, RetrieveActor, RetrieveToken,
      CheckEmailIsFree, EmailFindUser, SaveEmailToken, ExpireEmailToken, SendEmailMail, ReadRow,
      WriteRow, ReadLogin, WriteLogin, ReadPassword, MovePassword, RemovePassword,
      DeleteEmailToken, EmailGoto, EmailAnswer
<1>1. ASSUME EmailArrives(r) \/ RetrieveActor(r) \/ RetrieveToken(r) \/ ReadRow(r) \/ ReadLogin(r)
             \/ ReadPassword(r)
      PROVE  UNCHANGED token /\ ue[r].pc # "expireToken" /\ ue'[r].pc \notin {"expireToken", "mail"}
  <2>1. CASE EmailArrives(r)
    <3>1. UNCHANGED token /\ ue[r].pc = "idle"
      BY <2>1 DEF EmailArrives, UpdateEmailRequest, ChangeEmail, EmailAt, store
    <3>2. ASSUME NEW e \in Email, NEW i \in UserId, NEW n \in Email, UpdateEmailRequest(r, e, i, n)
          PROVE  ue'[r].pc = "retrieveUser"
      BY <1>t, <3>2 DEF UpdateEmailRequest, EmailIdle
    <3>3. ASSUME NEW e \in Email, NEW i \in UserId, NEW t \in Token, ChangeEmail(r, e, i, t)
          PROVE  ue'[r].pc = "retrieveUser"
      BY <1>t, <3>3 DEF ChangeEmail, EmailIdle
    <3> QED BY <2>1, <3>1, <3>2, <3>3 DEF EmailArrives
  <2>2. CASE RetrieveActor(r)
    <3>1. ue[r].pc = "retrieveUser" /\ UNCHANGED token
      BY <2>2 DEF RetrieveActor, EmailAt, store
    <3>2. ASSUME NEW l \in {"checkFree", "retrieveToken"}, NEW e,
                 ue' = [ue EXCEPT ![r] = [@ EXCEPT !.pc = l, !.old = e, !.login = Nil]]
          PROVE  ue'[r].pc = l
      BY <1>t, <3>2 DEF EmailHandler
    <3> QED BY <1>t, <2>2, <3>1, <3>2, EmailEnds DEF RetrieveActor
  <2>3. CASE RetrieveToken(r)
    BY <1>t, <2>3, EmailEnds DEF RetrieveToken, EmailAt, EmailHandler, store
  <2>4. CASE ReadRow(r)
    BY <1>t, <2>4, EmailEnds DEF ReadRow, EmailAt, EmailHandler, store
  <2>5. CASE ReadLogin(r) \/ ReadPassword(r)
    BY <1>t, <2>5, EmailEnds DEF ReadLogin, ReadPassword, EmailAt, EmailHandler, store
  <2> QED BY <1>1, <2>1, <2>2, <2>3, <2>4, <2>5
<1>2. CASE SaveEmailToken(r)
  <2>1. PICK t \in FreshTokens : /\ token' = TokenStored(t, "email", ue[r].id, ue[r].new)
                                 /\ ue' = [ue EXCEPT ![r].pc = "expireToken", ![r].token = t]
    BY <1>2 DEF SaveEmailToken
  <2>2. ue[r].pc = "saveToken" /\ ue[r].id \in UserId /\ ue[r].new \in Email
    BY <1>t, <1>2 DEF SaveEmailToken, EmailAt, EmailReady
  <2>3. ue'[r].pc = "expireToken" /\ ue'[r].token = t
    BY <1>t, <2>1 DEF EmailHandler
  <2> QED BY <1>o, <2>1, <2>2, <2>3 DEF Works
<1>3. CASE ExpireEmailToken(r)
  BY <1>t, <1>3 DEF ExpireEmailToken, EmailAt, EmailGoto, EmailHandler, Works
<1>4. CASE SendEmailMail(r)
  BY <1>t, <1>4 DEF SendEmailMail, EmailAt, EmailAnswer, EmailIdle, Works
<1>5. CASE CheckEmailIsFree(r) \/ EmailFindUser(r)
  BY <1>t, <1>o, <1>5, EmailGoes, EmailEnds DEF CheckEmailIsFree, EmailFindUser, EmailAt, Works, store
<1>6. CASE WriteRow(r) \/ WriteLogin(r) \/ MovePassword(r) \/ RemovePassword(r)
  BY <1>t, <1>o, <1>6, EmailGoes, EmailEnds
  DEF WriteRow, WriteLogin, MovePassword, RemovePassword, EmailAt, Works, redis
<1>7. CASE DeleteEmailToken(r)
  <2>1. ue[r].pc = "deleteToken" /\ ue[r].token \in Token
    BY <1>t, <1>7 DEF DeleteEmailToken, EmailAt, EmailReady, ChangeLabels
  <2>2. ue'[r].pc = "idle"
    BY <1>t, <1>7, EmailEnds DEF DeleteEmailToken
  <2> QED BY <1>o, <1>7, <2>1, <2>2 DEF DeleteEmailToken, Works
<1> QED BY <1>o, <1>1, <1>2, <1>3, <1>4, <1>5, <1>6, <1>7 DEF EmailStep, Works

LEMMA ForgotWorks ==
    ASSUME TypesInv, NEW r \in ForgotRequest, ForgotArrives(r) \/ ForgotStep(r)
    PROVE  Works(fp[r], fp'[r]) /\ \A q \in ForgotRequest : q # r => fp'[q] = fp[q]
<1>t. fp \in [ForgotRequest -> ForgotHandler] /\ ForgotReady(fp[r])
  BY DEF TypesInv, ForgotTypes
<1>1. CASE ForgotArrives(r)
  BY <1>t, <1>1 DEF ForgotArrives, AskNewPassword, ChangePassword, ForgotAt, ForgotIdle, Works, store
<1>2. CASE SaveForgotToken(r)
  <2>1. PICK t \in FreshTokens : /\ token' = TokenStored(t, "forgot", fp[r].user, fp[r].email)
                                 /\ fp' = [fp EXCEPT ![r].pc = "expireToken", ![r].token = t]
    BY <1>2 DEF SaveForgotToken
  <2>2. fp[r].pc = "saveToken" /\ fp[r].user \in UserId /\ fp[r].email \in Email
    BY <1>t, <1>2 DEF SaveForgotToken, ForgotAt, ForgotReady
  <2>3. /\ fp'[r].pc = "expireToken" /\ fp'[r].token = t
        /\ \A q \in ForgotRequest : q # r => fp'[q] = fp[q]
    BY <1>t, <2>1 DEF ForgotHandler
  <2> QED BY <2>1, <2>2, <2>3 DEF Works
<1>3. CASE ExpireForgotToken(r)
  BY <1>t, <1>3 DEF ExpireForgotToken, ForgotAt, ForgotGoto, ForgotHandler, Works
<1>4. CASE SendForgotMail(r)
  BY <1>t, <1>4 DEF SendForgotMail, ForgotAt, ForgotAnswer, ForgotIdle, Works
<1>5. CASE ForgotFindUser(r) \/ SetPassword(r)
  BY <1>t, <1>5
  DEF ForgotFindUser, SetPassword, ForgotAt, ForgotGoto, ForgotAnswer, ForgotIdle, ForgotHandler,
      Works, store
<1>6. CASE DropToken(r)
  <2>1. fp[r].pc = "dropToken" /\ fp[r].token \in Token
    BY <1>t, <1>6 DEF DropToken, ForgotAt, ForgotReady
  <2> QED BY <1>t, <1>6, <2>1 DEF DropToken, ForgotAnswer, ForgotIdle, Works
<1> QED BY <1>1, <1>2, <1>3, <1>4, <1>5, <1>6 DEF ForgotStep

(* A flow that does not mail leaves the tokens and the mails of others alone.  *)
LEMMA OthersRest ==
    ASSUME (\E r \in LogInRequest : LogInArrives(r) \/ LogInStep(r) \/ LogInAbort(r))
           \/ (\E r \in DeleteRequest : DeleteArrives(r) \/ DeleteStep(r) \/ DeleteAbort(r))
    PROVE  UNCHANGED token
BY DEF LogInArrives, LogInStep, LogInAbort, Authenticate, LogOut, RetrieveLogin, RetrieveOwner,
   InitSession, CloseSession, DeleteArrives, DeleteStep, DeleteAbort, Delete, Archive, DeleteLogins,
   Purge, store, redis

LEMMA ExpiryInit == AccountsInit => ExpiryInv
<1> SUFFICES ASSUME AccountsInit PROVE ExpiryInv
  OBVIOUS
<1>1. /\ token = [t \in Token |-> [kind |-> "none", stored |-> FALSE, user |-> Nil,
                                   email |-> Nil, ttl |-> FALSE, sent |-> FALSE]]
      /\ failures = 0
  BY DEF AccountsInit, SignUpInit, StoreInit
<1>2. /\ \A r \in SignUpRequest : su[r].pc = "idle"
      /\ \A r \in EmailRequest : ue[r].pc = "idle"
      /\ \A r \in ForgotRequest : fp[r].pc = "idle"
  BY DEF AccountsInit, SignUpInit, EmailInit, ForgotInit, Idle, EmailIdle, ForgotIdle
<1>3. Lingering = {}
  BY <1>1 DEF Lingering
<1> QED BY <1>1, <1>2, <1>3, FS_EmptySet DEF ExpiryInv, TokensLive, MailReady

(* The tokens without a time to live, before a step and after it: none but the *)
(* one of a flow that is cut short joins them.                                 *)
LEMMA LingeringShrinks ==
    ASSUME TypesInv, ExpiryInv, UNCHANGED failures, Lingering' \subseteq Lingering
    PROVE  IsFiniteSet(Lingering)' /\ (Cardinality(Lingering) <= failures)'
<1>1. /\ IsFiniteSet(Lingering') /\ Cardinality(Lingering') \in Nat
      /\ Cardinality(Lingering) \in Nat /\ Cardinality(Lingering') <= Cardinality(Lingering)
  BY FS_Subset, FS_CardinalityType DEF ExpiryInv
<1>2. failures \in Nat /\ Cardinality(Lingering) <= failures
  BY BoundsAssumption DEF TypesInv, ExpiryInv
<1> QED BY <1>1, <1>2

LEMMA LingeringGrows ==
    ASSUME TypesInv, ExpiryInv, failures' = failures + 1, NEW x, Lingering' \subseteq Lingering \cup {x}
    PROVE  IsFiniteSet(Lingering)' /\ (Cardinality(Lingering) <= failures)'
<1> DEFINE S == Lingering \cup {x}
<1>1. IsFiniteSet(S) /\ Cardinality(S) \in Nat /\ Cardinality(S) <= Cardinality(Lingering) + 1
  <2>1. IsFiniteSet(Lingering) /\ Cardinality(Lingering) \in Nat
    BY FS_CardinalityType DEF ExpiryInv
  <2>2. CASE x \in Lingering
    <3>1. S = Lingering
      BY <2>2
    <3> QED BY <2>1, <3>1
  <2>3. CASE x \notin Lingering
    BY <2>1, <2>3, FS_AddElement
  <2> QED BY <2>2, <2>3
<1>2. /\ IsFiniteSet(Lingering') /\ Cardinality(Lingering') \in Nat
      /\ Cardinality(Lingering') <= Cardinality(S)
  BY <1>1, FS_Subset, FS_CardinalityType
<1>3. failures \in Nat /\ Cardinality(Lingering) <= failures /\ Cardinality(Lingering) \in Nat
  BY BoundsAssumption, FS_CardinalityType DEF TypesInv, ExpiryInv
<1> HIDE DEF S
<1> QED BY <1>1, <1>2, <1>3

LEMMA ExpiryStep == TypesInv /\ ExpiryInv /\ [AccountsNext]_accountsVars => ExpiryInv'
<1> SUFFICES ASSUME TypesInv, ExpiryInv, [AccountsNext]_accountsVars PROVE ExpiryInv'
  OBVIOUS
<1>t. /\ StoreTypeOK /\ TokensLive
      /\ su \in [SignUpRequest -> Handler] /\ ue \in [EmailRequest -> EmailHandler]
      /\ fp \in [ForgotRequest -> ForgotHandler]
  BY DEF TypesInv, SignUpTypeOK, EmailTypes, ForgotTypes, ExpiryInv
<1>r. /\ \A r \in SignUpRequest : /\ su[r].pc \in {"expireToken", "mail"} => su[r].token \in Token
                                  /\ MailReady(su[r])
      /\ \A r \in EmailRequest : /\ ue[r].pc \in {"expireToken", "mail"} => ue[r].token \in Token
                                 /\ MailReady(ue[r])
      /\ \A r \in ForgotRequest : /\ fp[r].pc \in {"expireToken", "mail"} => fp[r].token \in Token
                                  /\ MailReady(fp[r])
  BY DEF TypesInv, SignUpTypeOK, Ready, EmailTypes, EmailReady, ForgotTypes, ForgotReady, ExpiryInv
<1>l. /\ Lingering = {t \in Token : /\ Unlimited(t)
                                    /\ \A r \in SignUpRequest : ~Waits(su[r], t)
                                    /\ \A r \in EmailRequest : ~Waits(ue[r], t)
                                    /\ \A r \in ForgotRequest : ~Waits(fp[r], t)}
      /\ Lingering' = {t \in Token : /\ Unlimited(t)'
                                     /\ \A r \in SignUpRequest : ~Waits(su'[r], t)
                                     /\ \A r \in EmailRequest : ~Waits(ue'[r], t)
                                     /\ \A r \in ForgotRequest : ~Waits(fp'[r], t)}
  BY DEF Lingering, ExpiresNext, Unlimited, Waits, At, EmailAt, ForgotAt
<1>k. ASSUME TokensKept
      PROVE  /\ \A r \in SignUpRequest : su'[r] = su[r] => MailsNext(su'[r])
             /\ \A r \in EmailRequest : ue'[r] = ue[r] => MailsNext(ue'[r])
             /\ \A r \in ForgotRequest : fp'[r] = fp[r] => MailsNext(fp'[r])
  <2>1. ASSUME NEW h, h.pc \in {"expireToken", "mail"} => h.token \in Token, MailReady(h)
        PROVE  MailsNext(h)
    BY <1>k, <2>1 DEF TokensKept, MailReady, MailsNext
  <2> QED BY <1>r, <2>1
<1>m. ASSUME TokensLive', \A r \in SignUpRequest : MailsNext(su'[r]),
             \A r \in EmailRequest : MailsNext(ue'[r]), \A r \in ForgotRequest : MailsNext(fp'[r]),
             IsFiniteSet(Lingering)' /\ (Cardinality(Lingering) <= failures)'
      PROVE  ExpiryInv'
  BY <1>m DEF ExpiryInv, MailReady, MailsNext
<1>1. ASSUME NEW r \in SignUpRequest, SignUpArrives(r) \/ SignUpStep(r), OnlySignUp, UNCHANGED failures
      PROVE  ExpiryInv'
  <2>1. Works(su[r], su'[r]) /\ \A q \in SignUpRequest : q # r => su'[q] = su[q]
    BY <1>1, SignUpWorks
  <2>2. /\ TokensKept /\ TokensLive' /\ MailsNext(su'[r])
        /\ \A t \in Token : Unlimited(t)' /\ ~Waits(su'[r], t) => Unlimited(t) /\ ~Waits(su[r], t)
    BY <1>t, <1>r, <2>1, WorkKeeps
  <2>3. Lingering' \subseteq Lingering
    BY <1>1, <1>l, <2>1, <2>2 DEF OnlySignUp
  <2> QED BY <1>1, <1>k, <1>m, <2>1, <2>2, <2>3, LingeringShrinks DEF OnlySignUp
<1>2. ASSUME NEW r \in EmailRequest, EmailArrives(r) \/ EmailStep(r), OnlyEmail, UNCHANGED failures
      PROVE  ExpiryInv'
  <2>1. Works(ue[r], ue'[r]) /\ \A q \in EmailRequest : q # r => ue'[q] = ue[q]
    BY <1>2, EmailWorks
  <2>2. /\ TokensKept /\ TokensLive' /\ MailsNext(ue'[r])
        /\ \A t \in Token : Unlimited(t)' /\ ~Waits(ue'[r], t) => Unlimited(t) /\ ~Waits(ue[r], t)
    BY <1>t, <1>r, <2>1, WorkKeeps
  <2>3. Lingering' \subseteq Lingering
    BY <1>2, <1>l, <2>1, <2>2 DEF OnlyEmail
  <2> QED BY <1>2, <1>k, <1>m, <2>1, <2>2, <2>3, LingeringShrinks DEF OnlyEmail
<1>3. ASSUME NEW r \in ForgotRequest, ForgotArrives(r) \/ ForgotStep(r), OnlyForgot, UNCHANGED failures
      PROVE  ExpiryInv'
  <2>1. Works(fp[r], fp'[r]) /\ \A q \in ForgotRequest : q # r => fp'[q] = fp[q]
    BY <1>3, ForgotWorks
  <2>2. /\ TokensKept /\ TokensLive' /\ MailsNext(fp'[r])
        /\ \A t \in Token : Unlimited(t)' /\ ~Waits(fp'[r], t) => Unlimited(t) /\ ~Waits(fp[r], t)
    BY <1>t, <1>r, <2>1, WorkKeeps
  <2>3. Lingering' \subseteq Lingering
    BY <1>3, <1>l, <2>1, <2>2 DEF OnlyForgot
  <2> QED BY <1>3, <1>k, <1>m, <2>1, <2>2, <2>3, LingeringShrinks DEF OnlyForgot
<1>4. ASSUME UNCHANGED <<su, ue, fp, failures>>,
             UNCHANGED token \/ \E t \in Token : token' = TokenGone(t)
      PROVE  ExpiryInv'
  <2>1. TokensKept /\ TokensLive' /\ \A t \in Token : Unlimited(t)' => Unlimited(t)
    BY <1>4, <1>t, GoneKeeps
  <2>2. Lingering' \subseteq Lingering
    BY <1>4, <1>l, <2>1
  <2> QED BY <1>4, <1>k, <1>m, <2>1, <2>2, LingeringShrinks
(* The only token that nobody gives its time to live any more is that of the   *)
(* flow that is cut short.                                                     *)
<1>5. CASE Failure
  <2>1. UNCHANGED token /\ failures' = failures + 1
    BY <1>5, OthersRest DEF Failure, Abort, EmailAbort, ForgotAbort, store
  <2>2. /\ TokensKept /\ TokensLive' /\ \A t \in Token : Unlimited(t)' => Unlimited(t)
    BY <2>1, <1>t, GoneKeeps
  <2>3. ASSUME NEW x, \A r \in SignUpRequest : su'[r] = su[r] \/ (su'[r].pc = "idle" /\ su[r].token = x),
               \A r \in EmailRequest : ue'[r] = ue[r] \/ (ue'[r].pc = "idle" /\ ue[r].token = x),
               \A r \in ForgotRequest : fp'[r] = fp[r] \/ (fp'[r].pc = "idle" /\ fp[r].token = x)
        PROVE  ExpiryInv'
    <3>1. Lingering' \subseteq Lingering \cup {x}
      BY <1>l, <2>2, <2>3 DEF Waits
    <3>2. /\ \A r \in SignUpRequest : MailsNext(su'[r])
          /\ \A r \in EmailRequest : MailsNext(ue'[r])
          /\ \A r \in ForgotRequest : MailsNext(fp'[r])
      BY <1>k, <2>2, <2>3 DEF MailsNext
    <3> QED BY <1>m, <2>1, <2>2, <3>1, <3>2, LingeringGrows
  <2>4. ASSUME NEW r \in SignUpRequest, Abort(r), OnlySignUp PROVE ExpiryInv'
    BY <1>t, <2>3, <2>4 DEF Abort, Answer, Idle, OnlySignUp
  <2>5. ASSUME NEW r \in EmailRequest, EmailAbort(r), OnlyEmail PROVE ExpiryInv'
    BY <1>t, <2>3, <2>5 DEF EmailAbort, EmailAnswer, EmailIdle, OnlyEmail
  <2>6. ASSUME NEW r \in ForgotRequest, ForgotAbort(r), OnlyForgot PROVE ExpiryInv'
    BY <1>t, <2>3, <2>6 DEF ForgotAbort, ForgotAnswer, ForgotIdle, OnlyForgot
  <2>7. CASE OnlyLogIn \/ OnlyDelete
    BY <2>3, <2>7 DEF OnlyLogIn, OnlyDelete
  <2> QED BY <1>5, <2>4, <2>5, <2>6, <2>7 DEF Failure
<1>6. CASE Arrival
  BY <1>1, <1>2, <1>3, <1>4, <1>6, OthersRest DEF Arrival, OnlyLogIn, OnlyDelete
<1>7. CASE Call
  BY <1>1, <1>2, <1>3, <1>4, <1>7, OthersRest
  DEF Call, SignUpCall, LogInCall, EmailCall, ForgotCall, DeleteCall, OnlyLogIn, OnlyDelete
<1>8. CASE Expiry
  BY <1>4, <1>8 DEF Expiry, TokenExpires, SessionExpires
<1>9. CASE UNCHANGED accountsVars
  BY <1>4, <1>9 DEF accountsVars, store
<1> QED BY <1>5, <1>6, <1>7, <1>8, <1>9 DEF AccountsNext

(* Whatever flows overlap and wherever they are cut short between the two      *)
(* commands that store a token, a link that was mailed has its time to live,   *)
(* and keys without one are no more than the flows cut short                   *)
(* (ConfirmEmailService.generateAndSaveToken, createAndSaveToken).             *)
THEOREM MailedTokensExpire == AccountsSpec => []MailedTokenExpires
<1>1. ExpiryInv => MailedTokenExpires
  BY DEF ExpiryInv, TokensLive, MailedTokenExpires
<1> QED BY <1>1, TypesInit, TypesStep, ExpiryInit, ExpiryStep, PTL DEF AccountsSpec
=============================================================================
