------------------------------ MODULE FlowProofs ------------------------------
(***************************************************************************)
(* What a call of a change of address or of a deletion leaves well formed, *)
(* and what it or one of a sign-up does to rows and addresses: lemmas for  *)
(* every composition of these flows with others.                           *)
(***************************************************************************)
EXTENDS SignUpProofs, UpdateEmail, UserDeletion, TLAPS

-----------------------------------------------------------------------------
(* The tables                                                                  *)

LEMMA SameStore == StoreTypeOK /\ UNCHANGED store => StoreTypeOK'
BY DEF StoreTypeOK, store

(* A flag of a token set or cleared: what the token says stays.               *)
SaysTheSame(t) == /\ token'[t].kind = token[t].kind /\ token'[t].user = token[t].user
                  /\ token'[t].email = token[t].email /\ (token[t].sent => token'[t].sent)

LEMMA FlagSet ==
    ASSUME StoreTypeOK, NEW t \in Token,
           \/ token' = [token EXCEPT ![t].ttl = TRUE]
           \/ token' = [token EXCEPT ![t].sent = TRUE]
           \/ token' = TokenGone(t)
    PROVE  /\ token' \in [Token -> TokenRow]
           /\ \A x \in Token : SaysTheSame(x)
<1>1. token \in [Token -> TokenRow]
  BY DEF StoreTypeOK
<1>2. CASE token' = [token EXCEPT ![t].ttl = TRUE]
  BY ZenonT(60), <1>1, <1>2 DEF TokenRow, SaysTheSame
<1>3. CASE token' = [token EXCEPT ![t].sent = TRUE]
  BY ZenonT(60), <1>1, <1>3 DEF TokenRow, SaysTheSame
<1>4. CASE token' = TokenGone(t)
  BY ZenonT(60), <1>1, <1>4 DEF TokenRow, SaysTheSame, TokenGone
<1> QED BY <1>2, <1>3, <1>4

(* A token drawn: it says what it was drawn for.                              *)
LEMMA TokenDrawn ==
    ASSUME StoreTypeOK, NEW t \in FreshTokens, NEW k \in {"confirm", "forgot", "email"},
           NEW u \in UserId, NEW e \in Email, token' = TokenStored(t, k, u, e)
    PROVE  /\ token' \in [Token -> TokenRow]
           /\ t \in Token /\ token[t].kind = "none"
           /\ token'[t].kind = k /\ token'[t].user = u /\ token'[t].email = e
           /\ \A x \in Token : x # t => token'[x] = token[x]
BY DEF StoreTypeOK, TokenStored, TokenRow, FreshTokens

LEMMA TokenTypes ==
    ASSUME StoreTypeOK, UNCHANGED <<postgres, passwordInfo, session>>,
           \/ \E t \in Token : \/ token' = [token EXCEPT ![t].ttl = TRUE]
                               \/ token' = [token EXCEPT ![t].sent = TRUE]
                               \/ token' = TokenGone(t)
           \/ \E t \in FreshTokens, k \in {"confirm", "forgot", "email"}, u \in UserId, e \in Email :
                token' = TokenStored(t, k, u, e)
    PROVE  StoreTypeOK'
<1>1. ASSUME NEW t \in Token, \/ token' = [token EXCEPT ![t].ttl = TRUE]
                              \/ token' = [token EXCEPT ![t].sent = TRUE]
                              \/ token' = TokenGone(t)
      PROVE  StoreTypeOK'
  BY <1>1, FlagSet DEF StoreTypeOK, SaysTheSame, postgres
<1>2. ASSUME NEW t \in FreshTokens, NEW k \in {"confirm", "forgot", "email"}, NEW u \in UserId,
             NEW e \in Email, token' = TokenStored(t, k, u, e)
      PROVE  StoreTypeOK'
  <2>1. /\ token' \in [Token -> TokenRow]
        /\ token'[t].user = u /\ token'[t].email = e
        /\ \A x \in Token : x # t => token'[x] = token[x]
    BY <1>2, TokenDrawn
  <2>2. \A x \in Token : token'[x].kind # "none" => token'[x].user \in UserId /\ token'[x].email \in Email
    BY <2>1 DEF StoreTypeOK
  <2> QED BY <2>1, <2>2 DEF StoreTypeOK, postgres
<1> QED BY <1>1, <1>2

-----------------------------------------------------------------------------
(* Deletion                                                                    *)
Deletes(r) == DeleteArrives(r) \/ DeleteStep(r) \/ DeleteAbort(r)

LEMMA DeleteTypesInit == DeleteInit => DeleteTypeOK
BY DEF DeleteInit, DeleteTypeOK, DeleteIdle, DeleteHandler, DeleteLabels

LEMMA DeleteTypes ==
    ASSUME StoreTypeOK, DeleteTypeOK, NEW r \in DeleteRequest, Deletes(r)
    PROVE  StoreTypeOK' /\ DeleteTypeOK'
<1> USE DEF DeleteTypeOK, DeleteHandler, DeleteLabels, DeleteIdle, DeleteAt, DeleteAnswer
<1>1. ASSUME NEW e \in Email, Delete(r, e) PROVE StoreTypeOK' /\ DeleteTypeOK'
  BY <1>1, SameStore DEF Delete, DeleteFinds, FindByEmail, FindDeletedOrNot
<1>2. CASE Archive(r)
  <2>1. dl[r].user \in UserId
    BY <1>2 DEF Archive
  <2>2. user' \in [UserId -> UserRow]
    BY ZenonT(60), <1>2, <2>1 DEF Archive, StoreTypeOK, UserRow
  <2> QED BY <1>2, <2>2 DEF Archive, StoreTypeOK, redis
<1>3. CASE DeleteLogins(r)
  BY <1>3 DEF DeleteLogins, StoreTypeOK, redis
<1>4. CASE Purge(r)
  <2>1. dl[r].user \in UserId
    BY <1>4 DEF Purge
  <2>2. user' \in [UserId -> UserRow]
    BY SMTT(30), <1>4, <2>1 DEF Purge, StoreTypeOK, UserRow
  <2> QED BY <1>4, <2>2 DEF Purge, StoreTypeOK, redis
<1>5. CASE DeleteAbort(r)
  BY <1>5, SameStore DEF DeleteAbort
<1> QED BY <1>1, <1>2, <1>3, <1>4, <1>5 DEF Deletes, DeleteArrives, DeleteStep

-----------------------------------------------------------------------------
(* Change of address: the labels of a link that is followed, and what each     *)
(* handler needs for the calls still to come.                                  *)
Changes(r) == EmailArrives(r) \/ EmailStep(r) \/ EmailAbort(r)

ChangeLabels == {"retrieveToken", "readRow", "writeRow", "readLogin", "writeLogin",
                 "readPassword", "addPassword", "removePassword", "deleteToken"}

EmailReady(h) ==
    /\ h.pc # "idle" => h.id \in UserId /\ h.op # "none"
    /\ h.pc \notin {"idle", "retrieveUser"} => h.old \in Email
    /\ h.pc \notin {"idle", "retrieveUser", "retrieveToken"} \/ h.op = "request" => h.new \in Email
    /\ h.pc \in {"expireToken", "mail"} \/ h.op = "change" => h.token \in Token
    /\ h.pc \in ChangeLabels => h.op = "change"
    /\ h.pc \in {"saveToken", "expireToken", "mail"} => h.op = "request"
    /\ h.pc \in {"retrieveUser", "writeLogin"} => h.login \in UserId
    /\ h.pc = "addPassword" => h.password \in Password

EmailTypes == ue \in [EmailRequest -> EmailHandler] /\ \A r \in EmailRequest : EmailReady(ue[r])

LEMMA EmailTypesInit == EmailInit => EmailTypes
BY DEF EmailInit, EmailTypes, EmailIdle, EmailHandler, EmailLabels, EmailReady, ChangeLabels

LEMMA EmailSet ==
    ASSUME EmailTypes, NEW r \in EmailRequest, NEW h \in EmailHandler, EmailReady(h),
           ue' = [ue EXCEPT ![r] = h]
    PROVE  EmailTypes'
BY DEF EmailTypes

LEMMA EmailRests == EmailIdle \in EmailHandler /\ EmailReady(EmailIdle)
BY DEF EmailIdle, EmailHandler, EmailLabels, EmailReady, ChangeLabels

LEMMA EmailStepTypes ==
    ASSUME StoreTypeOK, EmailTypes, NEW r \in EmailRequest, Changes(r)
    PROVE  StoreTypeOK' /\ EmailTypes'
<1>h. ue \in [EmailRequest -> EmailHandler] /\ ue[r] \in EmailHandler /\ EmailReady(ue[r])
  BY DEF EmailTypes
<1>a. ASSUME EmailAnswer(r) PROVE EmailTypes'
  BY <1>a, EmailSet, EmailRests DEF EmailAnswer
<1>g. ASSUME NEW l \in EmailLabels, EmailGoto(r, l), EmailReady([ue[r] EXCEPT !.pc = l])
      PROVE  EmailTypes'
  <2>1. [ue[r] EXCEPT !.pc = l] \in EmailHandler
    BY <1>h DEF EmailHandler
  <2>2. ue' = [ue EXCEPT ![r] = [ue[r] EXCEPT !.pc = l]]
    BY <1>g, <1>h DEF EmailGoto
  <2> QED BY <1>g, <2>1, <2>2, EmailSet
<1>s. ASSUME NEW e \in Email, SignedIn(e) PROVE Account(e) \in UserId
  BY <1>s DEF SignedIn, Account, StoreTypeOK
<1>1. ASSUME NEW e \in Email, NEW i \in UserId, NEW n \in Email, UpdateEmailRequest(r, e, i, n)
      PROVE  StoreTypeOK' /\ EmailTypes'
  <2> DEFINE h == [EmailIdle EXCEPT !.pc = "retrieveUser", !.op = "request", !.id = i,
                                    !.new = n, !.login = Account(e)]
  <2>1. h \in EmailHandler /\ EmailReady(h)
    BY <1>1, <1>s DEF UpdateEmailRequest, EmailIdle, EmailHandler, EmailLabels, EmailReady, ChangeLabels
  <2> QED BY <1>1, <2>1, EmailSet, SameStore DEF UpdateEmailRequest
<1>2. ASSUME NEW e \in Email, NEW i \in UserId, NEW t \in Token, ChangeEmail(r, e, i, t)
      PROVE  StoreTypeOK' /\ EmailTypes'
  <2> DEFINE h == [EmailIdle EXCEPT !.pc = "retrieveUser", !.op = "change", !.id = i,
                                    !.token = t, !.login = Account(e)]
  <2>1. h \in EmailHandler /\ EmailReady(h)
    BY <1>2, <1>s DEF ChangeEmail, EmailIdle, EmailHandler, EmailLabels, EmailReady, ChangeLabels
  <2> QED BY <1>2, <2>1, EmailSet, SameStore DEF ChangeEmail
<1>3. CASE RetrieveToken(r)
  <2>1. ASSUME TokenFound(ue[r].token, "email"),
               ue' = [ue EXCEPT ![r].pc = "checkFree", ![r].new = token[ue[r].token].email]
        PROVE  EmailTypes'
    <3> DEFINE h == [ue[r] EXCEPT !.pc = "checkFree", !.new = token[ue[r].token].email]
    <3>1. ue[r].token \in Token
      BY <1>3, <1>h DEF RetrieveToken, EmailAt, EmailReady, ChangeLabels
    <3>2. token[ue[r].token].email \in Email
      BY <3>1, <2>1 DEF TokenFound, StoreTypeOK
    <3>3. h \in EmailHandler /\ EmailReady(h)
      BY <1>3, <1>h, <3>1, <3>2
         DEF RetrieveToken, EmailAt, EmailHandler, EmailLabels, EmailReady, ChangeLabels
    <3>4. ue' = [ue EXCEPT ![r] = h]
      BY <2>1, <1>h
    <3> QED BY <3>3, <3>4, EmailSet
  <2> QED BY <1>3, <1>a, <2>1, SameStore DEF RetrieveToken
<1>4. CASE CheckEmailIsFree(r)
  <2>1. EmailReady([ue[r] EXCEPT !.pc = "findUser"])
    BY <1>4, <1>h DEF CheckEmailIsFree, EmailAt, EmailReady, EmailHandler, ChangeLabels
  <2> QED BY <1>4, <1>a, <1>g, <2>1, SameStore DEF CheckEmailIsFree, EmailLabels
<1>5. CASE EmailFindUser(r)
  <2>1. ASSUME ue[r].op = "request" PROVE EmailReady([ue[r] EXCEPT !.pc = "saveToken"])
    BY <1>5, <2>1, <1>h DEF EmailFindUser, EmailAt, EmailReady, EmailHandler, ChangeLabels
  <2>2. ASSUME ue[r].op # "request" PROVE EmailReady([ue[r] EXCEPT !.pc = "readRow"])
    BY <1>5, <2>2, <1>h DEF EmailFindUser, EmailAt, EmailReady, EmailHandler, ChangeLabels
  <2> QED BY <1>5, <1>a, <1>g, <2>1, <2>2, SameStore DEF EmailFindUser, EmailLabels
<1>6. CASE SaveEmailToken(r)
  <2>1. PICK t \in FreshTokens :
          /\ token' = TokenStored(t, "email", ue[r].id, ue[r].new)
          /\ ue' = [ue EXCEPT ![r].pc = "expireToken", ![r].token = t]
    BY <1>6 DEF SaveEmailToken
  <2> DEFINE h == [ue[r] EXCEPT !.pc = "expireToken", !.token = t]
  <2>2. ue' = [ue EXCEPT ![r] = h]
    BY <1>h, <2>1
  <2>3. h \in EmailHandler /\ EmailReady(h)
    BY <1>6, <1>h, <2>1
       DEF SaveEmailToken, EmailAt, EmailHandler, EmailLabels, EmailReady, FreshTokens, ChangeLabels
  <2>4. EmailTypes'
    BY <2>2, <2>3, EmailSet
  <2>5. StoreTypeOK'
    BY <1>6, <1>h, <2>1, TokenTypes DEF SaveEmailToken, EmailAt, EmailReady
  <2> QED BY <2>4, <2>5
<1>7. CASE ExpireEmailToken(r)
  <2>1. EmailReady([ue[r] EXCEPT !.pc = "mail"])
    BY <1>7, <1>h DEF ExpireEmailToken, EmailAt, EmailReady, EmailHandler, ChangeLabels
  <2>2. ue[r].token \in Token
    BY <1>7, <1>h DEF ExpireEmailToken, EmailAt, EmailReady
  <2> QED BY <1>7, <1>g, <2>1, <2>2, TokenTypes DEF ExpireEmailToken, EmailLabels
<1>8. CASE SendEmailMail(r)
  BY <1>8, <1>a, <1>h, TokenTypes DEF SendEmailMail, EmailAt, EmailReady
<1>9. CASE ReadRow(r)
  <2>1. ASSUME ue' = [ue EXCEPT ![r].pc = "writeRow", ![r].active = user[ue[r].id].active]
        PROVE  EmailTypes'
    <3> DEFINE h == [ue[r] EXCEPT !.pc = "writeRow", !.active = user[ue[r].id].active]
    <3>1. ue[r].id \in UserId
      BY <1>9, <1>h DEF ReadRow, EmailAt, EmailReady
    <3>2. user[ue[r].id].active \in BOOLEAN
      BY <3>1 DEF StoreTypeOK, UserRow
    <3>3. h \in EmailHandler /\ EmailReady(h)
      BY <1>9, <1>h, <3>2 DEF ReadRow, EmailAt, EmailHandler, EmailLabels, EmailReady, ChangeLabels
    <3>4. ue' = [ue EXCEPT ![r] = h]
      BY <2>1, <1>h
    <3> QED BY <3>3, <3>4, EmailSet
  <2> QED BY <1>9, <1>a, <2>1, SameStore DEF ReadRow
<1>10. CASE WriteRow(r)
  <2>1. EmailReady([ue[r] EXCEPT !.pc = "readLogin"])
    BY <1>10, <1>h DEF WriteRow, EmailAt, EmailReady, EmailHandler, ChangeLabels
  <2>2. ue[r].id \in UserId /\ ue[r].new \in Email /\ ue[r].active \in BOOLEAN
    BY <1>10, <1>h DEF WriteRow, EmailAt, EmailReady, EmailHandler
  <2>3. user' \in [UserId -> UserRow]
    BY <1>10, <2>2 DEF WriteRow, StoreTypeOK, UserRow
  <2>4. StoreTypeOK'
    BY <1>10, <2>3 DEF WriteRow, StoreTypeOK, redis
  <2> QED BY <1>10, <1>g, <2>1, <2>4 DEF WriteRow, EmailLabels
<1>11. CASE ReadLogin(r)
  <2>1. ASSUME loginInfo[ue[r].old] # Nil,
               ue' = [ue EXCEPT ![r].pc = "writeLogin", ![r].login = loginInfo[ue[r].old]]
        PROVE  EmailTypes'
    <3> DEFINE h == [ue[r] EXCEPT !.pc = "writeLogin", !.login = loginInfo[ue[r].old]]
    <3>1. ue[r].old \in Email
      BY <1>11, <1>h DEF ReadLogin, EmailAt, EmailReady
    <3>2. loginInfo[ue[r].old] \in UserId
      BY <2>1, <3>1 DEF StoreTypeOK
    <3>3. h \in EmailHandler /\ EmailReady(h)
      BY <1>11, <1>h, <3>2 DEF ReadLogin, EmailAt, EmailHandler, EmailLabels, EmailReady, ChangeLabels
    <3>4. ue' = [ue EXCEPT ![r] = h]
      BY <2>1, <1>h
    <3> QED BY <3>3, <3>4, EmailSet
  <2> QED BY <1>11, <1>a, <2>1, SameStore DEF ReadLogin
<1>12. CASE WriteLogin(r)
  <2>1. EmailReady([ue[r] EXCEPT !.pc = "readPassword"])
    BY <1>12, <1>h DEF WriteLogin, EmailAt, EmailReady, EmailHandler, ChangeLabels
  <2>2. ue[r].login \in UserId
    BY <1>12, <1>h DEF WriteLogin, EmailAt, EmailReady
  <2>3. StoreTypeOK'
    BY <1>12, <2>2 DEF WriteLogin, StoreTypeOK, redis
  <2> QED BY <1>12, <1>a, <1>g, <2>1, <2>3 DEF WriteLogin, EmailLabels
<1>13. CASE ReadPassword(r)
  <2>1. ASSUME passwordInfo[ue[r].old] # Nil,
               ue' = [ue EXCEPT ![r].pc = "addPassword", ![r].password = passwordInfo[ue[r].old]]
        PROVE  EmailTypes'
    <3> DEFINE h == [ue[r] EXCEPT !.pc = "addPassword", !.password = passwordInfo[ue[r].old]]
    <3>1. ue[r].old \in Email
      BY <1>13, <1>h DEF ReadPassword, EmailAt, EmailReady
    <3>2. passwordInfo[ue[r].old] \in Password
      BY <2>1, <3>1 DEF StoreTypeOK
    <3>3. h \in EmailHandler /\ EmailReady(h)
      BY <1>13, <1>h, <3>2 DEF ReadPassword, EmailAt, EmailHandler, EmailLabels, EmailReady, ChangeLabels
    <3>4. ue' = [ue EXCEPT ![r] = h]
      BY <2>1, <1>h
    <3> QED BY <3>3, <3>4, EmailSet
  <2> QED BY <1>13, <1>a, <2>1, SameStore DEF ReadPassword
<1>14. CASE MovePassword(r)
  <2>1. EmailReady([ue[r] EXCEPT !.pc = "removePassword"])
    BY <1>14, <1>h DEF MovePassword, EmailAt, EmailReady, EmailHandler, ChangeLabels
  <2>2. StoreTypeOK'
    BY <1>14, <1>h DEF MovePassword, EmailAt, EmailReady, StoreTypeOK, postgres
  <2> QED BY <1>14, <1>g, <2>1, <2>2 DEF MovePassword, EmailLabels
<1>15. CASE RemovePassword(r)
  <2>1. EmailReady([ue[r] EXCEPT !.pc = "deleteToken"])
    BY <1>15, <1>h DEF RemovePassword, EmailAt, EmailReady, EmailHandler, ChangeLabels
  <2>2. StoreTypeOK'
    BY <1>15 DEF RemovePassword, StoreTypeOK, postgres
  <2> QED BY <1>15, <1>g, <2>1, <2>2 DEF RemovePassword, EmailLabels
<1>16. CASE DeleteEmailToken(r)
  BY <1>16, <1>a, <1>h, TokenTypes DEF DeleteEmailToken, EmailAt, EmailReady, ChangeLabels
<1>17. CASE EmailAbort(r)
  BY <1>17, <1>a, SameStore DEF EmailAbort
<1>18. CASE RetrieveActor(r)
  <2> DEFINE l == IF ue[r].op = "request" THEN "checkFree" ELSE "retrieveToken"
             h == [ue[r] EXCEPT !.pc = l, !.old = user[ue[r].login].email, !.login = Nil]
  <2>1. ASSUME Retrieved(ue[r].login) PROVE h \in EmailHandler /\ EmailReady(h)
    <3>1. ue[r].pc = "retrieveUser" /\ ue[r].login \in UserId
      BY <1>18, <1>h DEF RetrieveActor, EmailAt, EmailReady
    <3>2. user[ue[r].login].email \in Email
      BY <2>1, <3>1 DEF Retrieved, StoreTypeOK, UserRow
    <3> QED BY <1>h, <3>1, <3>2 DEF EmailHandler, EmailLabels, EmailReady, ChangeLabels
  <2>2. EmailAnswer(r) \/ (Retrieved(ue[r].login) /\ ue' = [ue EXCEPT ![r] = h])
    BY <1>18, <1>h DEF RetrieveActor
  <2> QED BY <1>18, <1>a, <2>1, <2>2, EmailSet, SameStore DEF RetrieveActor
<1> QED BY <1>1, <1>2, <1>3, <1>4, <1>5, <1>6, <1>7, <1>8, <1>9, <1>10, <1>11, <1>12, <1>13,
           <1>14, <1>15, <1>16, <1>17, <1>18 DEF Changes, EmailArrives, EmailStep

(* The handler after a call that changes its label alone, or ends it.          *)
LEMMA EmailGoes ==
    ASSUME EmailTypes, NEW r \in EmailRequest, NEW l, EmailGoto(r, l)
    PROVE  /\ ue'[r].pc = l /\ ue'[r].op = ue[r].op /\ ue'[r].id = ue[r].id
           /\ ue'[r].old = ue[r].old /\ ue'[r].new = ue[r].new /\ ue'[r].login = ue[r].login
           /\ \A q \in EmailRequest : q # r => ue'[q] = ue[q]
BY DEF EmailGoto, EmailTypes, EmailHandler

LEMMA EmailEnds ==
    ASSUME EmailTypes, NEW r \in EmailRequest, EmailAnswer(r)
    PROVE  ue'[r].pc = "idle" /\ \A q \in EmailRequest : q # r => ue'[q] = ue[q]
BY DEF EmailAnswer, EmailIdle, EmailTypes

LEMMA EmailCalls ==
    ASSUME NEW r \in EmailRequest, EmailStep(r)
    PROVE  ue[r].pc # "idle"
<1>1. CASE RetrieveActor(r) \/ RetrieveToken(r) \/ CheckEmailIsFree(r) \/ EmailFindUser(r)
           \/ SaveEmailToken(r)
  BY <1>1 DEF RetrieveActor, RetrieveToken, CheckEmailIsFree, EmailFindUser, SaveEmailToken, EmailAt
<1>2. CASE ExpireEmailToken(r) \/ SendEmailMail(r) \/ ReadRow(r) \/ WriteRow(r) \/ ReadLogin(r)
  BY <1>2 DEF ExpireEmailToken, SendEmailMail, ReadRow, WriteRow, ReadLogin, EmailAt
<1>3. CASE WriteLogin(r) \/ ReadPassword(r) \/ MovePassword(r) \/ RemovePassword(r) \/ DeleteEmailToken(r)
  BY <1>3 DEF WriteLogin, ReadPassword, MovePassword, RemovePassword, DeleteEmailToken, EmailAt
<1> QED BY <1>1, <1>2, <1>3 DEF EmailStep

-----------------------------------------------------------------------------
(* Rows and addresses: what a step of a flow does to the rows, and that who is  *)
(* about to write an address has just seen that nobody has it.                 *)
SignsUp(r) == SignUpArrives(r) \/ SignUpStep(r) \/ Abort(r)

RowsStay == \A u \in UserId : user'[u].row = user[u].row /\ user'[u].email = user[u].email

RowAppears(e) ==
    \E u \in UserId : /\ user[u].row = "never" /\ user'[u].row = "live" /\ user'[u].email = e
                      /\ \A v \in UserId : v # u => user'[v] = user[v]

LEMMA RowsAdded ==
    ASSUME SignUpTypeOK, NEW r \in SignUpRequest, SignsUp(r)
    PROVE  RowsStay \/ (su[r].pc = "addUser" /\ RowAppears(su[r].email))
<1>t. user \in [UserId -> UserRow]
  BY DEF SignUpTypeOK, StoreTypeOK
<1>1. CASE AddUser(r)
  BY <1>t, <1>1 DEF AddUser, At, UserAdded, RowAppears
<1>2. CASE Activate(r)
  <2>1. user' = [user EXCEPT ![su[r].user].active = Exists(su[r].user)]
    BY <1>2 DEF Activate, ActiveUpdated
  <2> QED BY <1>t, <2>1 DEF RowsStay, UserRow
<1>3. UNCHANGED user => RowsStay
  BY DEF RowsStay
<1>4. UNCHANGED user \/ AddUser(r) \/ Activate(r)
  BY DEF SignsUp, SignUpArrives, SignUpStep, Subscribe, Resend, Confirm, Retrieve, RetrieveUser,
      AddLogin, AddPassword, MailLookup, SaveToken, ExpireToken, SendMail, OpenSession,
      CountActive, Grant, Abort, store, postgres
<1> QED BY <1>1, <1>2, <1>3, <1>4

LEMMA EmailRows ==
    ASSUME StoreTypeOK, EmailTypes, NEW r \in EmailRequest, Changes(r)
    PROVE  \/ UNCHANGED user
           \/ /\ ue[r].op = "change" /\ ue[r].pc = "writeRow" /\ ue'[r].pc = "readLogin"
              /\ Exists(ue[r].id)
              /\ user'[ue[r].id].row = "live" /\ user'[ue[r].id].email = ue[r].new
              /\ \A u \in UserId : u # ue[r].id => user'[u] = user[u]
<1>1. CASE WriteRow(r)
  <2>1. ue[r].id \in UserId /\ ue[r].op = "change" /\ ue[r].pc = "writeRow"
    BY <1>1 DEF WriteRow, EmailAt, EmailTypes, EmailReady, ChangeLabels
  <2>2. user \in [UserId -> UserRow]
    BY DEF StoreTypeOK
  <2>3. ue'[r].pc = "readLogin"
    BY <1>1, EmailGoes DEF WriteRow
  <2>4. user' = [user EXCEPT ![ue[r].id] =
                   IF Exists(ue[r].id)
                   THEN [row |-> "live", email |-> ue[r].new, active |-> ue[r].active]
                   ELSE @]
    BY <1>1 DEF WriteRow
  <2>5. CASE Exists(ue[r].id)
    BY <2>1, <2>2, <2>3, <2>4, <2>5
  <2>6. CASE ~Exists(ue[r].id)
    BY <2>1, <2>2, <2>4, <2>6
  <2> QED BY <2>5, <2>6
<1>2. UNCHANGED user \/ WriteRow(r)
  BY DEF Changes, EmailArrives, EmailStep, EmailAbort, UpdateEmailRequest, ChangeEmail,
      RetrieveActor, RetrieveToken, CheckEmailIsFree, EmailFindUser,
      SaveEmailToken, ExpireEmailToken, SendEmailMail, ReadRow, ReadLogin, WriteLogin,
      ReadPassword, MovePassword, RemovePassword, DeleteEmailToken, store, postgres
<1> QED BY <1>1, <1>2

LEMMA RowsDeleted ==
    ASSUME StoreTypeOK, DeleteTypeOK, NEW r \in DeleteRequest, NEW u \in UserId,
           UNCHANGED user \/ Archive(r) \/ Purge(r)
    PROVE  /\ user'[u].email = user[u].email
           /\ user'[u].row = "live" => user[u].row = "live"
           /\ user[u].row # "never" => user'[u].row # "never"
<1>t. user \in [UserId -> UserRow]
  BY DEF StoreTypeOK
<1>1. CASE Archive(r)
  BY <1>t, <1>1 DEF Archive, UserRow
<1>2. CASE Purge(r)
  BY <1>t, <1>2 DEF Purge, UserRow
<1> QED BY <1>1, <1>2

NoTwins == \A e \in Email : \A u, v \in FindByEmail(e) : u = v

(* The addresses that handlers have seen to be free.                           *)
SignUpFree == \A r \in SignUpRequest :
    su[r].pc \in {"retrieve", "retrieveUser", "addUser"} => FindByEmail(su[r].email) = {}
EmailFree == \A r \in EmailRequest :
    ue[r].op = "change" /\ ue[r].pc \in {"findUser", "readRow", "writeRow"} =>
       FindByEmail(ue[r].new) = {}

FreeThen(e) == \A u \in UserId : ~(user'[u].row = "live" /\ user'[u].email = e)

LEMMA FoundStay ==
    ASSUME RowsStay, NEW e
    PROVE  FindByEmail(e)' = FindByEmail(e) /\ (FindByEmail(e) = {} => FreeThen(e))
BY DEF RowsStay, FindByEmail, IsLive, FreeThen

(* A row that appears with an address that nobody had.                         *)
LEMMA RowApart ==
    ASSUME NEW u \in UserId, NEW e, FindByEmail(e) = {}, NoTwins,
           user'[u].row = "live", user'[u].email = e,
           \A v \in UserId : v # u => user'[v] = user[v]
    PROVE  NoTwins'
<1> SUFFICES ASSUME NEW f \in Email, NEW v \in FindByEmail(f)', NEW w \in FindByEmail(f)'
             PROVE  v = w
  BY DEF NoTwins
<1>1. CASE f = e
  BY <1>1 DEF FindByEmail, IsLive
<1>2. CASE f # e
  <2>1. v # u /\ w # u
    BY <1>2 DEF FindByEmail
  <2>2. v \in FindByEmail(f) /\ w \in FindByEmail(f)
    BY <2>1 DEF FindByEmail, IsLive
  <2> QED BY <2>2 DEF NoTwins
<1> QED BY <1>1, <1>2

LEMMA SignUpTwins ==
    ASSUME SignUpTypeOK, NoTwins, SignUpFree, NEW r \in SignUpRequest, SignsUp(r)
    PROVE  /\ NoTwins'
           /\ su'[r].pc \in {"retrieve", "retrieveUser", "addUser"} =>
                FreeThen(su'[r].email)
<1>1. CASE RowsStay
  <2>1. NoTwins'
    BY <1>1, FoundStay DEF NoTwins
  <2>2. ASSUME su'[r].pc \in {"retrieve", "retrieveUser", "addUser"}
        PROVE  FindByEmail(su'[r].email) = {}
    <3>1. CASE SignUpArrives(r)
      <4>a. \A h : su' = [su EXCEPT ![r] = h] => su'[r] = h
        BY DEF SignUpTypeOK
      <4>b. \A e \in Email : ~Resend(r, e)
        BY <2>2, <4>a DEF Resend, Idle
      <4>c. \A t \in Token : ~Confirm(r, t)
        BY <2>2, <4>a DEF Confirm, Idle
      <4>1. PICK e \in Email, p \in Password : Subscribe(r, e, p)
        BY <3>1, <4>b, <4>c DEF SignUpArrives
      <4> QED BY <4>1 DEF Subscribe, SignUpTypeOK, Idle
    <3>2. CASE SignUpStep(r)
      <4>1. Retrieve(r) \/ (RetrieveUser(r) /\ Kept(r))
        BY <2>2, <3>2, AfterCall, AfterAddUser, AfterMailLookup, AfterSaveToken DEF Idle
      <4>2. su'[r].email = su[r].email
        BY <4>1 DEF Retrieve, Goto, Kept, SignUpTypeOK, Handler
      <4> QED BY <4>1, <4>2 DEF SignUpFree, Retrieve, RetrieveUser, At
    <3>3. CASE Abort(r)
      BY <2>2, <3>3, AfterAnswer DEF Abort, Idle
    <3> QED BY <3>1, <3>2, <3>3 DEF SignsUp
  <2> QED BY <1>1, <2>1, <2>2, FoundStay
<1>2. CASE su[r].pc = "addUser" /\ RowAppears(su[r].email)
  <2>1. FindByEmail(su[r].email) = {}
    BY <1>2 DEF SignUpFree
  <2>2. NoTwins'
    BY <1>2, <2>1, RowApart DEF RowAppears
  <2>3. su'[r].pc \notin {"retrieve", "retrieveUser", "addUser"}
    <3>1. SignUpStep(r) \/ Abort(r)
      BY <1>2 DEF SignsUp, SignUpArrives, Subscribe, Resend, Confirm, At
    <3>2. CASE SignUpStep(r)
      <4>1. AddUser(r)
        BY <1>2, <3>2
        DEF SignUpStep, Retrieve, RetrieveUser, AddLogin, AddPassword, MailLookup,
            SaveToken, ExpireToken, SendMail, OpenSession, Activate, CountActive, Grant, At
      <4> QED BY <4>1, AfterAddUser
    <3>3. CASE Abort(r)
      BY <3>3, AfterAnswer DEF Abort, Idle
    <3> QED BY <3>1, <3>2, <3>3
  <2> QED BY <2>2, <2>3
<1> QED BY <1>1, <1>2, RowsAdded

LEMMA EmailTwins ==
    ASSUME StoreTypeOK, EmailTypes, NoTwins, EmailFree, NEW r \in EmailRequest, Changes(r)
    PROVE  /\ NoTwins'
           /\ ue'[r].op = "change" /\ ue'[r].pc \in {"findUser", "readRow", "writeRow"} =>
                FreeThen(ue'[r].new)
<1>1. CASE UNCHANGED user
  <2>1. RowsStay
    BY <1>1 DEF RowsStay
  <2>2. NoTwins'
    BY <2>1, FoundStay DEF NoTwins
  <2>3. ASSUME ue'[r].op = "change", ue'[r].pc \in {"findUser", "readRow", "writeRow"}
        PROVE  FindByEmail(ue'[r].new) = {}
    <3>h. ue \in [EmailRequest -> EmailHandler]
      BY DEF EmailTypes
    <3>1. CASE CheckEmailIsFree(r)
      <4>1. FindByEmail(ue[r].new) = {} /\ EmailGoto(r, "findUser")
        BY <2>3, <3>1, EmailEnds DEF CheckEmailIsFree
      <4> QED BY <4>1, EmailGoes
    <3>2. CASE EmailFindUser(r)
      <4>1. EmailGoto(r, IF ue[r].op = "request" THEN "saveToken" ELSE "readRow")
        BY <2>3, <3>2, EmailEnds DEF EmailFindUser
      <4>2. ue'[r].new = ue[r].new /\ ue'[r].op = ue[r].op
        BY <4>1, EmailGoes
      <4> QED BY <2>3, <3>2, <4>2 DEF EmailFindUser, EmailAt, EmailFree
    <3>3. CASE ReadRow(r)
      <4>1. ue' = [ue EXCEPT ![r].pc = "writeRow", ![r].active = user[ue[r].id].active]
        BY <2>3, <3>3, EmailEnds DEF ReadRow
      <4>2. ue'[r].new = ue[r].new /\ ue'[r].op = ue[r].op
        BY <3>h, <4>1 DEF EmailHandler
      <4> QED BY <2>3, <3>3, <4>2 DEF ReadRow, EmailAt, EmailFree
    <3>a. ~EmailAnswer(r) /\ \A l : EmailGoto(r, l) => l = ue'[r].pc
      BY <2>3, EmailGoes, EmailEnds
    <3>4. ASSUME NEW h, ue' = [ue EXCEPT ![r] = h] PROVE h = ue'[r]
      BY <3>h, <3>4
    <3>5. ASSUME NEW e \in Email, NEW i \in UserId, NEW n \in Email,
                 UpdateEmailRequest(r, e, i, n)
          PROVE  FALSE
      BY <2>3, <3>4, <3>5 DEF UpdateEmailRequest, EmailIdle
    <3>8. ASSUME NEW e \in Email, NEW i \in UserId, NEW t \in Token, ChangeEmail(r, e, i, t)
          PROVE  FALSE
      BY <2>3, <3>4, <3>8 DEF ChangeEmail, EmailIdle
    <3>9. CASE RetrieveActor(r)
      <4>1. ue'[r].pc \in {"checkFree", "retrieveToken"}
        BY <3>9, <3>a, <3>h DEF RetrieveActor, EmailHandler
      <4> QED BY <2>3, <4>1
    <3>6. CASE RetrieveToken(r) \/ SaveEmailToken(r) \/ ReadLogin(r) \/ ReadPassword(r)
      BY <2>3, <3>a, <3>h, <3>6
      DEF RetrieveToken, SaveEmailToken, ReadLogin, ReadPassword, EmailHandler
    <3>7. CASE ExpireEmailToken(r) \/ SendEmailMail(r) \/ WriteRow(r) \/ WriteLogin(r)
               \/ MovePassword(r) \/ RemovePassword(r) \/ DeleteEmailToken(r)
      BY <2>3, <3>a, <3>7
      DEF ExpireEmailToken, SendEmailMail, WriteRow, WriteLogin, MovePassword, RemovePassword,
          DeleteEmailToken
    <3> QED BY <3>1, <3>2, <3>3, <3>5, <3>6, <3>7, <3>8, <3>9, <3>a
            DEF Changes, EmailArrives, EmailStep, EmailAbort
  <2> QED BY <2>1, <2>2, <2>3, FoundStay
<1>2. CASE /\ ue[r].op = "change" /\ ue[r].pc = "writeRow" /\ ue'[r].pc = "readLogin"
           /\ user'[ue[r].id].row = "live" /\ user'[ue[r].id].email = ue[r].new
           /\ \A u \in UserId : u # ue[r].id => user'[u] = user[u]
  <2>1. FindByEmail(ue[r].new) = {} /\ ue[r].id \in UserId
    BY <1>2 DEF EmailFree, EmailTypes, EmailReady
  <2> QED BY <1>2, <2>1, RowApart
<1> QED BY <1>1, <1>2, EmailRows
=============================================================================
