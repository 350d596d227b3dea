--------------------------- MODULE ForgotPassword ---------------------------
(***************************************************************************)
(* ForgotPasswordService: a mail with a one-time link, and the change of   *)
(* the password by whoever follows it.                                     *)
(***************************************************************************)
EXTENDS AccountStore

CONSTANT ForgotRequest  \* the requests the server may be serving at once

VARIABLE fp   \* what each handler has to do next, and its local values

forgotVars == <<store, fp>>

ForgotLabels == {"idle", "saveToken", "expireToken", "mail",
                 "findUser", "setPassword", "dropToken"}

ForgotHandler == [pc : ForgotLabels, email : Email \cup {Nil}, user : UserId \cup {Nil},
                  token : Token \cup {Nil}, password : Password \cup {Nil}]

ForgotIdle == [pc |-> "idle", email |-> Nil, user |-> Nil, token |-> Nil, password |-> Nil]

ForgotTypeOK ==
    /\ fp \in [ForgotRequest -> ForgotHandler]
    /\ \A r \in ForgotRequest :
         /\ fp[r].pc \in {"saveToken", "findUser", "setPassword"} => fp[r].email \in Email
         /\ fp[r].pc \in {"expireToken", "mail", "dropToken"} => fp[r].token \in Token

ForgotInit == fp = [r \in ForgotRequest |-> ForgotIdle]

ForgotAt(r, label)   == fp[r].pc = label
ForgotGoto(r, label) == fp' = [fp EXCEPT ![r].pc = label]
ForgotAnswer(r)      == fp' = [fp EXCEPT ![r] = ForgotIdle]

-----------------------------------------------------------------------------
AskNewPassword(r, e) ==
    /\ ForgotAt(r, "idle")
    /\ \E u \in FindByEmail(e) :
         fp' = [fp EXCEPT ![r] = [ForgotIdle EXCEPT !.pc = "saveToken", !.email = e,
                                                    !.user = u]]
    /\ UNCHANGED store

SaveForgotToken(r) ==
    /\ ForgotAt(r, "saveToken")
    /\ \E t \in FreshTokens :
         /\ token' = TokenStored(t, "forgot", fp[r].user, fp[r].email)
         /\ fp' = [fp EXCEPT ![r].pc = "expireToken", ![r].token = t]
    /\ UNCHANGED <<postgres, passwordInfo, session>>

ExpireForgotToken(r) ==
    /\ ForgotAt(r, "expireToken")
    /\ token' = [token EXCEPT ![fp[r].token].ttl = TRUE]
    /\ ForgotGoto(r, "mail")
    /\ UNCHANGED <<postgres, passwordInfo, session>>

SendForgotMail(r) ==
    /\ ForgotAt(r, "mail")
    /\ token' = [token EXCEPT ![fp[r].token].sent = TRUE]
    /\ ForgotAnswer(r)
    /\ UNCHANGED <<postgres, passwordInfo, session>>

(* The token holds the user as it was when the mail left, address included.   *)
ChangePassword(r, t, p) ==
    /\ ForgotAt(r, "idle")
    /\ TokenKnown(t, "forgot") /\ TokenFound(t, "forgot")
    /\ fp' = [fp EXCEPT ![r] = [ForgotIdle EXCEPT !.pc = "findUser", !.password = p,
                                  !.token = t, !.email = token[t].email]]
    /\ UNCHANGED store

ForgotFindUser(r) ==
    /\ ForgotAt(r, "findUser")
    /\ \/ FindByEmail(fp[r].email) # {} /\ ForgotGoto(r, "setPassword")
       \/ FindByEmail(fp[r].email) = {} /\ ForgotAnswer(r)
    /\ UNCHANGED store

(* PasswordInfoDAO.update reports success whatever Redis says.                *)
SetPassword(r) ==
    /\ ForgotAt(r, "setPassword")
    /\ \/ passwordInfo' = [passwordInfo EXCEPT ![fp[r].email] = fp[r].password]
       \/ swallowing /\ UNCHANGED passwordInfo
    /\ ForgotGoto(r, "dropToken")
    /\ UNCHANGED <<postgres, token, session>>

DropToken(r) ==
    /\ ForgotAt(r, "dropToken")
    /\ token' = TokenGone(fp[r].token)
    /\ ForgotAnswer(r)
    /\ UNCHANGED <<postgres, passwordInfo, session>>

ForgotAbort(r) ==
    /\ CallsFail
    /\ ~ForgotAt(r, "idle")
    /\ ForgotAnswer(r)
    /\ UNCHANGED store

-----------------------------------------------------------------------------
ForgotArrives(r) ==
    \/ \E e \in Email : AskNewPassword(r, e)
    \/ \E t \in Token, p \in Password : ChangePassword(r, t, p)

ForgotStep(r) ==
    \/ SaveForgotToken(r) \/ ExpireForgotToken(r) \/ SendForgotMail(r)
    \/ ForgotFindUser(r) \/ SetPassword(r) \/ DropToken(r)
=============================================================================
