--------------------------- MODULE SignUpInvariant ---------------------------
(***************************************************************************)
(* The inductive invariant of SignUp: what the properties of SignUp need   *)
(* to be preserved step by step.  Each part is proved in SignUpProofs.     *)
(***************************************************************************)
EXTENDS SignUp

(* A sign-up deletes no row, so that whatever refers to a user refers to a    *)
(* live one: the handlers, the tokens and the login infos.                    *)
RowsInv ==
    /\ \A u \in UserId : \/ user[u].row = "live"
                         \/ user[u].row = "never" /\ ~user[u].active
    /\ \A e \in Email : loginInfo[e] # Nil => IsLive(loginInfo[e])
    /\ \A t \in Token : token[t].kind # "none" => IsLive(token[t].user)
    /\ \A r \in SignUpRequest : su[r].pc \in UserLabels => IsLive(su[r].user)

(* Whoever is about to be granted the role is the one active user there was    *)
(* when it was counted, and the only user to have the role since.              *)
AdminInv ==
    /\ superadmin \subseteq ActiveUsers
    /\ \A r \in SignUpRequest : su[r].pc \in {"count", "grant"} => su[r].user \in ActiveUsers
    /\ \A r, q \in SignUpRequest :
         su[r].pc = "grant" /\ su[q].pc = "grant" => su[r].user = su[q].user
    /\ \A r \in SignUpRequest : su[r].pc = "grant" => superadmin \subseteq {su[r].user}
    /\ \A u, v \in superadmin : u = v

(* A sign-up between its row and its password owns its user; only the winner   *)
(* of a race for an address goes on to the password, the mail and the session. *)
RegistryInv ==
    /\ \A e \in Email : loginInfo[e] # Nil => user[loginInfo[e]].email = e
    /\ \A r \in SignUpRequest : su[r].pc = "addLogin" =>
         /\ user[su[r].user].email = su[r].email
         /\ \A e \in Email : loginInfo[e] # su[r].user
    /\ \A r \in SignUpRequest : su[r].pc = "addPassword" =>
         /\ loginInfo[su[r].email] = su[r].user
         /\ passwordInfo[su[r].email] = Nil
    /\ \A r, q \in SignUpRequest :
         /\ su[r].pc \in {"addLogin", "addPassword"}
         /\ su[q].pc \in {"addLogin", "addPassword"}
         /\ su[r].user = su[q].user
         => r = q
    /\ \A e \in Email : passwordInfo[e] # Nil => loginInfo[e] # Nil
    /\ \A r \in SignUpRequest :
         su[r].op = "signUp" /\ su[r].pc \in MailLabels \cup {"openSession"}
         => loginInfo[su[r].email] # Nil
    /\ \A e \in session : loginInfo[e] # Nil

(* A confirmation holds a token that was mailed for the user it activates, to  *)
(* the address of its row.                                                     *)
MailInv ==
    /\ \A t \in Token : token[t].kind # "none" =>
         token[t].kind = "confirm" /\ user[token[t].user].email = token[t].email
    /\ \A r \in SignUpRequest : su[r].pc = "saveToken" => user[su[r].user].email = su[r].email
    /\ \A r \in SignUpRequest : su[r].pc = "activate" =>
         LET t == su[r].token
         IN  token[t].kind = "confirm" /\ token[t].sent /\ token[t].user = su[r].user
    /\ ActiveOnlyByMail

SignUpInv == SignUpTypeOK /\ RowsInv /\ AdminInv /\ RegistryInv /\ MailInv
=============================================================================
