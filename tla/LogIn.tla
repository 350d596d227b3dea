-------------------------------- MODULE LogIn --------------------------------
(***************************************************************************)
(* Logins.authenticate and logOut: the credentials provider compares the   *)
(* password stored for the address, the account is retrieved - its login   *)
(* info and its user, in two transactions - and a session that names the   *)
(* address is opened; logOut retrieves the account of its session alike.   *)
(***************************************************************************)
EXTENDS AccountStore

CONSTANT LogInRequest  \* the requests the server may be serving at once

VARIABLE li   \* what each handler has to do next, and the address it serves

LogInLabels  == {"idle", "retrieve", "findUser", "open", "close"}
LogInHandler == [pc : LogInLabels, op : {"none", "in", "out"}, email : Email \cup {Nil},
                 login : UserId \cup {Nil}]
LogInIdle    == [pc |-> "idle", op |-> "none", email |-> Nil, login |-> Nil]

LogInTypeOK ==
    /\ li \in [LogInRequest -> LogInHandler]
    /\ \A r \in LogInRequest : li[r].pc # "idle" => li[r].email \in Email

LogInInit == li = [r \in LogInRequest |-> LogInIdle]

LogInAt(r, label) == li[r].pc = label
LogInAnswer(r)    == li' = [li EXCEPT ![r] = LogInIdle]

-----------------------------------------------------------------------------
Authenticate(r, e, p) ==
    /\ LogInAt(r, "idle")
    /\ passwordInfo[e] = p
    /\ li' = [li EXCEPT ![r] = [LogInIdle EXCEPT !.pc = "retrieve", !.op = "in", !.email = e]]
    /\ UNCHANGED store

LogOut(r, e) ==
    /\ LogInAt(r, "idle")
    /\ e \in session
    /\ li' = [li EXCEPT ![r] = [LogInIdle EXCEPT !.pc = "retrieve", !.op = "out", !.email = e]]
    /\ UNCHANGED store

(* An error of either query is "none", too.                                    *)
RetrieveLogin(r) ==
    /\ LogInAt(r, "retrieve")
    /\ LET login == loginInfo[li[r].email]
       IN  \/ login # Nil /\ li' = [li EXCEPT ![r] = [@ EXCEPT !.pc = "findUser", !.login = login]]
           \/ (login = Nil \/ swallowing) /\ LogInAnswer(r)
    /\ UNCHANGED store

RetrieveOwner(r) ==
    /\ LogInAt(r, "findUser")
    /\ \/ /\ FindById(li[r].login)
          /\ li' = [li EXCEPT ![r] = [@ EXCEPT !.pc = IF li[r].op = "in" THEN "open" ELSE "close",
                                              !.login = Nil]]
       \/ (~FindById(li[r].login) \/ swallowing) /\ LogInAnswer(r)
    /\ UNCHANGED store

InitSession(r) ==
    /\ LogInAt(r, "open")
    /\ session' = session \cup {li[r].email}
    /\ LogInAnswer(r)
    /\ UNCHANGED <<postgres, passwordInfo, token>>

CloseSession(r) ==
    /\ LogInAt(r, "close")
    /\ session' = session \ {li[r].email}
    /\ LogInAnswer(r)
    /\ UNCHANGED <<postgres, passwordInfo, token>>

LogInAbort(r) ==
    /\ CallsFail
    /\ ~LogInAt(r, "idle")
    /\ LogInAnswer(r)
    /\ UNCHANGED store

LogInArrives(r) ==
    \/ \E e \in Email, p \in Password : Authenticate(r, e, p)
    \/ \E e \in Email : LogOut(r, e)

LogInStep(r) == RetrieveLogin(r) \/ RetrieveOwner(r) \/ InitSession(r) \/ CloseSession(r)
=============================================================================
