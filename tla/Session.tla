------------------------------- MODULE Session -------------------------------
(***************************************************************************)
(* What authenticators promise: a session is opened once, and once it has  *)
(* ended it stays so. Authenticator implements this, with a session open   *)
(* as long as a valid copy of its authenticator is anywhere.               *)
(***************************************************************************)
CONSTANT Id

VARIABLE session   \* "new", "open", "ended"

SessionInit == session = [i \in Id |-> "new"]

(* Sessions end together when the time is up, and a renewal opens a new one.   *)
Change(B, E) ==
    /\ \A i \in B : session[i] = "new"
    /\ \A i \in E : session[i] # "new"
    /\ session' = [i \in Id |-> IF i \in B THEN "open" ELSE IF i \in E THEN "ended"
                                                               ELSE session[i]]

SessionNext == \E B, E \in SUBSET Id : Change(B, E)

SessionSpec == SessionInit /\ [][SessionNext]_session
=============================================================================
