----------------------------- MODULE MCDelivery -----------------------------
(* Delivery for TLC: which user each token belongs to, which text mentions    *)
(* which notification, and what the histories of a run exercise.              *)
EXTENDS Delivery, TLC

CONSTANTS t1, t2, u1, u2, n1, n2

MCTokenUser == t1 :> u1 @@ t2 :> u2

(* The data of one holds the UUID of the other.                               *)
MCMentions == n1 :> {n1} @@ n2 :> {n1, n2}

(* The guards of the connections alone, of those in C.                        *)
MCGuards(C, m) ==
    [notifs |-> {}, early |-> FALSE, stored |-> FALSE, conns |-> C, messages |-> m,
     refusals |-> TRUE]

(* Notifications sent to connections.                                         *)
MCForwarded(N, e) ==
    [notifs |-> N, early |-> e, stored |-> FALSE, conns |-> Conn, messages |-> 1,
     refusals |-> FALSE]

(* Notifications that are stored, mailed and marked as read.                  *)
MCStored(e) ==
    [notifs |-> Notif, early |-> e, stored |-> TRUE, conns |-> {}, messages |-> 0,
     refusals |-> FALSE]

MCOneGuard == {MCGuards({c}, 2) : c \in Conn}

MCLate  == MCOneGuard \cup {MCGuards(Conn, 1), MCForwarded(Notif, FALSE), MCStored(FALSE)}
MCEarly == MCOneGuard \cup {MCForwarded(Notif, FALSE), MCForwarded({n1}, TRUE), MCStored(TRUE)}

(* The users change places, each with its token; the notifications cannot.    *)
MCSwap == t1 :> t2 @@ t2 :> t1 @@ u1 :> u2 @@ u2 :> u1
MCSymmetry == Permutations(Conn) \cup Permutations(ReadRequest) \cup {MCSwap}
=============================================================================
