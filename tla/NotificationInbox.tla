-------------------------- MODULE NotificationInbox --------------------------
(***************************************************************************)
(* What the stored notifications promise to whoever reads them: each one   *)
(* is kept at most once and, once it is gone, does not come back.          *)
(* Notifications implements this specification as long as a user has one   *)
(* request under way that marks one of them as read.                       *)
(***************************************************************************)
CONSTANT Item

VARIABLE stage   \* "new" on its way, "kept" for its reader, "gone" for good

InboxInit == stage = [i \in Item |-> "new"]

Keep(i) == stage[i] = "new" /\ stage' = [stage EXCEPT ![i] = "kept"]

(* Items are read, overtaken by a request that rewrites the list, or lost      *)
(* with a call that failed, and several may go at once.                        *)
Drop(S) == stage' = [i \in Item |-> IF i \in S THEN "gone" ELSE stage[i]]

InboxNext == (\E i \in Item : Keep(i)) \/ (\E S \in SUBSET Item : Drop(S))

InboxSpec == InboxInit /\ [][InboxNext]_stage
=============================================================================
