---------------------------- MODULE UserDeletion ----------------------------
(***************************************************************************)
(* UserService.delete: an administrator marks a user as deleted, purges    *)
(* its row, or purges it with its login infos.                             *)
(***************************************************************************)
EXTENDS AccountStore

CONSTANT DeleteRequest  \* the requests the server may be serving at once

VARIABLE dl   \* what each handler has to do next, and the user it found

DeleteLabels  == {"idle", "archive", "deleteLogins", "purge"}
DeleteHandler == [pc : DeleteLabels, user : UserId \cup {Nil}]
DeleteIdle    == [pc |-> "idle", user |-> Nil]

DeleteTypeOK ==
    /\ dl \in [DeleteRequest -> DeleteHandler]
    /\ \A r \in DeleteRequest : dl[r].pc # "idle" => dl[r].user \in UserId

DeleteInit == dl = [r \in DeleteRequest |-> DeleteIdle]

DeleteAt(r, label) == dl[r].pc = label
DeleteFinds(r, u, label) == dl' = [dl EXCEPT ![r] = [pc |-> label, user |-> u]]
DeleteAnswer(r)    == dl' = [dl EXCEPT ![r] = DeleteIdle]

-----------------------------------------------------------------------------
(* Only a purge looks for archived rows too; "cascade" counts with "purge".   *)
Delete(r, e) ==
    /\ DeleteAt(r, "idle")
    /\ \/ \E u \in FindByEmail(e) : DeleteFinds(r, u, "archive")
       \/ \E u \in FindDeletedOrNot(e), label \in {"deleteLogins", "purge"} :
            DeleteFinds(r, u, label)
    /\ UNCHANGED store

Archive(r) ==
    /\ DeleteAt(r, "archive")
    /\ user' = [user EXCEPT ![dl[r].user].row = IF @ = "live" THEN "deleted" ELSE @]
    /\ DeleteAnswer(r)
    /\ UNCHANGED <<loginInfo, superadmin, redis>>

DeleteLogins(r) ==
    /\ DeleteAt(r, "deleteLogins")
    /\ loginInfo' = [e \in Email |-> IF loginInfo[e] = dl[r].user THEN Nil ELSE loginInfo[e]]
    /\ dl' = [dl EXCEPT ![r].pc = "purge"]
    /\ UNCHANGED <<user, superadmin, redis>>

(* A row that a login info or a role still refers to stays, with an error;    *)
(* neither the password nor the sessions of the address are removed.          *)
Purge(r) ==
    /\ DeleteAt(r, "purge")
    /\ user' = [user EXCEPT ![dl[r].user].row = IF IsReferenced(dl[r].user) THEN @ ELSE "purged",
                            ![dl[r].user].active = @ /\ IsReferenced(dl[r].user)]
    /\ DeleteAnswer(r)
    /\ UNCHANGED <<loginInfo, superadmin, redis>>

DeleteAbort(r) ==
    /\ CallsFail
    /\ ~DeleteAt(r, "idle")
    /\ DeleteAnswer(r)
    /\ UNCHANGED store

DeleteArrives(r) == \E e \in Email : Delete(r, e)
DeleteStep(r)    == Archive(r) \/ DeleteLogins(r) \/ Purge(r)
=============================================================================
