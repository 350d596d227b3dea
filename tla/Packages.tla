------------------------------- MODULE Packages -------------------------------
(***************************************************************************)
(* PackageHandler: what the packages of a user still allow. A request that *)
(* costs credit reads an unbilled row of package_relation_entity_package,  *)
(* checks its state and writes the whole row back with less credit; only   *)
(* then the action runs. Rows are billed and deleted through CRUD, which   *)
(* reads and writes whole rows, too. Nothing locks a row.                  *)
(*                                                                         *)
(* jsonProcess is the application's; here it is what the module's README   *)
(* shows for addRNJ: an action needs some credit and takes one. Left out:  *)
(* the README's deleteRNJ, which gives one back (userPlusOne), and a state *)
(* that does not parse as PackageState, which counts as none (CreditOf):   *)
(* nothing in PackageHandler writes one.                                   *)
(***************************************************************************)
EXTENDS Naturals, FiniteSets, Combinatorics

CONSTANTS
    Row,        \* the rows of the user
    Request,    \* the requests the server may be serving at once
    Pack,       \* the packs on sale
    Offer,      \* Offer[p]: the credit of pack p, or None
    Allowed,    \* ActionPackage.packages: the packs that allow the action
    MaxServed,  \* bound: how many actions one row may pay for
    CallsFail,  \* TRUE: a call may fail, the server stop, an answer get lost
    None

ASSUME PackagesAssumption ==
    /\ None \notin Nat /\ IsFiniteSet(Request)
    /\ Offer \in [Pack -> Nat \cup {None}]
    /\ Allowed \subseteq Pack
    /\ MaxServed \in Nat /\ CallsFail \in BOOLEAN

VARIABLES
    row,      \* package_relation_entity_package; None: deleted
    req,      \* what each request does next, to which row, and the copy it read
    served,   \* actions that ran on the credit of each row; not in the code
    load      \* how many requests overlap at most, the same for ever; not in the code

packVars == <<row, req, served, load>>

PackageRow == [pack : Pack, billed : BOOLEAN, state : Nat \cup {None}]

ASSUME NoneAssumption == None \notin PackageRow

Idle == [pc |-> "idle"]
Busy == [pc : {"spend", "bill", "delete"}, row : Row, copy : PackageRow]

(* Types: credit is a natural number, however requests overlap.                *)
PackagesTypeOK ==
    /\ row \in [Row -> PackageRow \cup {None}]
    /\ req \in [Request -> Busy \cup {Idle}]
    /\ served \in [Row -> Nat]
    /\ load \in 1..Cardinality(Request)

PackagesInit ==
    /\ row \in [Row -> {[pack |-> p, billed |-> FALSE, state |-> None] : p \in Pack}]
    /\ req = [r \in Request |-> Idle]
    /\ served = [i \in Row |-> 0]
    /\ load \in 1..Cardinality(Request)

-----------------------------------------------------------------------------
At(r, l)  == req[r].pc = l
Answer(r) == req' = [req EXCEPT ![r] = Idle]
Carry(r, l, i) == req' = [req EXCEPT ![r] = [pc |-> l, row |-> i, copy |-> row[i]]]

(* A request arrives.                                                          *)
Arrives(r) ==
    /\ At(r, "idle")
    /\ Cardinality({q \in Request : ~At(q, "idle")}) < load

(* UPDATE matches no row when it was deleted, which is no error.               *)
Updated(i, c) == IF row[i] = None THEN row ELSE [row EXCEPT ![i] = c]

(* A slip: billed rows are not filtered out.                                   *)
ActivePackagesBilledToo == {i \in Row : row[i] # None}

(* One of them is taken, in no order.                                          *)
ActivePackages == {i \in Row : row[i] # None /\ ~row[i].billed}

(* A slip: the offer comes before the state.                                   *)
StateOrOffer(c) == IF Offer[c.pack] # None THEN Offer[c.pack] ELSE c.state

(* usersPackOrDefault: the offer if there is no state, not if it is zero.       *)
CreditOf(c) == IF c.state # None THEN c.state ELSE Offer[c.pack]

(* A slip: no credit is enough.                                                *)
PassesAtZero(c) == CreditOf(c) # None

(* checkMoreThanOne of the README.                                             *)
Passes(c) == CreditOf(c) # None /\ CreditOf(c) > 0

(* isAuthorized, up to the row that hasAccessPackage found; a row of another   *)
(* pack, or no row, is a refusal, which changes nothing.                       *)
GetUsersActivePackage(r) ==
    /\ Arrives(r)
    /\ \E i \in ActivePackages :
        /\ row[i].pack \in Allowed
        /\ Carry(r, "spend", i)
    /\ UNCHANGED <<row, served>>

(* userLessOne, of addRNJ.                                                     *)
Spent(c) == [c EXCEPT !.state = CreditOf(c) - 1]

(* mapPackageState, and then the action.                                       *)
MapPackageState(r) ==
    LET i == req[r].row  c == req[r].copy IN
    /\ At(r, "spend") /\ Passes(c)
    /\ served[i] < MaxServed
    /\ row' = Updated(i, Spent(c))
    /\ served' = [served EXCEPT ![i] = @ + 1]
    /\ Answer(r)

(* The row is written, and then the answer of the database or the server is    *)
(* lost.                                                                       *)
MapPackageStateLost(r) ==
    LET i == req[r].row  c == req[r].copy IN
    /\ CallsFail
    /\ At(r, "spend") /\ Passes(c)
    /\ row' = Updated(i, Spent(c))
    /\ Answer(r)
    /\ UNCHANGED served

NotEnoughCredit(r) ==
    /\ At(r, "spend") /\ ~Passes(req[r].copy)
    /\ Answer(r)
    /\ UNCHANGED <<row, served>>

-----------------------------------------------------------------------------
(* CRUD: the row is found, then completed and written, or deleted.             *)
Find(r) ==
    /\ Arrives(r)
    /\ \E i \in Row, l \in {"bill", "delete"} : row[i] # None /\ Carry(r, l, i)
    /\ UNCHANGED <<row, served>>

(* updateFlow with a date of billing.                                          *)
Bill(r) ==
    /\ At(r, "bill")
    /\ row' = Updated(req[r].row, [req[r].copy EXCEPT !.billed = TRUE])
    /\ Answer(r)
    /\ UNCHANGED served

(* The table has no deleted column.                                            *)
Delete(r) ==
    /\ At(r, "delete")
    /\ row' = [row EXCEPT ![req[r].row] = None]
    /\ Answer(r)
    /\ UNCHANGED served

Abort(r) ==
    /\ CallsFail
    /\ ~At(r, "idle")
    /\ Answer(r)
    /\ UNCHANGED <<row, served>>

RequestStep(r) ==
    \/ GetUsersActivePackage(r)
    \/ MapPackageState(r) \/ MapPackageStateLost(r) \/ NotEnoughCredit(r)
    \/ Find(r) \/ Bill(r) \/ Delete(r)
    \/ Abort(r)

PackagesNext == (\E r \in Request : RequestStep(r)) /\ UNCHANGED load

PackagesSpec == PackagesInit /\ [][PackagesNext]_packVars

-----------------------------------------------------------------------------
OfferOf(c) == IF Offer[c.pack] = None THEN 0 ELSE Offer[c.pack]

(* As long as requests do not overlap, credit that was served and credit that  *)
(* is left make at most the offer: what the README promises ("user can create  *)
(* 5 other users"); the reads and writes of mapPackageState keep it.           *)
OfferCovers ==
    load = 1 => \A i \in Row : row[i] # None =>
        served[i] + (IF CreditOf(row[i]) = None THEN 0 ELSE CreditOf(row[i])) <= OfferOf(row[i])

(* Requests that overlap in mapPackageState spend the same unit, and a late    *)
(* one gives back what others spent, but not for ever: n units serve at most   *)
(* as many actions as k requests at once can make of them, and then no more.   *)
CreditRunsOut ==
    \A i \in Row : row[i] # None =>
        served[i] <= choose(OfferOf(row[i]) + load, load) - 1

Left == [i \in Row |->
    IF row[i] # None /\ ~row[i].billed /\ Passes(row[i]) THEN CreditOf(row[i]) ELSE 0]

CreditOfRow == INSTANCE Credit WITH
    left    <- IF load = 1 THEN Left ELSE [i \in Row |-> 0],
    granted <- IF load = 1 THEN served ELSE [i \in Row |-> 0]

(* One request at a time: a unit is taken before the action runs, at most one  *)
(* action runs for it whatever fails, and a package that was billed or deleted *)
(* serves nothing more (isAuthorized, mapPackageState, CRUD). Histories with   *)
(* overlapping requests are mapped to no credit at all: they promise nothing.  *)
ImplementsCredit == CreditOfRow!CreditSpec
=============================================================================
