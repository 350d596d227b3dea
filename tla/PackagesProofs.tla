---------------------------- MODULE PackagesProofs ----------------------------
(***************************************************************************)
(* Theorems about Packages, for any rows, packs and offers: types, and how *)
(* much credit can serve, for any number of requests at once; what a       *)
(* package promises, for one at a time.                                    *)
(***************************************************************************)
EXTENDS Packages, Integers, FiniteSetTheorems, WellFoundedInduction, TLAPS

-----------------------------------------------------------------------------
(* What a busy request carries, and what it did to the requests.               *)
LEMMA BusyHolds ==
    ASSUME PackagesTypeOK, NEW r \in Request, req[r].pc # "idle"
    PROVE  /\ req[r] \in Busy
           /\ req[r].row \in Row /\ req[r].copy \in PackageRow
           /\ req[r].pc \in {"spend", "bill", "delete"}
BY DEF PackagesTypeOK, Busy, Idle

(* The credit of a row is a number or None, and goes down where there is some. *)
LEMMA CreditType ==
    ASSUME NEW c \in PackageRow
    PROVE  /\ CreditOf(c) \in Nat \cup {None}
           /\ Passes(c) => /\ CreditOf(c) \in Nat /\ CreditOf(c) > 0
                           /\ Spent(c) \in PackageRow
                           /\ CreditOf(Spent(c)) = CreditOf(c) - 1
                           /\ Spent(c).pack = c.pack /\ Spent(c).billed = c.billed
<1>1. CreditOf(c) \in Nat \cup {None}
  BY PackagesAssumption DEF CreditOf, PackageRow
<1>2. ASSUME Passes(c)
      PROVE  CreditOf(c) \in Nat /\ CreditOf(c) > 0 /\ CreditOf(c) - 1 \in Nat
  BY <1>1, <1>2, PackagesAssumption DEF Passes
<1>3. ASSUME Passes(c)
      PROVE  /\ Spent(c) \in PackageRow /\ Spent(c).state = CreditOf(c) - 1
             /\ Spent(c).pack = c.pack /\ Spent(c).billed = c.billed
  BY <1>2, <1>3 DEF Spent, PackageRow
<1>4. ASSUME Passes(c) PROVE CreditOf(Spent(c)) = CreditOf(c) - 1
  <2>1. ASSUME NEW d, d.state # None PROVE CreditOf(d) = d.state
    BY <2>1 DEF CreditOf
  <2>2. PICK d : d = Spent(c)
    OBVIOUS
  <2>3. d.state = CreditOf(c) - 1 /\ d.state # None
    BY <2>2, <1>2, <1>3, <1>4, PackagesAssumption
  <2> QED BY <2>1, <2>2, <2>3
<1> QED BY <1>1, <1>2, <1>3, <1>4

LEMMA TypeInit == PackagesInit => PackagesTypeOK
<1> SUFFICES ASSUME PackagesInit PROVE PackagesTypeOK
  OBVIOUS
<1>1. \A p \in Pack : [pack |-> p, billed |-> FALSE, state |-> None] \in PackageRow
  BY DEF PackageRow
<1>2. row \in [Row -> PackageRow \cup {None}]
  BY <1>1 DEF PackagesInit
<1> QED BY <1>2 DEF PackagesInit, PackagesTypeOK

(* How many requests overlap in a history is never changed.                    *)
LEMMA LoadStays == [PackagesNext]_packVars => UNCHANGED load
BY DEF PackagesNext, packVars

LEMMA TypeStep == PackagesTypeOK /\ [PackagesNext]_packVars => PackagesTypeOK'
<1> SUFFICES ASSUME PackagesTypeOK, [PackagesNext]_packVars PROVE PackagesTypeOK'
  OBVIOUS
<1>0. load' = load /\ load \in 1..Cardinality(Request)
  BY LoadStays DEF PackagesTypeOK
<1>1. CASE UNCHANGED packVars
  BY <1>1 DEF packVars, PackagesTypeOK
<1>2. ASSUME NEW r \in Request, RequestStep(r) PROVE PackagesTypeOK'
  <2>a. Answer(r) => req' \in [Request -> Busy \cup {Idle}]
    BY DEF Answer, PackagesTypeOK
  <2>c. ASSUME NEW i \in Row, row[i] # None, NEW l \in {"spend", "bill", "delete"}, Carry(r, l, i)
        PROVE  req' \in [Request -> Busy \cup {Idle}]
    BY <2>c DEF Carry, PackagesTypeOK, Busy
  <2>u. ASSUME NEW i \in Row, NEW c \in PackageRow
        PROVE  Updated(i, c) \in [Row -> PackageRow \cup {None}]
    BY DEF Updated, PackagesTypeOK
  <2>1. CASE GetUsersActivePackage(r)
    BY <1>0, <2>1, <2>c DEF GetUsersActivePackage, ActivePackages, PackagesTypeOK
  <2>2. CASE MapPackageState(r)
    <3>1. req[r].row \in Row /\ req[r].copy \in PackageRow
      BY <2>2, BusyHolds DEF MapPackageState, At
    <3>2. Updated(req[r].row, Spent(req[r].copy)) \in [Row -> PackageRow \cup {None}]
      BY <2>2, <3>1, <2>u, CreditType DEF MapPackageState
    <3> QED BY <1>0, <2>2, <3>1, <3>2, <2>a DEF MapPackageState, PackagesTypeOK
  <2>3. CASE MapPackageStateLost(r)
    <3>1. req[r].row \in Row /\ req[r].copy \in PackageRow
      BY <2>3, BusyHolds DEF MapPackageStateLost, At
    <3>2. Updated(req[r].row, Spent(req[r].copy)) \in [Row -> PackageRow \cup {None}]
      BY <2>3, <3>1, <2>u, CreditType DEF MapPackageStateLost
    <3> QED BY <1>0, <2>3, <3>2, <2>a DEF MapPackageStateLost, PackagesTypeOK
  <2>4. CASE NotEnoughCredit(r)
    BY <1>0, <2>4, <2>a DEF NotEnoughCredit, PackagesTypeOK
  <2>5. CASE Find(r)
    BY <1>0, <2>5, <2>c DEF Find, PackagesTypeOK
  <2>6. CASE Bill(r)
    <3>1. req[r].row \in Row /\ req[r].copy \in PackageRow
      BY <2>6, BusyHolds DEF Bill, At
    <3>2. [req[r].copy EXCEPT !.billed = TRUE] \in PackageRow
      BY <3>1 DEF PackageRow
    <3> QED BY <1>0, <2>6, <3>1, <3>2, <2>a, <2>u DEF Bill, PackagesTypeOK
  <2>7. CASE Delete(r)
    BY <1>0, <2>7, <2>a DEF Delete, PackagesTypeOK
  <2>8. CASE Abort(r)
    BY <1>0, <2>8, <2>a DEF Abort, PackagesTypeOK
  <2> QED BY <1>2, <2>1, <2>2, <2>3, <2>4, <2>5, <2>6, <2>7, <2>8 DEF RequestStep
<1> QED BY <1>1, <1>2 DEF PackagesNext

(* Credit stays a natural number, and every request holds a row of the table,  *)
(* however many requests overlap and wherever they are cut short.              *)
THEOREM TypeCorrect == PackagesSpec => []PackagesTypeOK
BY TypeInit, TypeStep, PTL DEF PackagesSpec

-----------------------------------------------------------------------------
(* One request at a time: the others are idle, nothing changes a row between   *)
(* the read and the write of a request, and what it spends from was not billed.*)
OneBusy == \A r, q \in Request : req[r].pc # "idle" /\ req[q].pc # "idle" => r = q

CopyCurrent ==
    \A r \in Request : req[r].pc # "idle" =>
        /\ row[req[r].row] = req[r].copy
        /\ req[r].pc = "spend" => ~req[r].copy.billed

SerialInv == PackagesTypeOK /\ (load = 1 => OneBusy /\ CopyCurrent) /\ OfferCovers

LEMMA SerialInit == PackagesInit => SerialInv
<1> SUFFICES ASSUME PackagesInit PROVE OneBusy /\ CopyCurrent /\ OfferCovers
  BY TypeInit DEF SerialInv
<1>1. OneBusy /\ CopyCurrent
  BY DEF PackagesInit, OneBusy, CopyCurrent, Idle
<1>2. OfferCovers
  BY PackagesAssumption DEF PackagesInit, OfferCovers, CreditOf, OfferOf
<1> QED BY <1>1, <1>2

(* A step of a request finds all others idle.                                  *)
LEMMA OthersIdle ==
    ASSUME SerialInv, load = 1, NEW r \in Request, RequestStep(r)
    PROVE  \A q \in Request : q # r => req[q].pc = "idle"
<1>1. CASE req[r].pc # "idle"
  BY <1>1 DEF SerialInv, OneBusy
<1>2. CASE req[r].pc = "idle"
  <2> DEFINE B == {q \in Request : ~At(q, "idle")}
  <2>1. Cardinality(B) < 1
    BY <1>2 DEF RequestStep, GetUsersActivePackage, MapPackageState, MapPackageStateLost,
       NotEnoughCredit, Find, Bill, Delete, Abort, Arrives, At
  <2>2. IsFiniteSet(B)
    BY PackagesAssumption, FS_Subset
  <2>3. B = {}
    BY <2>1, <2>2, FS_CardinalityType, FS_EmptySet
  <2> QED BY <2>3 DEF At
<1> QED BY <1>1, <1>2

LEMMA SerialStep == SerialInv /\ [PackagesNext]_packVars => SerialInv'
<1> SUFFICES ASSUME SerialInv, [PackagesNext]_packVars, load = 1
             PROVE  OneBusy' /\ CopyCurrent' /\ OfferCovers'
  BY TypeStep, LoadStays DEF SerialInv, OfferCovers
<1>n. PackagesTypeOK /\ OneBusy /\ CopyCurrent /\ OfferCovers
  BY DEF SerialInv
<1>1. CASE UNCHANGED packVars
  BY <1>1, <1>n DEF packVars, OneBusy, CopyCurrent, OfferCovers
<1>2. ASSUME NEW r \in Request, RequestStep(r) PROVE OneBusy' /\ CopyCurrent' /\ OfferCovers'
  <2>o. \A q \in Request : q # r => req[q].pc = "idle"
    BY <1>2, OthersIdle
  <2>a. Answer(r) => OneBusy' /\ CopyCurrent'
    BY <2>o, <1>n DEF Answer, OneBusy, CopyCurrent, PackagesTypeOK, Idle
  <2>c. ASSUME NEW i \in Row, NEW l, Carry(r, l, i), UNCHANGED row, l = "spend" => ~row[i].billed
        PROVE  OneBusy' /\ CopyCurrent'
    BY <2>c, <2>o, <1>n DEF Carry, OneBusy, CopyCurrent, PackagesTypeOK
  <2>s. UNCHANGED <<row, served>> => OfferCovers'
    BY <1>n DEF OfferCovers
  <2>b. ASSUME req[r].pc # "idle"
        PROVE  /\ req[r].row \in Row /\ req[r].copy \in PackageRow
               /\ row[req[r].row] = req[r].copy /\ row[req[r].row] # None
    BY <2>b, <1>n, BusyHolds, NoneAssumption DEF CopyCurrent
  (* A row that pays for an action, or for one whose answer is lost.           *)
  <2>p. ASSUME NEW i \in Row, NEW c \in PackageRow, row[i] = c, Passes(c),
               row' = Updated(i, Spent(c)),
               served' \in {served, [served EXCEPT ![i] = @ + 1]}
        PROVE  OfferCovers'
    <3>1. row' = [row EXCEPT ![i] = Spent(c)] /\ c # None
      BY <2>p, NoneAssumption DEF Updated
    <3>2. /\ CreditOf(c) \in Nat /\ CreditOf(c) # None /\ CreditOf(Spent(c)) = CreditOf(c) - 1
          /\ CreditOf(c) > 0 /\ OfferOf(Spent(c)) = OfferOf(c) /\ OfferOf(c) \in Nat
      BY <2>p, CreditType, PackagesAssumption DEF OfferOf, PackageRow
    <3>3. served[i] + CreditOf(c) <= OfferOf(c)
      BY <2>p, <3>1, <3>2, <1>n DEF OfferCovers
    <3>4. served'[i] \in Nat /\ served'[i] <= served[i] + 1 /\ served[i] \in Nat
      BY <2>p, <1>n DEF PackagesTypeOK
    <3>5. served'[i] + (CreditOf(c) - 1) <= OfferOf(c) /\ CreditOf(c) - 1 \in Nat
      BY <3>2, <3>3, <3>4
    <3>6. CreditOf(c) - 1 # None
      BY <3>5, PackagesAssumption
    <3>7. row'[i] = Spent(c)
      BY <3>1, <1>n DEF PackagesTypeOK
    <3>8. \A j \in Row : j # i => row'[j] = row[j] /\ served'[j] = served[j]
      BY <2>p, <3>1, <1>n DEF PackagesTypeOK
    <3> HIDE DEF CreditOf, OfferOf
    <3>9. ASSUME NEW j \in Row, row'[j] # None
          PROVE  served'[j] + (IF CreditOf(row'[j]) = None THEN 0 ELSE CreditOf(row'[j]))
                    <= OfferOf(row'[j])
      <4>1. CASE j = i
        BY <4>1, <3>2, <3>5, <3>6, <3>7
      <4>2. CASE j # i
        BY <4>2, <3>8, <3>9, <1>n DEF OfferCovers
      <4> QED BY <4>1, <4>2
    <3> QED BY <3>9 DEF OfferCovers, CreditOf, OfferOf
  <2>1. CASE GetUsersActivePackage(r)
    BY <2>1, <2>c, <2>s DEF GetUsersActivePackage, ActivePackages
  <2>2. CASE MapPackageState(r)
    BY <2>2, <2>a, <2>b, <2>p DEF MapPackageState, At
  <2>3. CASE MapPackageStateLost(r)
    BY <2>3, <2>a, <2>b, <2>p DEF MapPackageStateLost, At
  <2>4. CASE NotEnoughCredit(r)
    BY <2>4, <2>a, <2>s DEF NotEnoughCredit
  <2>5. CASE Find(r)
    BY <2>5, <2>c, <2>s DEF Find
  <2>6. CASE Bill(r)
    <3> DEFINE i == req[r].row  c == req[r].copy  d == [c EXCEPT !.billed = TRUE]
    <3>1. i \in Row /\ c \in PackageRow /\ row[i] = c /\ row[i] # None
      BY <2>6, <2>b DEF Bill, At
    <3>2. row' = [row EXCEPT ![i] = d] /\ UNCHANGED served /\ OneBusy' /\ CopyCurrent'
      BY <2>6, <3>1, <2>a DEF Bill, Updated
    <3>3. d.state = c.state /\ d.pack = c.pack
      BY <3>1 DEF PackageRow
    <3>4. CreditOf(d) = CreditOf(c) /\ OfferOf(d) = OfferOf(c)
      BY <3>3 DEF CreditOf, OfferOf
    <3>5. \A j \in Row : row'[j] = IF j = i THEN d ELSE row[j]
      BY <3>2, <1>n DEF PackagesTypeOK
    <3> HIDE DEF d
    <3> QED BY <3>1, <3>2, <3>4, <3>5, <1>n DEF OfferCovers
  <2>7. CASE Delete(r)
    <3>1. req[r].row \in Row
      BY <2>7, <2>b DEF Delete, At
    <3>2. \A j \in Row : row'[j] = IF j = req[r].row THEN None ELSE row[j]
      BY <2>7, <3>1, <1>n DEF Delete, PackagesTypeOK
    <3>3. UNCHANGED served /\ OneBusy' /\ CopyCurrent'
      BY <2>7, <2>a DEF Delete
    <3> QED BY <3>2, <3>3, <1>n DEF OfferCovers
  <2>8. CASE Abort(r)
    BY <2>8, <2>a, <2>s DEF Abort
  <2> QED BY <1>2, <2>1, <2>2, <2>3, <2>4, <2>5, <2>6, <2>7, <2>8 DEF RequestStep
<1> QED BY <1>1, <1>2 DEF PackagesNext

(* As long as requests do not overlap, the offer covers what was served and    *)
(* what is left, for every pack and wherever a request is cut short.           *)
THEOREM OfferCoversSerially == PackagesSpec => []OfferCovers
<1>1. SerialInv /\ [PackagesNext]_packVars => SerialInv'
  BY SerialStep
<1>2. SerialInv => OfferCovers
  BY DEF SerialInv
<1> QED BY <1>1, <1>2, SerialInit, PTL DEF PackagesSpec

-----------------------------------------------------------------------------
(* The refinement: what is left of one row.                                    *)
LeftOf(c) == IF c # None /\ ~c.billed /\ Passes(c) THEN CreditOf(c) ELSE 0

LEMMA LeftIs == Left = [i \in Row |-> LeftOf(row[i])]
BY DEF Left, LeftOf

LEMMA LeftType == ASSUME PackagesTypeOK PROVE Left \in [Row -> Nat]
<1>1. \A i \in Row : LeftOf(row[i]) \in Nat
  BY CreditType DEF LeftOf, PackagesTypeOK
<1> QED BY <1>1, LeftIs

(* A row that pays for an action has one unit less, and nothing if billed.     *)
LEMMA LeftSpent ==
    ASSUME NEW c \in PackageRow, Passes(c), ~c.billed
    PROVE  LeftOf(c) > 0 /\ LeftOf(c) \in Nat /\ LeftOf(Spent(c)) = LeftOf(c) - 1
<1>1. c # None /\ Spent(c) # None /\ ~Spent(c).billed
  BY CreditType, NoneAssumption
<1>2. LeftOf(c) = CreditOf(c) /\ CreditOf(c) \in Nat /\ CreditOf(c) > 0
  BY <1>1, CreditType DEF LeftOf
<1>3. PICK d : d = Spent(c)
  OBVIOUS
<1>4. d # None /\ ~d.billed /\ CreditOf(d) = CreditOf(c) - 1
  BY <1>1, <1>3, CreditType
<1>5. LeftOf(d) = CreditOf(c) - 1
  <2>1. CreditOf(d) \in Nat /\ CreditOf(d) # None
    BY <1>2, <1>4, PackagesAssumption
  <2>2. Passes(d) <=> CreditOf(d) > 0
    BY <2>1 DEF Passes
  <2> QED BY <1>2, <1>4, <2>1, <2>2 DEF LeftOf
<1> QED BY <1>2, <1>3, <1>5

(* Credit's variables, as Packages maps them.                                  *)
LeftThere    == IF load = 1 THEN Left ELSE [i \in Row |-> 0]
GrantedThere == IF load = 1 THEN served ELSE [i \in Row |-> 0]

LEMMA CreditStep ==
    SerialInv /\ [PackagesNext]_packVars
        => [CreditOfRow!CreditNext]_<<LeftThere, GrantedThere>>
<1>u. [PackagesNext]_packVars /\ load # 1 => UNCHANGED <<LeftThere, GrantedThere>>
  BY LoadStays DEF LeftThere, GrantedThere
<1> SUFFICES ASSUME SerialInv, [PackagesNext]_packVars, load = 1, load' = 1
             PROVE  CreditOfRow!CreditNext \/ UNCHANGED <<Left, served>>
  BY <1>u, LoadStays DEF LeftThere, GrantedThere
<1>n. PackagesTypeOK /\ CopyCurrent
  BY DEF SerialInv
<1>l. Left = [i \in Row |-> LeftOf(row[i])] /\ Left' = [i \in Row |-> LeftOf(row'[i])]
  BY LeftIs DEF Left, LeftOf, Passes, CreditOf
<1>1. ASSUME UNCHANGED <<row, served>> PROVE UNCHANGED <<Left, served>>
  BY <1>1, <1>l
<1>2. ASSUME NEW r \in Request, RequestStep(r)
      PROVE  CreditOfRow!CreditNext \/ UNCHANGED <<Left, served>>
  <2>b. ASSUME req[r].pc # "idle"
        PROVE  /\ req[r].row \in Row /\ req[r].copy \in PackageRow
               /\ row[req[r].row] = req[r].copy /\ row[req[r].row] # None
               /\ req[r].pc = "spend" => ~req[r].copy.billed
    BY <2>b, <1>n, BusyHolds, NoneAssumption DEF CopyCurrent
  <2>p. ASSUME NEW i \in Row, NEW c \in PackageRow, row[i] = c, Passes(c), ~c.billed,
               row' = Updated(i, Spent(c)),
               served' \in {served, [served EXCEPT ![i] = @ + 1]}
        PROVE  CreditOfRow!Use(i)
    <3>1. row' = [row EXCEPT ![i] = Spent(c)]
      BY <2>p, NoneAssumption DEF Updated
    <3>2. Left[i] = LeftOf(c)
      BY <1>l, <2>p
    <3>3. Left' = [Left EXCEPT ![i] = Left[i] - 1]
      BY <1>l, <1>n, <2>p, <3>1, <3>2, LeftSpent DEF PackagesTypeOK
    <3>4. Left[i] > 0
      BY <2>p, <3>2, LeftSpent
    <3> QED BY <2>p, <3>3, <3>4 DEF CreditOfRow!Use
  <2>w. ASSUME NEW i \in Row, NEW c, row' = [row EXCEPT ![i] = c], LeftOf(c) = 0, UNCHANGED served
        PROVE  CreditOfRow!Withdraw(i)
    <3>1. Left' = [Left EXCEPT ![i] = 0]
      BY <1>l, <1>n, <2>w DEF PackagesTypeOK
    <3> QED BY <2>w, <3>1 DEF CreditOfRow!Withdraw
  <2>1. CASE GetUsersActivePackage(r) \/ NotEnoughCredit(r) \/ Find(r) \/ Abort(r)
    BY <2>1, <1>1 DEF GetUsersActivePackage, NotEnoughCredit, Find, Abort
  <2>2. CASE MapPackageState(r)
    <3>1. CreditOfRow!Use(req[r].row)
      BY <2>2, <2>b, <2>p DEF MapPackageState, At
    <3>2. req[r].row \in Row
      BY <2>2, <2>b DEF MapPackageState, At
    <3> QED BY <3>1, <3>2 DEF CreditOfRow!CreditNext
  <2>3. CASE MapPackageStateLost(r)
    <3>1. CreditOfRow!Use(req[r].row)
      BY <2>3, <2>b, <2>p DEF MapPackageStateLost, At
    <3>2. req[r].row \in Row
      BY <2>3, <2>b DEF MapPackageStateLost, At
    <3> QED BY <3>1, <3>2 DEF CreditOfRow!CreditNext
  <2>4. CASE Bill(r)
    <3> DEFINE i == req[r].row  d == [req[r].copy EXCEPT !.billed = TRUE]
    <3>1. i \in Row /\ req[r].copy \in PackageRow /\ row[i] # None
      BY <2>4, <2>b DEF Bill, At
    <3>2. row' = [row EXCEPT ![i] = d] /\ UNCHANGED served
      BY <2>4, <3>1 DEF Bill, Updated
    <3>3. LeftOf(d) = 0
      BY <3>1 DEF LeftOf, PackageRow
    <3> HIDE DEF d
    <3> QED BY <3>1, <3>2, <3>3, <2>w DEF CreditOfRow!CreditNext
  <2>5. CASE Delete(r)
    <3>1. req[r].row \in Row
      BY <2>5, <2>b DEF Delete, At
    <3>2. LeftOf(None) = 0
      BY DEF LeftOf
    <3> QED BY <2>5, <3>1, <3>2, <2>w DEF Delete, CreditOfRow!CreditNext
  <2> QED BY <1>2, <2>1, <2>2, <2>3, <2>4, <2>5 DEF RequestStep
<1> QED BY <1>1, <1>2 DEF PackagesNext, packVars

(* As long as requests do not overlap, the handler implements Credit: a unit   *)
(* is taken atomically, serves one action at most, and what was billed or      *)
(* deleted serves none.                                                        *)
THEOREM HandlerImplementsCredit == PackagesSpec => ImplementsCredit
<1>1. SerialInv /\ [PackagesNext]_packVars => SerialInv'
  BY SerialStep
<1>2. SerialInv /\ [PackagesNext]_packVars => [CreditOfRow!CreditNext]_<<LeftThere, GrantedThere>>
  BY CreditStep
<1>3. PackagesInit => CreditOfRow!CreditInit
  BY TypeInit, LeftType DEF PackagesInit, CreditOfRow!CreditInit
<1> QED BY <1>1, <1>2, <1>3, SerialInit, PTL
        DEF PackagesSpec, ImplementsCredit, CreditOfRow!CreditSpec, LeftThere, GrantedThere

-----------------------------------------------------------------------------
(* Induction over the numbers, as a fact about sets of numbers: it rests on strict *)
(* inclusion being well founded on finite sets.                                *)
LEMMA LeastNumber ==
    ASSUME NEW S \in SUBSET Nat, S # {}
    PROVE  \E m \in S : \A n \in S : m <= n
<1> DEFINE T == {0..n : n \in S}
<1>0. \A n \in Nat : IsFiniteSet(0..n)
  BY FS_Interval
<1>1. T \subseteq FiniteSubsetsOf(Nat) /\ T # {}
  <2>1. \A n \in Nat : 0..n \in FiniteSubsetsOf(Nat)
    BY <1>0 DEF FiniteSubsetsOf
  <2> QED BY <2>1
<1>2. PICK x \in T : \A y \in T : ~(<<y, x>> \in StrictSubsetOrdering(Nat))
  <2> HIDE DEF T
  <2>1. IsWellFoundedOn(StrictSubsetOrdering(Nat), FiniteSubsetsOf(Nat))
    BY FS_StrictSubsetOrderingWellFounded
  <2> QED BY <1>1, <2>1, WFMin
<1>3. PICK m \in S : x = 0..m
  OBVIOUS
<1>4. ASSUME NEW n \in S, n < m PROVE FALSE
  <2>1. 0..n \in T /\ (0..n) \subseteq Nat /\ (0..m) \subseteq Nat /\ (0..n) \subseteq (0..m)
    BY <1>4
  <2>2. m \in 0..m /\ m \notin 0..n
    BY <1>4
  <2> QED BY <1>2, <1>3, <2>1, <2>2 DEF StrictSubsetOrdering
<1> QED BY <1>4

LEMMA Induction ==
    ASSUME NEW S \in SUBSET Nat, 0 \in S, \A n \in S : n + 1 \in S
    PROVE  S = Nat
<1> SUFFICES ASSUME Nat \ S # {} PROVE FALSE
  OBVIOUS
<1>1. PICK m \in Nat \ S : \A n \in Nat \ S : m <= n
  BY LeastNumber
<1>2. m # 0 /\ m - 1 \in Nat /\ m - 1 \notin Nat \ S
  BY <1>1
<1> QED BY <1>1, <1>2

(* The first n factorials, as any function that computes them has them; so the *)
(* recursive function of Combinatorics exists and is what its definition says. *)
Counts(g, n) ==
    /\ g \in [0..n -> Nat \ {0}]
    /\ g[0] = 1 /\ \A i \in 1..n : g[i] = i * g[i - 1]

LEMMA CountsExist == \A n \in Nat : \E g : Counts(g, n)
<1> DEFINE S == {n \in Nat : \E g : Counts(g, n)}
<1>1. 0 \in S
  <2>1. Counts([i \in 0..0 |-> 1], 0)
    BY DEF Counts
  <2> QED BY <2>1
<1>2. ASSUME NEW n \in S PROVE n + 1 \in S
  <2>1. PICK g : Counts(g, n)
    OBVIOUS
  <2> DEFINE h == [i \in 0..n + 1 |-> IF i = n + 1 THEN (n + 1) * g[n] ELSE g[i]]
  <2>2. g[n] \in Nat \ {0} /\ (n + 1) * g[n] \in Nat \ {0}
    BY <2>1 DEF Counts
  <2>3. Counts(h, n + 1)
    <3>1. \A i \in 0..n : h[i] = g[i] /\ g[i] \in Nat \ {0}
      BY <2>1 DEF Counts
    <3>2. h[n + 1] = (n + 1) * h[n] /\ h[n + 1] \in Nat \ {0}
      BY <2>2
    <3>3. \A i \in 1..n + 1 : i = n + 1 \/ (i \in 1..n /\ i \in 0..n /\ i - 1 \in 0..n)
      OBVIOUS
    <3>4. h[0] = 1 /\ \A i \in 1..n : h[i] = i * h[i - 1]
      BY <2>1, <3>1, <3>3 DEF Counts
    <3>5. h \in [0..n + 1 -> Nat \ {0}]
      BY <3>1, <3>2
    <3> HIDE DEF h
    <3>6. \A i \in 1..n + 1 : h[i] = i * h[i - 1]
      <4>1. (n + 1) - 1 = n
        OBVIOUS
      <4> QED BY <3>2, <3>3, <3>4, <4>1
    <3> QED BY <3>4, <3>5, <3>6 DEF Counts
  <2> QED BY <2>3
<1> HIDE DEF S
<1>3. S = Nat
  BY <1>1, <1>2, Induction DEF S
<1> QED BY <1>3 DEF S

LEMMA CountsAgree ==
    ASSUME NEW n \in Nat, NEW m \in Nat, NEW g, NEW h, Counts(g, n), Counts(h, m)
    PROVE  \A i \in Nat : i <= n /\ i <= m => g[i] = h[i]
<1> DEFINE S == {i \in Nat : i <= n /\ i <= m => g[i] = h[i]}
<1>1. 0 \in S
  BY DEF Counts
<1>2. ASSUME NEW i \in S PROVE i + 1 \in S
  <2>1. ASSUME i + 1 <= n, i + 1 <= m PROVE g[i + 1] = h[i + 1]
    <3>1. i + 1 \in 1..n /\ i + 1 \in 1..m /\ (i + 1) - 1 = i /\ g[i] = h[i]
      BY <2>1
    <3> QED BY <3>1 DEF Counts
  <2> QED BY <2>1
<1> HIDE DEF S
<1>3. S = Nat
  BY <1>1, <1>2, Induction DEF S
<1> QED BY <1>3 DEF S

LEMMA FactorialIs ==
    /\ factorial \in [Nat -> Nat \ {0}]
    /\ factorial[0] = 1
    /\ \A n \in Nat : factorial[n + 1] = (n + 1) * factorial[n]
<1> DEFINE G(n) == CHOOSE g : Counts(g, n)
           f    == [n \in Nat |-> G(n)[n]]
<1>1. \A n \in Nat : Counts(G(n), n)
  BY CountsExist
<1> HIDE DEF G
<1>2. ASSUME NEW n \in Nat PROVE f[n] = G(n)[n] /\ f[n] \in Nat \ {0}
  BY <1>1 DEF Counts
<1>3. f[0] = 1
  BY <1>1 DEF Counts
<1>4. ASSUME NEW n \in Nat PROVE f[n + 1] = (n + 1) * f[n]
  <2>1. n + 1 \in 1..n + 1 /\ (n + 1) - 1 = n
    OBVIOUS
  <2>2. \A g : Counts(g, n + 1) => g[n + 1] = (n + 1) * g[n]
    BY <2>1 DEF Counts
  <2>3. G(n + 1)[n] = G(n)[n]
    BY <1>1, CountsAgree
  <2> QED BY <1>1, <1>2, <2>2, <2>3
<1> HIDE DEF f
<1>5. f = [n \in Nat |-> IF n = 0 THEN 1 ELSE n * f[n - 1]]
  <2>1. \A n \in Nat : f[n] = IF n = 0 THEN 1 ELSE n * f[n - 1]
    <3>1. ASSUME NEW n \in Nat, n # 0 PROVE f[n] = n * f[n - 1]
      <4>1. n - 1 \in Nat /\ (n - 1) + 1 = n
        BY <3>1
      <4> QED BY <4>1, <1>4
    <3> QED BY <3>1, <1>3
  <2> QED BY <2>1 DEF f
<1>6. factorial = [n \in Nat |-> IF n = 0 THEN 1 ELSE n * factorial[n - 1]]
  BY <1>5, Zenon DEF factorial
<1>7. \A n \in Nat : factorial[n] = IF n = 0 THEN 1 ELSE n * factorial[n - 1]
  BY <1>6
<1>8. factorial[0] = 1 /\ \A n \in Nat : factorial[n + 1] = (n + 1) * factorial[n]
  BY <1>7
<1> DEFINE S == {n \in Nat : factorial[n] \in Nat \ {0}}
<1>9. S = Nat
  <2>1. 0 \in S
    BY <1>8
  <2>2. ASSUME NEW n \in S PROVE n + 1 \in S
    <3>1. \A p \in Nat \ {0} : (n + 1) * p \in Nat \ {0}
      OBVIOUS
    <3>2. n \in Nat /\ n + 1 \in Nat /\ factorial[n] \in Nat \ {0}
      OBVIOUS
    <3>3. factorial[n + 1] \in Nat \ {0}
      BY <1>8, <3>1, <3>2
    <3> QED BY <3>2, <3>3
  <2> HIDE DEF S
  <2> QED BY <2>1, <2>2, Induction DEF S
<1>10. \A n \in Nat : factorial[n] \in Nat \ {0}
  BY <1>9
<1> HIDE DEF S
<1> QED BY <1>6, <1>8, <1>10

-----------------------------------------------------------------------------
(* How many profiles there are: n levels, k or fewer requests at each, never more *)
(* at a higher one. Those that reach the last level and those that do not are  *)
(* profiles of fewer requests or levels: the rule of Pascal's triangle.        *)
LEMMA Quotient ==
    ASSUME NEW p \in Nat, NEW f \in Nat, NEW d \in Nat \ {0}, p * d <= f
    PROVE  p <= f \div d
<1>1. PICK q \in Nat : q = f \div d
  OBVIOUS
<1>2. f < (q + 1) * d
  BY <1>1
<1>3. p * d < (q + 1) * d
  BY <1>2
<1>4. ASSUME p >= q + 1 PROVE FALSE
  <2>1. PICK e \in Nat : p = (q + 1) + e
    BY <1>4
  <2>2. p * d = (q + 1) * d + e * d /\ e * d >= 0
    BY <2>1
  <2> QED BY <1>3, <2>2
<1> QED BY <1>1, <1>4

LEMMA Pascal ==
    ASSUME NEW a \in Nat, NEW b \in Nat, NEW p \in Nat, NEW x \in Nat, NEW y \in Nat,
           NEW n \in Nat, NEW k \in Nat, NEW f \in Nat,
           p <= a + b, a * (x * (k * y)) <= f, b * ((n * x) * y) <= f
    PROVE  p * ((n * x) * (k * y)) <= (n + k) * f
<1>m. \A u, v, w \in Nat : u <= v => u * w <= v * w /\ w * u <= w * v
  OBVIOUS
<1> DEFINE z == (n * x) * (k * y)
<1>z. z \in Nat /\ x * (k * y) \in Nat /\ (n * x) * y \in Nat
  OBVIOUS
<1>1. p * z <= (a + b) * z
  BY <1>m, <1>z
<1>2. (a + b) * z = n * (a * (x * (k * y))) + k * (b * ((n * x) * y))
  OBVIOUS
<1>3. n * (a * (x * (k * y))) <= n * f /\ k * (b * ((n * x) * y)) <= k * f
  BY <1>m, <1>z
<1>4. (n + k) * f = n * f + k * f
  OBVIOUS
<1> QED BY <1>1, <1>2, <1>3, <1>4

-----------------------------------------------------------------------------
Profiles(n, k) ==
    {g \in [1..n -> 0..k] : \A x, y \in 1..n : x <= y => g[y] <= g[x]}

Fits(n, k) ==
    /\ IsFiniteSet(Profiles(n, k))
    /\ Cardinality(Profiles(n, k)) * (factorial[n] * factorial[k]) <= factorial[n + k]

(* One profile only, if there are no levels or no requests.                    *)
LEMMA Lonely ==
    ASSUME NEW S, NEW x, S \subseteq {x}
    PROVE  IsFiniteSet(S) /\ Cardinality(S) \in Nat /\ Cardinality(S) <= 1
<1>1. IsFiniteSet({x}) /\ Cardinality({x}) = 1
  BY FS_Singleton
<1>2. IsFiniteSet(S) /\ Cardinality(S) <= Cardinality({x})
  BY <1>1, FS_Subset
<1> QED BY <1>1, <1>2, FS_CardinalityType

LEMMA FewProfiles ==
    ASSUME NEW n \in Nat, NEW k \in Nat, n = 0 \/ k = 0
    PROVE  Fits(n, k)
<1> DEFINE z == [y \in 1..n |-> 0]
<1>1. Profiles(n, k) \subseteq {z}
  <2>1. ASSUME NEW g \in [1..n -> 0..k] PROVE g = z
    <3>1. \A y \in 1..n : g[y] = 0
      OBVIOUS
    <3> QED BY <3>1
  <2> QED BY <2>1 DEF Profiles
<1> DEFINE c == Cardinality(Profiles(n, k))
<1>2. IsFiniteSet(Profiles(n, k)) /\ c \in Nat /\ c <= 1
  BY <1>1, Lonely
<1>3. factorial[n] \in Nat /\ factorial[k] \in Nat /\ factorial[0] = 1
  BY FactorialIs
<1>4. factorial[n] * factorial[k] = factorial[n + k]
  <2>1. CASE n = 0
    BY <2>1, <1>3
  <2>2. CASE k = 0
    BY <2>2, <1>3
  <2> QED BY <2>1, <2>2
<1>5. \A p \in Nat : c * p <= p
  BY <1>2
<1>6. factorial[n + k] \in Nat
  <2>1. n + k \in Nat
    OBVIOUS
  <2> QED BY <2>1, FactorialIs
<1> QED BY <1>2, <1>4, <1>5, <1>6 DEF Fits

LEMMA SplitProfiles ==
    ASSUME NEW n \in Nat, NEW k \in Nat,
           IsFiniteSet(Profiles(n, k + 1)), IsFiniteSet(Profiles(n + 1, k))
    PROVE  /\ IsFiniteSet(Profiles(n + 1, k + 1))
           /\ Cardinality(Profiles(n + 1, k + 1))
                <= Cardinality(Profiles(n, k + 1)) + Cardinality(Profiles(n + 1, k))
<1> DEFINE P == Profiles(n + 1, k + 1)
           A == {g \in P : g[n + 1] = 0}
           B == {g \in P : g[n + 1] # 0}
           short == [g \in A |-> [y \in 1..n |-> g[y]]]
           lower == [g \in B |-> [y \in 1..n + 1 |-> g[y] - 1]]
<1>1. short \in Injection(A, Profiles(n, k + 1))
  <2>1. \A g \in A : [y \in 1..n |-> g[y]] \in Profiles(n, k + 1)
    BY DEF Profiles
  <2>2. ASSUME NEW g \in A, NEW h \in A, short[g] = short[h] PROVE g = h
    <3>1. \A y \in 1..n : g[y] = h[y]
      <4>1. \A y \in 1..n : short[g][y] = g[y] /\ short[h][y] = h[y]
        OBVIOUS
      <4> QED BY <4>1, <2>2
    <3>2. \A y \in 1..n + 1 : y = n + 1 \/ y \in 1..n
      OBVIOUS
    <3>3. g[n + 1] = h[n + 1]
      OBVIOUS
    <3>4. g \in [1..n + 1 -> 0..k + 1] /\ h \in [1..n + 1 -> 0..k + 1]
      BY DEF Profiles
    <3> QED BY <3>1, <3>2, <3>3, <3>4
  <2>3. short \in [A -> Profiles(n, k + 1)]
    BY <2>1
  <2> HIDE DEF short
  <2> QED BY <2>2, <2>3 DEF Injection, IsInjective
<1>2. lower \in Injection(B, Profiles(n + 1, k))
  <2>1. ASSUME NEW g \in B PROVE [y \in 1..n + 1 |-> g[y] - 1] \in Profiles(n + 1, k)
    <3>1. \A y \in 1..n + 1 : g[y] \in 0..k + 1 /\ g[n + 1] <= g[y] /\ g[y] - 1 \in 0..k
      BY DEF Profiles
    <3>2. \A x, y \in 1..n + 1 : x <= y => g[y] - 1 <= g[x] - 1
      BY <3>1 DEF Profiles
    <3> QED BY <3>1, <3>2 DEF Profiles
  <2>2. ASSUME NEW g \in B, NEW h \in B, lower[g] = lower[h] PROVE g = h
    <3>1. \A y \in 1..n + 1 : lower[g][y] = g[y] - 1 /\ lower[h][y] = h[y] - 1
      OBVIOUS
    <3>2. \A y \in 1..n + 1 : g[y] - 1 = h[y] - 1
      BY <3>1, <2>2
    <3>4. g \in [1..n + 1 -> 0..k + 1] /\ h \in [1..n + 1 -> 0..k + 1]
      BY DEF Profiles
    <3>5. \A y \in 1..n + 1 : g[y] = h[y]
      BY <3>2, <3>4
    <3> QED BY <3>4, <3>5
  <2>3. lower \in [B -> Profiles(n + 1, k)]
    BY <2>1
  <2> HIDE DEF lower
  <2> QED BY <2>2, <2>3 DEF Injection, IsInjective
<1> HIDE DEF short, lower
<1>3. /\ IsFiniteSet(A) /\ Cardinality(A) <= Cardinality(Profiles(n, k + 1))
      /\ IsFiniteSet(B) /\ Cardinality(B) <= Cardinality(Profiles(n + 1, k))
  BY <1>1, <1>2, FS_Injection
<1>4. P = A \cup B /\ A \cap B = {}
  OBVIOUS
<1> HIDE DEF P, A, B
<1>5. IsFiniteSet(P) /\ Cardinality(P) = Cardinality(A) + Cardinality(B) - 0
  BY <1>3, <1>4, FS_Union, FS_EmptySet
<1>6. /\ Cardinality(A) \in Nat /\ Cardinality(B) \in Nat
      /\ Cardinality(Profiles(n, k + 1)) \in Nat /\ Cardinality(Profiles(n + 1, k)) \in Nat
  BY <1>3, FS_CardinalityType
<1> QED BY <1>3, <1>5, <1>6 DEF P

LEMMA AllFit == \A n, k \in Nat : Fits(n, k)
<1> DEFINE S == {m \in Nat : \A n, k \in Nat : n + k = m => Fits(n, k)}
<1>1. 0 \in S
  BY FewProfiles
<1>2. ASSUME NEW m \in S PROVE m + 1 \in S
  <2> SUFFICES ASSUME NEW n \in Nat, NEW k \in Nat, n + k = m + 1, n # 0, k # 0
               PROVE  Fits(n, k)
    BY FewProfiles
  <2>1. PICK i \in Nat, j \in Nat : n = i + 1 /\ k = j + 1
    <3>1. n - 1 \in Nat /\ k - 1 \in Nat /\ n = (n - 1) + 1 /\ k = (k - 1) + 1
      OBVIOUS
    <3> QED BY <3>1
  <2>2. m \in Nat /\ i + k = m /\ n + j = m
    BY <2>1
  <2>3. Fits(i, k) /\ Fits(n, j)
    BY <2>2
  <2> DEFINE p == Cardinality(Profiles(n, k))
             a == Cardinality(Profiles(i, k))
             b == Cardinality(Profiles(n, j))
             x == factorial[i]
             y == factorial[j]
  <2>4. IsFiniteSet(Profiles(n, k)) /\ p <= a + b
    BY <2>1, <2>3, SplitProfiles DEF Fits
  <2>5. p \in Nat /\ a \in Nat /\ b \in Nat
    BY <2>3, <2>4, FS_CardinalityType DEF Fits
  <2>6. /\ x \in Nat /\ y \in Nat /\ factorial[m] \in Nat
        /\ factorial[n] = n * x /\ factorial[k] = k * y
        /\ factorial[n + k] = (n + k) * factorial[m]
    BY <2>1, <2>2, FactorialIs
  <2>7. a * (x * (k * y)) <= factorial[m] /\ b * ((n * x) * y) <= factorial[m]
    BY <2>2, <2>3, <2>6 DEF Fits
  <2> HIDE DEF p, a, b, x, y
  <2>8. p * ((n * x) * (k * y)) <= (n + k) * factorial[m]
    BY <2>4, <2>5, <2>6, <2>7, Pascal
  <2> QED BY <2>4, <2>6, <2>8 DEF Fits, p
<1> HIDE DEF S
<1>3. S = Nat
  BY <1>1, <1>2, Induction DEF S
<1>4. ASSUME NEW n \in Nat, NEW k \in Nat PROVE Fits(n, k)
  <2>1. n + k \in S
    BY <1>3
  <2> QED BY <2>1 DEF S
<1> QED BY <1>4

LEMMA ChooseType == ASSUME NEW n \in Nat, NEW k \in Nat PROVE choose(n + k, k) \in Int
<1>1. \A a \in Nat, d \in Nat \ {0} : a \div d \in Int
  OBVIOUS
<1>2. \A u, v \in Nat \ {0} : u * v \in Nat \ {0}
  OBVIOUS
<1>3. n + k \in Nat /\ (n + k) - k = n
  OBVIOUS
<1>4. factorial[k] * factorial[n] \in Nat \ {0} /\ factorial[n + k] \in Nat
  BY <1>2, <1>3, FactorialIs
<1> QED BY <1>1, <1>3, <1>4 DEF choose

LEMMA ProfilesCounted ==
    ASSUME NEW n \in Nat, NEW k \in Nat
    PROVE  /\ IsFiniteSet(Profiles(n, k))
           /\ Cardinality(Profiles(n, k)) <= choose(n + k, k)
<1>1. Fits(n, k)
  BY AllFit
<1> DEFINE d == factorial[k] * factorial[n]
<1>2. \A u, v \in Nat \ {0} : u * v \in Nat \ {0} /\ u * v = v * u
  OBVIOUS
<1>3. d \in Nat \ {0} /\ d = factorial[n] * factorial[k] /\ factorial[n + k] \in Nat
  <2>1. n + k \in Nat
    OBVIOUS
  <2>2. factorial[n] \in Nat \ {0} /\ factorial[k] \in Nat \ {0} /\ factorial[n + k] \in Nat
    BY <2>1, FactorialIs
  <2> QED BY <1>2, <2>2
<1>4. Cardinality(Profiles(n, k)) \in Nat
  BY <1>1, FS_CardinalityType DEF Fits
<1>5. Cardinality(Profiles(n, k)) * d <= factorial[n + k]
  BY <1>1, <1>3 DEF Fits
<1> HIDE DEF d
<1>6. Cardinality(Profiles(n, k)) <= factorial[n + k] \div d
  BY <1>3, <1>4, <1>5, Quotient
<1>7. (n + k) - k = n
  OBVIOUS
<1> QED BY <1>1, <1>6, <1>7 DEF choose, Fits, d

-----------------------------------------------------------------------------
(* The order in which profiles go down: at some level, and not up at any higher *)
(* one. Whatever goes down in it leaves one more profile behind for good.      *)
Above(n, g, f) == \E v \in 1..n : g[v] > f[v] /\ \A y \in v..n : g[y] >= f[y]

Beyond(n, k, f) == {g \in Profiles(n, k) : Above(n, g, f)}

LEMMA BeyondFinite ==
    ASSUME NEW n \in Nat, NEW k \in Nat, NEW f
    PROVE  IsFiniteSet(Beyond(n, k, f)) /\ Cardinality(Beyond(n, k, f)) \in Nat
<1>1. Beyond(n, k, f) \in SUBSET Profiles(n, k)
  BY DEF Beyond
<1> QED BY <1>1, ProfilesCounted, FS_Subset, FS_CardinalityType

LEMMA BeyondGrows ==
    ASSUME NEW n \in Nat, NEW k \in Nat, NEW f \in Profiles(n, k), NEW h \in Profiles(n, k)
    PROVE  /\ (\A y \in 1..n : h[y] <= f[y])
                => Cardinality(Beyond(n, k, f)) <= Cardinality(Beyond(n, k, h))
           /\ Above(n, f, h)
                => Cardinality(Beyond(n, k, f)) + 1 <= Cardinality(Beyond(n, k, h))
           /\ Cardinality(Beyond(n, k, f)) + 1 <= choose(n + k, k)
<1>t. \A g \in Profiles(n, k) : \A y \in 1..n : g[y] \in Nat
  BY DEF Profiles
<1>f. /\ IsFiniteSet(Beyond(n, k, f)) /\ Cardinality(Beyond(n, k, f)) \in Nat
      /\ IsFiniteSet(Beyond(n, k, h)) /\ Cardinality(Beyond(n, k, h)) \in Nat
      /\ IsFiniteSet(Profiles(n, k)) /\ Cardinality(Profiles(n, k)) \in Nat
  BY BeyondFinite, ProfilesCounted, FS_CardinalityType
<1>1. ASSUME \A y \in 1..n : h[y] <= f[y]
      PROVE  Cardinality(Beyond(n, k, f)) <= Cardinality(Beyond(n, k, h))
  <2>1. ASSUME NEW g \in Profiles(n, k), Above(n, g, f) PROVE Above(n, g, h)
    <3>1. PICK v \in 1..n : g[v] > f[v] /\ \A y \in v..n : g[y] >= f[y]
      BY <2>1 DEF Above
    <3>2. g[v] > h[v]
      BY <3>1, <1>1, <1>t
    <3>3. \A y \in v..n : g[y] >= h[y]
      BY <3>1, <1>1, <1>t
    <3> QED BY <3>2, <3>3 DEF Above
  <2>2. Beyond(n, k, f) \in SUBSET Beyond(n, k, h)
    BY <2>1 DEF Beyond
  <2> QED BY <2>2, <1>f, FS_Subset
<1>2. ~Above(n, f, f)
  BY <1>t DEF Above
<1> DEFINE F == Beyond(n, k, f) \cup {f}
<1>3. IsFiniteSet(F) /\ Cardinality(F) = Cardinality(Beyond(n, k, f)) + 1
  <2>1. f \notin Beyond(n, k, f)
    BY <1>2 DEF Beyond
  <2> QED BY <2>1, <1>f, FS_AddElement
<1>4. ASSUME Above(n, f, h)
      PROVE  Cardinality(Beyond(n, k, f)) + 1 <= Cardinality(Beyond(n, k, h))
  <2>1. ASSUME NEW g \in Profiles(n, k), Above(n, g, f) PROVE Above(n, g, h)
    <3>1. PICK v \in 1..n : g[v] > f[v] /\ \A y \in v..n : g[y] >= f[y]
      BY <2>1 DEF Above
    <3>2. PICK w \in 1..n : f[w] > h[w] /\ \A y \in w..n : f[y] >= h[y]
      BY <1>4 DEF Above
    <3>3. PICK u \in {v, w} : v <= u /\ w <= u
      OBVIOUS
    <3>4. u \in 1..n /\ g[u] > h[u]
      BY <3>1, <3>2, <3>3, <1>t
    <3>5. \A y \in u..n : g[y] >= h[y]
      BY <3>1, <3>2, <3>3, <1>t
    <3> QED BY <3>4, <3>5 DEF Above
  <2>2. F \in SUBSET Beyond(n, k, h)
    BY <2>1, <1>4 DEF Beyond
  <2> HIDE DEF F
  <2> QED BY <2>2, <1>3, <1>f, FS_Subset
<1>5. Cardinality(Beyond(n, k, f)) + 1 <= choose(n + k, k)
  <2>1. F \in SUBSET Profiles(n, k)
    BY DEF Beyond
  <2> HIDE DEF F
  <2>2. Cardinality(F) <= Cardinality(Profiles(n, k))
    BY <2>1, <1>f, FS_Subset
  <2>3. Cardinality(Profiles(n, k)) <= choose(n + k, k)
    BY ProfilesCounted
  <2>4. choose(n + k, k) \in Int
    BY ChooseType
  <2> QED BY <1>3, <1>f, <2>2, <2>3, <2>4
<1> QED BY <1>1, <1>4, <1>5

-----------------------------------------------------------------------------
(* Credit runs out, however many requests overlap. The requests that have read *)
(* row i and will write it with at least y - 1 units.                          *)
Spenders(i, y) ==
    {r \in Request : req[r].pc = "spend" /\ req[r].row = i /\ LeftOf(req[r].copy) >= y}

(* How many requests at most may find y units or more from now on, as long as  *)
(* nobody writes the row.                                                      *)
Profile(i) ==
    [y \in 1..OfferOf(row[i]) |->
        IF y <= LeftOf(row[i]) THEN load ELSE Cardinality(Spenders(i, y))]

AtMostLoad == Cardinality({q \in Request : ~At(q, "idle")}) <= load

CopiesFit ==
    \A r \in Request : req[r].pc # "idle" /\ row[req[r].row] # None =>
        /\ req[r].copy.pack = row[req[r].row].pack
        /\ req[r].pc = "spend" =>
             ~req[r].copy.billed /\ LeftOf(req[r].copy) <= OfferOf(req[r].copy)

(* Each action leaves a profile that was never there before.                   *)
RowRunsOut(i) ==
    /\ LeftOf(row[i]) <= OfferOf(row[i])
    /\ served[i] <= Cardinality(Beyond(OfferOf(row[i]), load, Profile(i)))

RunsOutInv ==
    /\ PackagesTypeOK /\ AtMostLoad /\ CopiesFit
    /\ \A i \in Row : row[i] # None => RowRunsOut(i)

LEMMA OfferType == ASSUME NEW c \in PackageRow PROVE OfferOf(c) \in Nat /\ LeftOf(c) \in Nat
BY CreditType, PackagesAssumption DEF OfferOf, LeftOf, PackageRow

LEMMA LoadIs == PackagesTypeOK => load \in Nat /\ load # 0
<1>1. Cardinality(Request) \in Nat
  BY PackagesAssumption, FS_CardinalityType
<1> QED BY <1>1 DEF PackagesTypeOK

SpendersFit ==
    \A i \in Row, y \in Nat :
        /\ IsFiniteSet(Spenders(i, y)) /\ Cardinality(Spenders(i, y)) \in Nat
        /\ Cardinality(Spenders(i, y)) <= load

LEMMA SpendersFew == PackagesTypeOK /\ AtMostLoad => SpendersFit
<1> SUFFICES ASSUME PackagesTypeOK, AtMostLoad, NEW i \in Row, NEW y \in Nat
             PROVE  /\ IsFiniteSet(Spenders(i, y)) /\ Cardinality(Spenders(i, y)) \in Nat
                    /\ Cardinality(Spenders(i, y)) <= load
  BY DEF SpendersFit
<1> DEFINE B == {q \in Request : ~At(q, "idle")}
<1>1. IsFiniteSet(B)
  BY PackagesAssumption, FS_Subset
<1>2. Spenders(i, y) \in SUBSET B
  BY DEF Spenders, At
<1>3. Cardinality(B) \in Nat /\ Cardinality(B) <= load /\ load \in Nat
  BY <1>1, FS_CardinalityType, LoadIs DEF AtMostLoad
<1> HIDE DEF B
<1>4. IsFiniteSet(Spenders(i, y)) /\ Cardinality(Spenders(i, y)) <= Cardinality(B)
  BY <1>1, <1>2, FS_Subset
<1> QED BY <1>3, <1>4, FS_CardinalityType

ProfilesFit ==
    \A i \in Row : row[i] # None => Profile(i) \in Profiles(OfferOf(row[i]), load)

LEMMA ProfileType == PackagesTypeOK /\ AtMostLoad => ProfilesFit
<1> SUFFICES ASSUME PackagesTypeOK, AtMostLoad, NEW i \in Row, row[i] # None
             PROVE  Profile(i) \in Profiles(OfferOf(row[i]), load)
  BY DEF ProfilesFit
<1>1. row[i] \in PackageRow
  BY DEF PackagesTypeOK
<1>2. OfferOf(row[i]) \in Nat /\ LeftOf(row[i]) \in Nat /\ load \in Nat
  BY <1>1, OfferType, LoadIs
<1> DEFINE n == OfferOf(row[i])
<1>3. Profile(i) \in [1..n -> 0..load]
  <2>1. \A y \in 1..n : Cardinality(Spenders(i, y)) \in 0..load
    BY <1>2, SpendersFew DEF SpendersFit
  <2> QED BY <1>2, <2>1 DEF Profile
<1>4. ASSUME NEW x \in 1..n, NEW y \in 1..n, x <= y PROVE Profile(i)[y] <= Profile(i)[x]
  <2>1. Spenders(i, y) \in SUBSET Spenders(i, x)
    <3>1. \A r \in Spenders(i, y) : LeftOf(req[r].copy) \in Nat
      BY BusyHolds, OfferType DEF Spenders
    <3> QED BY <3>1, <1>2, <1>4 DEF Spenders
  <2>2. Cardinality(Spenders(i, y)) <= Cardinality(Spenders(i, x))
    BY <1>2, <2>1, SpendersFew, FS_Subset DEF SpendersFit
  <2>3. Cardinality(Spenders(i, y)) <= load /\ Cardinality(Spenders(i, y)) \in Nat
    BY <1>2, SpendersFew DEF SpendersFit
  <2> QED BY <1>2, <1>4, <2>2, <2>3 DEF Profile
<1> QED BY <1>3, <1>4 DEF Profiles

LEMMA FitNext == PackagesTypeOK' /\ AtMostLoad' => SpendersFit' /\ ProfilesFit'
BY SpendersFew, ProfileType, PTL

(* What leaves a row alone, or takes credit from it without an action.         *)
LEMMA RowKept ==
    ASSUME RunsOutInv, PackagesTypeOK', AtMostLoad', load' = load,
           NEW i \in Row, row[i] # None, row'[i] # None,
           row'[i].pack = row[i].pack, LeftOf(row'[i]) <= LeftOf(row[i]),
           \A y \in Nat : y > LeftOf(row'[i]) => Spenders(i, y)' \subseteq Spenders(i, y),
           served'[i] = served[i]
    PROVE  RowRunsOut(i)'
<1> DEFINE n == OfferOf(row[i])
<1>1. /\ n \in Nat /\ OfferOf(row'[i]) = n /\ load \in Nat
      /\ LeftOf(row[i]) \in Nat /\ LeftOf(row'[i]) \in Nat
  BY OfferType, LoadIs DEF RunsOutInv, PackagesTypeOK, OfferOf
<1>2. Profile(i) \in Profiles(n, load) /\ Profile(i)' \in Profiles(n, load)
  BY <1>1, ProfileType, FitNext DEF RunsOutInv, ProfilesFit
<1>3. ASSUME NEW y \in 1..n PROVE Profile(i)'[y] <= Profile(i)[y]
  <2>1. /\ Profile(i)[y] = IF y <= LeftOf(row[i]) THEN load ELSE Cardinality(Spenders(i, y))
        /\ Profile(i)'[y] = IF y <= LeftOf(row'[i]) THEN load ELSE Cardinality(Spenders(i, y)')
    BY <1>1 DEF Profile
  <2>2. CASE y <= LeftOf(row'[i])
    BY <1>1, <2>1, <2>2
  <2>3. CASE y > LeftOf(row'[i])
    <3>1. Spenders(i, y)' \in SUBSET Spenders(i, y)
      BY <2>3
    <3>2. Cardinality(Spenders(i, y)') <= Cardinality(Spenders(i, y))
      BY <3>1, SpendersFew, FS_Subset DEF RunsOutInv, SpendersFit
    <3>3. /\ Cardinality(Spenders(i, y)) \in Nat /\ Cardinality(Spenders(i, y)) <= load
          /\ Cardinality(Spenders(i, y)') \in Nat
      BY SpendersFew, FitNext DEF RunsOutInv, SpendersFit
    <3> QED BY <1>1, <2>1, <2>3, <3>2, <3>3
  <2> QED BY <1>1, <2>2, <2>3
<1>4. Cardinality(Beyond(n, load, Profile(i))) <= Cardinality(Beyond(n, load, Profile(i)'))
  BY <1>1, <1>2, <1>3, BeyondGrows
<1>5. /\ Cardinality(Beyond(n, load, Profile(i))) \in Nat
      /\ Cardinality(Beyond(n, load, Profile(i)')) \in Nat
  BY <1>1, BeyondFinite
<1>6. RowRunsOut(i) /\ served[i] \in Nat
  BY DEF RunsOutInv, PackagesTypeOK
<1> QED BY <1>1, <1>4, <1>5, <1>6 DEF RowRunsOut

(* What spends a unit, of a copy that may be stale.                            *)
LEMMA RowSpent ==
    ASSUME RunsOutInv, PackagesTypeOK', AtMostLoad', load' = load,
           NEW r \in Request, req[r].pc = "spend", Passes(req[r].copy), Answer(r),
           NEW i \in Row, i = req[r].row, row[i] # None,
           row' = [row EXCEPT ![i] = Spent(req[r].copy)],
           served'[i] <= served[i] + 1, served'[i] \in Nat
    PROVE  RowRunsOut(i)'
<1> DEFINE n == OfferOf(row[i])
           c == req[r].copy
           v == LeftOf(c)
<1>0. PackagesTypeOK /\ AtMostLoad /\ CopiesFit /\ RowRunsOut(i)
  BY DEF RunsOutInv
<1>1. /\ c \in PackageRow /\ row[i] \in PackageRow /\ row'[i] = Spent(c)
  BY <1>0, BusyHolds DEF PackagesTypeOK
<1>2. c.pack = row[i].pack /\ ~c.billed /\ v <= OfferOf(c)
  BY <1>0 DEF CopiesFit
<1>3. v \in Nat /\ v > 0 /\ LeftOf(row'[i]) = v - 1
  BY <1>1, <1>2, LeftSpent
<1>4. OfferOf(c) = n /\ OfferOf(row'[i]) = n /\ row'[i] # None
  BY <1>1, <1>2, CreditType, NoneAssumption DEF OfferOf
<1>5. n \in Nat /\ load \in Nat /\ v \in 1..n /\ LeftOf(row[i]) \in Nat
  BY <1>0, <1>1, <1>2, <1>3, <1>4, OfferType, LoadIs
<1>6. Profile(i) \in Profiles(n, load) /\ Profile(i)' \in Profiles(n, load)
  BY <1>0, <1>4, <1>5, ProfileType, FitNext DEF ProfilesFit
<1>7. \A y \in Nat : Spenders(i, y)' = Spenders(i, y) \ {r}
  BY <1>0 DEF Answer, Idle, Spenders, PackagesTypeOK
<1>8. ASSUME NEW y \in v..n
      PROVE  Profile(i)[y] >= Profile(i)'[y] /\ (y = v => Profile(i)[y] > Profile(i)'[y])
  <2>1. y \in 1..n /\ y \in Nat /\ ~(y <= LeftOf(row'[i]))
    BY <1>3, <1>5
  <2>2. /\ Profile(i)[y] = IF y <= LeftOf(row[i]) THEN load ELSE Cardinality(Spenders(i, y))
        /\ Profile(i)'[y] = Cardinality(Spenders(i, y)')
    BY <1>4, <2>1 DEF Profile
  <2>3. /\ IsFiniteSet(Spenders(i, y)) /\ Cardinality(Spenders(i, y)) \in Nat
        /\ Cardinality(Spenders(i, y)) <= load
    BY <1>0, <2>1, SpendersFew DEF SpendersFit
  <2>4. Cardinality(Spenders(i, y)') =
            IF r \in Spenders(i, y) THEN Cardinality(Spenders(i, y)) - 1
                                    ELSE Cardinality(Spenders(i, y))
    BY <1>7, <2>1, <2>3, FS_RemoveElement
  <2>5. y = v => r \in Spenders(i, y)
    BY <1>3 DEF Spenders
  <2> QED BY <1>5, <2>2, <2>3, <2>4, <2>5
<1> HIDE DEF v, n
<1>9. Above(n, Profile(i), Profile(i)')
  BY <1>5, <1>8 DEF Above
<1>10. Cardinality(Beyond(n, load, Profile(i))) + 1 <= Cardinality(Beyond(n, load, Profile(i)'))
  BY <1>5, <1>6, <1>9, BeyondGrows
<1>11. /\ Cardinality(Beyond(n, load, Profile(i))) \in Nat
       /\ Cardinality(Beyond(n, load, Profile(i)')) \in Nat
  BY <1>5, BeyondFinite
<1>12. served[i] <= Cardinality(Beyond(n, load, Profile(i))) /\ served[i] \in Nat
  BY <1>0 DEF RowRunsOut, PackagesTypeOK, n
<1>13. served'[i] <= Cardinality(Beyond(n, load, Profile(i)'))
  BY <1>10, <1>11, <1>12
<1> QED BY <1>3, <1>4, <1>5, <1>13 DEF RowRunsOut

LEMMA RunsOutInit == PackagesInit => RunsOutInv
<1> SUFFICES ASSUME PackagesInit PROVE RunsOutInv
  OBVIOUS
<1>t. PackagesTypeOK
  BY TypeInit
<1>1. {q \in Request : ~At(q, "idle")} = {}
  BY DEF PackagesInit, At, Idle
<1>2. AtMostLoad
  BY <1>t, <1>1, LoadIs, FS_EmptySet DEF AtMostLoad
<1>3. CopiesFit
  BY DEF PackagesInit, CopiesFit, Idle
<1>4. ASSUME NEW i \in Row, row[i] # None PROVE RowRunsOut(i)
  <2>1. row[i] \in PackageRow /\ ~row[i].billed /\ row[i].state = None
    <3>1. row[i] \in {[pack |-> p, billed |-> FALSE, state |-> None] : p \in Pack}
      BY DEF PackagesInit
    <3> QED BY <1>t, <1>4, <3>1 DEF PackagesTypeOK
  <2>2. LeftOf(row[i]) <= OfferOf(row[i])
    BY <2>1, PackagesAssumption DEF LeftOf, OfferOf, CreditOf, Passes, PackageRow
  <2>3. OfferOf(row[i]) \in Nat /\ load \in Nat
    BY <1>t, <2>1, OfferType, LoadIs
  <2>4. Cardinality(Beyond(OfferOf(row[i]), load, Profile(i))) \in Nat
    BY <2>3, BeyondFinite
  <2>5. served[i] = 0
    BY DEF PackagesInit
  <2> QED BY <2>2, <2>4, <2>5 DEF RowRunsOut
<1> QED BY <1>t, <1>2, <1>3, <1>4 DEF RunsOutInv

(* A request is let in while less than load are busy, and adds itself only.    *)
LEMMA LoadStep ==
    ASSUME PackagesTypeOK, AtMostLoad, load' = load, NEW r \in Request, RequestStep(r)
    PROVE  AtMostLoad'
<1> DEFINE B == {q \in Request : ~At(q, "idle")}
<1>1. IsFiniteSet(B) /\ Cardinality(B) \in Nat /\ load \in Nat
  BY PackagesAssumption, FS_Subset, FS_CardinalityType, LoadIs
<1>2. CASE Arrives(r) /\ B' \in SUBSET (B \cup {r})
  <2>1. Cardinality(B) < load
    BY <1>2 DEF Arrives
  <2> HIDE DEF B
  <2>2. IsFiniteSet(B \cup {r}) /\ Cardinality(B \cup {r}) <= Cardinality(B) + 1
    <3>1. IsFiniteSet(B \cup {r})
      BY <1>1, FS_AddElement
    <3>2. Cardinality(B \cup {r}) = IF r \in B THEN Cardinality(B) ELSE Cardinality(B) + 1
      BY <1>1, FS_AddElement
    <3> QED BY <1>1, <3>1, <3>2
  <2>3. IsFiniteSet(B') /\ Cardinality(B') <= Cardinality(B \cup {r})
    BY <1>2, <2>2, FS_Subset
  <2>4. Cardinality(B') \in Nat /\ Cardinality(B \cup {r}) \in Nat
    BY <2>2, <2>3, FS_CardinalityType
  <2>5. Cardinality(B') <= load
    BY <1>1, <2>1, <2>2, <2>3, <2>4
  <2> QED BY <2>5 DEF AtMostLoad, B
<1>3. CASE B' \in SUBSET B
  <2> HIDE DEF B
  <2>1. IsFiniteSet(B') /\ Cardinality(B') <= Cardinality(B)
    BY <1>1, <1>3, FS_Subset
  <2>2. Cardinality(B') \in Nat
    BY <2>1, FS_CardinalityType
  <2>3. Cardinality(B) <= load
    BY DEF AtMostLoad, B
  <2>4. Cardinality(B') <= load
    BY <1>1, <2>1, <2>2, <2>3
  <2> QED BY <2>4 DEF AtMostLoad, B
<1>4. ASSUME Answer(r) PROVE B' \in SUBSET B
  BY <1>4 DEF Answer, At, Idle, PackagesTypeOK
<1>5. ASSUME NEW i \in Row, NEW l, Carry(r, l, i) PROVE B' \in SUBSET (B \cup {r})
  BY <1>5 DEF Carry, At, PackagesTypeOK
<1>6. CASE GetUsersActivePackage(r)
  BY <1>2, <1>5, <1>6 DEF GetUsersActivePackage, ActivePackages
<1>7. CASE Find(r)
  BY <1>2, <1>5, <1>7 DEF Find
<1> HIDE DEF B
<1> QED BY <1>3, <1>4, <1>6, <1>7
        DEF RequestStep, MapPackageState, MapPackageStateLost, NotEnoughCredit, Bill, Delete, Abort

LEMMA RunsOutStep == RunsOutInv /\ [PackagesNext]_packVars => RunsOutInv'
<1> SUFFICES ASSUME RunsOutInv, [PackagesNext]_packVars PROVE RunsOutInv'
  OBVIOUS
<1>n. PackagesTypeOK /\ AtMostLoad /\ CopiesFit /\ PackagesTypeOK' /\ load' = load
  BY TypeStep, LoadStays DEF RunsOutInv
<1>l. \A i \in Row : row[i] # None =>
          row[i] \in PackageRow /\ LeftOf(row[i]) \in Nat /\ OfferOf(row[i]) \in Nat
  BY <1>n, OfferType DEF PackagesTypeOK
<1>1. CASE UNCHANGED packVars
  <2>1. row' = row /\ req' = req /\ served' = served
    BY <1>1 DEF packVars
  <2>2. AtMostLoad' /\ CopiesFit'
    BY <1>n, <2>1 DEF AtMostLoad, At, CopiesFit
  <2>3. ASSUME NEW i \in Row, row'[i] # None PROVE RowRunsOut(i)'
    <3>2. Profile(i)' = Profile(i)
      BY <1>n, <2>1 DEF Profile, Spenders
    <3>3. RowRunsOut(i)
      BY <2>1, <2>3 DEF RunsOutInv
    <3> QED BY <1>n, <2>1, <3>2, <3>3 DEF RowRunsOut
  <2> QED BY <1>n, <2>2, <2>3 DEF RunsOutInv
<1>2. ASSUME NEW r \in Request, RequestStep(r) PROVE RunsOutInv'
  <2>m. AtMostLoad'
    BY <1>2, <1>n, LoadStep
  <2>h. ASSUME req[r].pc # "idle"
        PROVE  req[r].row \in Row /\ req[r].copy \in PackageRow
    BY <2>h, <1>n, BusyHolds
  (* Requests that go on hold what they held, of rows that kept their pack.    *)
  <2>f. ASSUME Answer(r), \A i \in Row : row'[i] # None => row[i] # None /\ row'[i].pack = row[i].pack
        PROVE  CopiesFit'
    BY <2>f, <1>n, BusyHolds DEF Answer, Idle, CopiesFit, PackagesTypeOK
  <2>q. ASSUME Answer(r), NEW i \in Row, NEW y \in Nat PROVE Spenders(i, y)' \subseteq Spenders(i, y)
    BY <2>q, <1>n DEF Answer, Idle, Spenders, PackagesTypeOK
  (* A request that ends without a change, or takes a copy of a row.           *)
  <2>a. ASSUME Answer(r), UNCHANGED <<row, served>> PROVE RunsOutInv'
    <3>1. CopiesFit'
      BY <2>a, <2>f
    <3>2. ASSUME NEW i \in Row, row'[i] # None PROVE RowRunsOut(i)'
      BY <2>a, <2>m, <2>q, <3>2, <1>n, <1>l, RowKept
    <3> QED BY <2>m, <3>1, <3>2, <1>n DEF RunsOutInv
  <2>c. ASSUME NEW i \in Row, row[i] # None, NEW l \in {"spend", "bill", "delete"}, Carry(r, l, i),
               l = "spend" => ~row[i].billed, UNCHANGED <<row, served>>
        PROVE  RunsOutInv'
    <3>1. req' = [req EXCEPT ![r] = [pc |-> l, row |-> i, copy |-> row[i]]]
      BY <2>c DEF Carry
    <3>2. LeftOf(row[i]) <= OfferOf(row[i])
      BY <2>c DEF RunsOutInv, RowRunsOut
    <3>3. CopiesFit'
      BY <2>c, <3>1, <3>2, <1>n, BusyHolds DEF CopiesFit, PackagesTypeOK
    <3>4. ASSUME NEW j \in Row, row'[j] # None PROVE RowRunsOut(j)'
      <4>1. ASSUME NEW y \in Nat, y > LeftOf(row'[j]) PROVE Spenders(j, y)' \subseteq Spenders(j, y)
        BY <2>c, <3>1, <3>4, <4>1, <1>l, <1>n DEF Spenders, PackagesTypeOK
      <4> QED BY <2>c, <2>m, <3>4, <4>1, <1>n, <1>l, RowKept
    <3> QED BY <2>m, <3>3, <3>4, <1>n DEF RunsOutInv
  (* A request that writes its copy back, with one unit less or billed.        *)
  <2>w. ASSUME req[r].pc # "idle", Answer(r), NEW d \in PackageRow, d.pack = req[r].copy.pack,
               NEW i \in Row, i = req[r].row, row' = Updated(i, d),
               \A j \in Row : j # i => served'[j] = served[j],
               row[i] # None => RowRunsOut(i)'
        PROVE  RunsOutInv'
    <3>1. i \in Row /\ (row[i] # None => d.pack = row[i].pack)
      BY <2>w, <2>h, <1>n DEF CopiesFit
    <3>2. \A j \in Row : row'[j] = IF j = i /\ row[i] # None THEN d ELSE row[j]
      BY <2>w, <3>1, <1>n DEF Updated, PackagesTypeOK
    <3>3. CopiesFit'
      BY <2>w, <2>f, <3>1, <3>2
    <3>4. ASSUME NEW j \in Row, row'[j] # None PROVE RowRunsOut(j)'
      <4>1. CASE j = i /\ row[i] # None
        BY <2>w, <4>1
      <4>2. CASE j # i
        BY <2>w, <2>m, <2>q, <3>2, <3>4, <4>2, <1>n, <1>l, RowKept
      <4>3. row[j] # None
        BY <3>2, <3>4
      <4> QED BY <4>1, <4>2, <4>3
    <3> QED BY <2>m, <3>3, <3>4, <1>n DEF RunsOutInv
  <2>p. ASSUME req[r].pc = "spend", Passes(req[r].copy), Answer(r),
               NEW i \in Row, i = req[r].row, row' = Updated(i, Spent(req[r].copy)),
               served' \in {served, [served EXCEPT ![i] = @ + 1]}
        PROVE  RunsOutInv'
    <3>1. i \in Row /\ req[r].copy \in PackageRow
      BY <2>p, <2>h
    <3>2. Spent(req[r].copy) \in PackageRow /\ Spent(req[r].copy).pack = req[r].copy.pack
      BY <2>p, <3>1, CreditType
    <3>3. /\ served[i] \in Nat /\ served'[i] \in Nat /\ served'[i] <= served[i] + 1
          /\ \A j \in Row : j # i => served'[j] = served[j]
      BY <2>p, <3>1, <1>n DEF PackagesTypeOK
    <3>4. ASSUME row[i] # None PROVE RowRunsOut(i)'
      <4>1. row' = [row EXCEPT ![i] = Spent(req[r].copy)]
        BY <2>p, <3>4 DEF Updated
      <4> QED BY <2>p, <2>m, <3>1, <3>3, <3>4, <4>1, <1>n, RowSpent
    <3> QED BY <2>p, <2>w, <3>1, <3>2, <3>3, <3>4
  <2>1. CASE GetUsersActivePackage(r)
    BY <2>1, <2>c DEF GetUsersActivePackage, ActivePackages
  <2>2. CASE MapPackageState(r)
    BY <2>2, <2>h, <2>p DEF MapPackageState, At
  <2>3. CASE MapPackageStateLost(r)
    BY <2>3, <2>h, <2>p DEF MapPackageStateLost, At
  <2>4. CASE NotEnoughCredit(r)
    BY <2>4, <2>a DEF NotEnoughCredit
  <2>5. CASE Find(r)
    BY <2>5, <2>c DEF Find
  <2>6. CASE Bill(r)
    <3>0. PICK i \in Row : i = req[r].row
      BY <2>6, <2>h DEF Bill, At
    <3> DEFINE d == [req[r].copy EXCEPT !.billed = TRUE]
    <3>1. req[r].copy \in PackageRow /\ req[r].pc = "bill" /\ Answer(r) /\ UNCHANGED served
      BY <2>6, <2>h DEF Bill, At
    <3>2. d \in PackageRow /\ d.pack = req[r].copy.pack /\ LeftOf(d) = 0
      BY <3>1 DEF PackageRow, LeftOf
    <3>3. row' = Updated(i, d)
      BY <2>6, <3>0 DEF Bill
    <3> HIDE DEF d
    <3>4. ASSUME row[i] # None PROVE RowRunsOut(i)'
      <4>1. row'[i] = d /\ d.pack = row[i].pack /\ d # None
        BY <3>0, <3>1, <3>2, <3>3, <3>4, <1>n, NoneAssumption DEF Updated, CopiesFit, PackagesTypeOK
      <4> QED BY <2>m, <2>q, <3>1, <3>2, <3>4, <4>1, <1>n, <1>l, RowKept
    <3> QED BY <2>w, <3>0, <3>1, <3>2, <3>3, <3>4
  <2>7. CASE Delete(r)
    <3>1. req[r].row \in Row /\ Answer(r) /\ UNCHANGED served
      BY <2>7, <2>h DEF Delete, At
    <3>2. \A j \in Row : row'[j] = IF j = req[r].row THEN None ELSE row[j]
      BY <2>7, <3>1, <1>n DEF Delete, PackagesTypeOK
    <3>3. CopiesFit'
      BY <2>f, <3>1, <3>2
    <3>4. ASSUME NEW j \in Row, row'[j] # None PROVE RowRunsOut(j)'
      BY <2>m, <2>q, <3>1, <3>2, <3>4, <1>n, <1>l, RowKept
    <3> QED BY <2>m, <3>3, <3>4, <1>n DEF RunsOutInv
  <2>8. CASE Abort(r)
    BY <2>8, <2>a DEF Abort
  <2> QED BY <1>2, <2>1, <2>2, <2>3, <2>4, <2>5, <2>6, <2>7, <2>8 DEF RequestStep
<1> QED BY <1>1, <1>2 DEF PackagesNext

(* However many requests overlap in mapPackageState, fail or come back late: a *)
(* row with n units, of which k requests at once make copies, pays for fewer   *)
(* actions than there are ways to choose k of n + k.                           *)
THEOREM CreditAlwaysRunsOut == PackagesSpec => []CreditRunsOut
<1>1. RunsOutInv => CreditRunsOut
  <2> SUFFICES ASSUME RunsOutInv, NEW i \in Row, row[i] # None
               PROVE  served[i] <= choose(OfferOf(row[i]) + load, load) - 1
    BY DEF CreditRunsOut
  <2>1. RowRunsOut(i) /\ served[i] \in Nat /\ row[i] \in PackageRow
    BY DEF RunsOutInv, PackagesTypeOK
  <2>2. OfferOf(row[i]) \in Nat /\ load \in Nat
    BY <2>1, OfferType, LoadIs DEF RunsOutInv
  <2>3. Profile(i) \in Profiles(OfferOf(row[i]), load)
    BY ProfileType DEF RunsOutInv, ProfilesFit
  <2>4. /\ Cardinality(Beyond(OfferOf(row[i]), load, Profile(i))) \in Nat
        /\ Cardinality(Beyond(OfferOf(row[i]), load, Profile(i))) + 1
             <= choose(OfferOf(row[i]) + load, load)
    BY <2>2, <2>3, BeyondFinite, BeyondGrows
  <2>5. choose(OfferOf(row[i]) + load, load) \in Int
    BY <2>2, ChooseType
  <2> QED BY <2>1, <2>4, <2>5 DEF RowRunsOut
<1> QED BY <1>1, RunsOutInit, RunsOutStep, PTL DEF PackagesSpec
=============================================================================
