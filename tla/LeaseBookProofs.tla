--------------------------- MODULE LeaseBookProofs ---------------------------
(* Proofs about LeaseBook, for every number of units, leases, requests and  *)
(* instances, every calendar and every set of terms and patches.            *)
EXTENDS LeaseBook, FiniteSetTheorems, TLAPS

USE DEF Exists, AtStep, GoTo

-----------------------------------------------------------------------------
(* Types.                                                                   *)

\* Merging a patch into a row gives a row.
LEMMA MergeType ==
  ASSUME NEW row \in Row, NEW p \in Patch
  PROVE  Merge(row, p) \in Row
BY DEF Merge, Row, Patch

\* The statuses set by the dates are statuses.
LEMMA StatusType ==
  ASSUME NEW row \in Row
  PROVE  StatusByDate(row) \in LeaseStatus
BY DEF StatusByDate, Row, LeaseStatus

\* Every handler and every step of the midnight job leaves the tables and the
\* handlers' local data well formed.
LEMMA TypingStep ==
  ASSUME TypeOK, [Next]_vars
  PROVE  TypeOK'
<1> USE LeaseBookAssumption DEF TypeOK
<1> Idle \in Work /\ Done \in Work
  BY DEF Work
<1>1. CASE Midnight
  <2> today' \in Day
    BY <1>1 DEF Midnight, Day
  <2> job' \in [Job -> [step : JobStep, due : SUBSET Lease]]
    BY <1>1 DEF Midnight, JobStep
  <2> QED
    BY <1>1 DEF Midnight
<1>2. ASSUME NEW r \in Req, NEW u \in Unit, NEW t \in Terms, CheckOverlap(r, u, t)
      PROVE  TypeOK'
  <2> DEFINE new == [step |-> "insert",
                     row |-> [unit |-> u, status |-> StatusAtCreation(t.start),
                              start |-> t.start, end |-> t.end, lastPaid |-> Never]]
  <2> t \in Term
    OBVIOUS
  <2> StatusAtCreation(t.start) \in LeaseStatus
    BY DEF StatusAtCreation, LeaseStatus
  <2> new \in Work
    BY DEF Work, Creating, Row, Term
  <2> work' \in [Req -> Work]
    BY <1>2 DEF CheckOverlap
  <2> QED
    BY <1>2 DEF CheckOverlap
<1>3. ASSUME NEW r \in Req, NEW u \in Unit, RemoveUnit(r, u)
      PROVE  TypeOK'
  <2> unpaid' \in [Lease -> Nat] /\ paidOn' \in [Lease -> Day \cup {Never}]
    BY <1>3 DEF RemoveUnit
  <2> QED
    BY <1>3 DEF RemoveUnit
<1>4. ASSUME NEW r \in Req, NEW u \in Unit, NEW s \in {"Vacant", "Occupied"}, SetUnitStatus(r, u, s)
      PROVE  TypeOK'
  BY <1>4 DEF SetUnitStatus
<1>5. ASSUME NEW r \in Req, NEW l \in Lease, NEW p \in Patch, Preload(r, l, p)
      PROVE  TypeOK'
  <2> [step |-> "update", id |-> l, row |-> lease[l], patch |-> p] \in Work
    BY <1>5 DEF Preload, Work, Updating
  <2> QED
    BY <1>5 DEF Preload
<1>6. ASSUME NEW r \in Req, NEW l \in Lease, ReadForPayment(r, l)
      PROVE  TypeOK'
  <2> [step |-> "pay", id |-> l, row |-> lease[l]] \in Work
    BY <1>6 DEF ReadForPayment, Work, Paying
  <2> QED
    BY <1>6 DEF ReadForPayment
<1>7. ASSUME NEW r \in Req, NEW l \in Lease, InsertLease(r, l)
      PROVE  TypeOK'
  <2> work[r] \in Creating
    BY <1>7 DEF InsertLease, Work, Idle, Done, Updating, Paying
  <2> QED
    BY <1>7 DEF InsertLease, Creating
<1>8. ASSUME NEW r \in Req, WriteRow(r)
      PROVE  TypeOK'
  <2> work[r] \in Updating
    BY <1>8 DEF WriteRow, Work, Idle, Done, Creating, Paying
  <2> work[r].id \in Lease /\ Merge(work[r].row, work[r].patch) \in Row
    BY MergeType DEF Updating
  <2> lease' \in [Lease -> Row \cup {Unused, Deleted}]
    BY <1>8 DEF WriteRow, Row
  <2> QED
    BY <1>8 DEF WriteRow
<1>9. ASSUME NEW r \in Req, SavePayment(r)
      PROVE  TypeOK'
  <2> work[r] \in Paying
    BY <1>9 DEF SavePayment, Work, Idle, Done, Creating, Updating
  <2> [step |-> "stamp", id |-> work[r].id,
       row |-> [work[r].row EXCEPT !.lastPaid = today]] \in Work
    BY DEF Work, Paying, Row
  <2> QED
    BY <1>9 DEF SavePayment, Paying
<1>10. ASSUME NEW r \in Req, StampLease(r)
       PROVE  TypeOK'
  <2> work[r] \in Paying
    BY <1>10 DEF StampLease, Work, Idle, Done, Creating, Updating
  <2> lease' \in [Lease -> Row \cup {Unused, Deleted}]
    BY <1>10 DEF StampLease, Row, Paying
  <2> QED
    BY <1>10 DEF StampLease
<1>11. ASSUME NEW r \in Req, RequestDies(r)
       PROVE  TypeOK'
  BY <1>11 DEF RequestDies
<1>12. ASSUME NEW i \in Job, UpdateLeaseStatus(i)
       PROVE  TypeOK'
  <2> lease' \in [Lease -> Row \cup {Unused, Deleted}]
    <3> ASSUME NEW l \in Lease
        PROVE  lease'[l] \in Row \cup {Unused, Deleted}
      BY <1>12, StatusType DEF UpdateLeaseStatus, Row
    <3> QED
      BY <1>12 DEF UpdateLeaseStatus
  <2> QED
    BY <1>12 DEF UpdateLeaseStatus, JobStep
<1>13. ASSUME NEW i \in Job, UpdateUnitStatus(i)
       PROVE  TypeOK'
  BY <1>13 DEF UpdateUnitStatus, JobStep
<1>14. ASSUME NEW i \in Job, SelectUnpaid(i)
       PROVE  TypeOK'
  BY <1>14 DEF SelectUnpaid, DueLeases, JobStep
<1>15. ASSUME NEW i \in Job, InsertUnpaid(i)
       PROVE  TypeOK'
  BY <1>15 DEF InsertUnpaid, JobStep
<1>16. ASSUME NEW i \in Job, JobDies(i)
       PROVE  TypeOK'
  BY <1>16 DEF JobDies, JobStep
<1>17. ASSUME NEW r \in Req, NEW l \in Lease,
              UpdateLease(r, l) \/ TerminateLease(r, l) \/ RenewLease(r, l)
       PROVE  TypeOK'
  <2> ASSUME NEW s \in LeaseStatus
      PROVE  [status |-> s, start |-> Keep, end |-> today] \in Patch
    BY DEF Patch
  <2> \E p \in Patch : Preload(r, l, p)
    BY <1>17 DEF UpdateLease, TerminateLease, RenewLease, LeaseStatus
  <2> QED
    BY <1>5
<1>18. CASE UNCHANGED vars
  BY <1>18 DEF vars
<1> QED
  BY <1>1, <1>2, <1>3, <1>4, <1>6, <1>7, <1>8, <1>9, <1>10, <1>11, <1>12, <1>13, <1>14,
     <1>15, <1>16, <1>17, <1>18
     DEF Next, RequestArrives, RequestGoesOn, JobGoesOn

\* The lease book stays well formed.
THEOREM Typing == Spec => []TypeOK
<1>1. Init => TypeOK
  BY LeaseBookAssumption DEF Init, TypeOK, Day, Work, JobStep
<1> QED
  BY <1>1, TypingStep, PTL DEF Spec

-----------------------------------------------------------------------------
(* Unpaid rows.  BillsBounded is not inductive: an instance that has        *)
(* selected a lease is going to add a row to it.  Counting those instances  *)
(* makes it so: nobody selects a lease that has an Unpaid row.              *)

Inserting(l) == {i \in Job : job[i].step = "insert" /\ l \in job[i].due}

BillsInv == \A l \in Lease : unpaid[l] + Cardinality(Inserting(l)) <= Cardinality(Job)

\* The instances about to bill a lease are finitely many, at most all of them.
LEMMA InsertingFinite ==
  ASSUME NEW l \in Lease
  PROVE  /\ IsFiniteSet(Inserting(l))
         /\ Cardinality(Inserting(l)) \in Nat
         /\ Cardinality(Inserting(l)) <= Cardinality(Job)
         /\ Cardinality(Job) \in Nat
<1>1. Inserting(l) \subseteq Job /\ IsFiniteSet(Job)
  BY LeaseBookAssumption DEF Inserting
<1> QED
  BY <1>1, FS_Subset, FS_CardinalityType

\* The same in the state after a step.
LEMMA InsertingFiniteNext ==
  ASSUME NEW l \in Lease
  PROVE  /\ IsFiniteSet(Inserting(l)')
         /\ Cardinality(Inserting(l)') \in Nat
         /\ Cardinality(Inserting(l)') <= Cardinality(Job)
         /\ Cardinality(Job) \in Nat
<1>1. Inserting(l)' \subseteq Job /\ IsFiniteSet(Job)
  BY LeaseBookAssumption DEF Inserting
<1> QED
  BY <1>1, FS_Subset, FS_CardinalityType

\* A step that leaves the jobs alone and adds no Unpaid row keeps the bound.
LEMMA BillsOtherStep ==
  ASSUME TypeOK, BillsInv, UNCHANGED job, TypeOK',
         \A l \in Lease : unpaid'[l] <= unpaid[l]
  PROVE  BillsInv'
<1> SUFFICES ASSUME NEW l \in Lease
             PROVE  unpaid'[l] + Cardinality(Inserting(l)') <= Cardinality(Job)
  BY DEF BillsInv
<1>1. Inserting(l)' = Inserting(l)
  BY DEF Inserting
<1>2. unpaid[l] \in Nat /\ unpaid'[l] \in Nat
  BY DEF TypeOK
<1> QED
  BY <1>1, <1>2, InsertingFinite DEF BillsInv

\* A step of the jobs after which no more of them are about to bill a lease keeps
\* the bound.
LEMMA BillsQuietStep ==
  ASSUME TypeOK, BillsInv, UNCHANGED unpaid,
         NEW l \in Lease, Inserting(l)' \subseteq Inserting(l)
  PROVE  unpaid'[l] + Cardinality(Inserting(l)') <= Cardinality(Job)
<1>1. Cardinality(Inserting(l)') <= Cardinality(Inserting(l))
  BY InsertingFinite, FS_Subset
<1>2. unpaid[l] \in Nat
  BY DEF TypeOK
<1> QED
  BY <1>1, <1>2, InsertingFinite, InsertingFiniteNext DEF BillsInv

\* The count of Unpaid rows and pending insertions never exceeds the instances.
LEMMA BillsStep ==
  ASSUME TypeOK, TypeOK', BillsInv, [Next]_vars
  PROVE  BillsInv'
<1>1. CASE Midnight
  <2> SUFFICES ASSUME NEW l \in Lease
               PROVE  unpaid'[l] + Cardinality(Inserting(l)') <= Cardinality(Job)
    BY DEF BillsInv
  <2> Inserting(l)' = {}
    BY <1>1 DEF Midnight, Inserting
  <2> QED
    BY <1>1, BillsQuietStep DEF Midnight
<1>2. ASSUME NEW i \in Job, SelectUnpaid(i)
      PROVE  BillsInv'
  <2> SUFFICES ASSUME NEW l \in Lease
               PROVE  unpaid'[l] + Cardinality(Inserting(l)') <= Cardinality(Job)
    BY DEF BillsInv
  <2>1. CASE l \in DueLeases
    <3> unpaid'[l] = 0
      BY <1>2, <2>1 DEF SelectUnpaid, DueLeases
    <3> QED
      BY InsertingFiniteNext
  <2>2. CASE l \notin DueLeases
    <3> Inserting(l)' \subseteq Inserting(l)
      BY <1>2, <2>2 DEF SelectUnpaid, Inserting, TypeOK
    <3> QED
      BY <1>2, BillsQuietStep DEF SelectUnpaid
  <2> QED
    BY <2>1, <2>2
<1>3. ASSUME NEW i \in Job, InsertUnpaid(i)
      PROVE  BillsInv'
  <2> SUFFICES ASSUME NEW l \in Lease
               PROVE  unpaid'[l] + Cardinality(Inserting(l)') <= Cardinality(Job)
    BY DEF BillsInv
  <2>1. Inserting(l)' = Inserting(l) \ {i}
    BY <1>3 DEF InsertUnpaid, Inserting, TypeOK
  <2>2. CASE unpaid'[l] = unpaid[l]
    <3>1. Cardinality(Inserting(l)') <= Cardinality(Inserting(l))
      BY <2>1, InsertingFinite, FS_Subset
    <3>2. unpaid[l] \in Nat
      BY DEF TypeOK
    <3> QED
      BY <2>2, <3>1, <3>2, InsertingFinite, InsertingFiniteNext DEF BillsInv
  <2>3. CASE unpaid'[l] # unpaid[l]
    <3>1. i \in Inserting(l) /\ unpaid'[l] = unpaid[l] + 1
      BY <1>3, <2>3 DEF InsertUnpaid, Inserting, TypeOK
    <3>2. Cardinality(Inserting(l)') = Cardinality(Inserting(l)) - 1
      BY <2>1, <3>1, InsertingFinite, FS_RemoveElement
    <3>3. unpaid[l] \in Nat
      BY DEF TypeOK
    <3> QED
      BY <3>1, <3>2, <3>3, InsertingFinite DEF BillsInv
  <2> QED
    BY <2>2, <2>3
<1>4. ASSUME NEW i \in Job, UpdateLeaseStatus(i) \/ UpdateUnitStatus(i) \/ JobDies(i)
      PROVE  BillsInv'
  <2> SUFFICES ASSUME NEW l \in Lease
               PROVE  unpaid'[l] + Cardinality(Inserting(l)') <= Cardinality(Job)
    BY DEF BillsInv
  <2>1. UNCHANGED unpaid
    BY <1>4 DEF UpdateLeaseStatus, UpdateUnitStatus, JobDies
  <2>2. Inserting(l)' \subseteq Inserting(l)
    BY <1>4 DEF UpdateLeaseStatus, UpdateUnitStatus, JobDies, Inserting, TypeOK
  <2> QED
    BY <2>1, <2>2, BillsQuietStep
<1>5. ASSUME NEW r \in Req, RequestArrives(r) \/ RequestGoesOn(r) \/ RequestDies(r)
      PROVE  BillsInv'
  <2>1. UNCHANGED job
    BY <1>5 DEF RequestArrives, RequestGoesOn, RequestDies, CheckOverlap, RemoveUnit,
                SetUnitStatus, UpdateLease, TerminateLease, RenewLease, Preload,
                ReadForPayment, InsertLease, WriteRow, SavePayment, StampLease
  <2>2. UNCHANGED unpaid \/ \E u \in Unit : RemoveUnit(r, u)
    BY <1>5 DEF RequestArrives, RequestGoesOn, RequestDies, CheckOverlap,
                SetUnitStatus, UpdateLease, TerminateLease, RenewLease, Preload,
                ReadForPayment, InsertLease, WriteRow, SavePayment, StampLease
  <2>3. \A l \in Lease : unpaid'[l] <= unpaid[l]
    BY <2>2 DEF RemoveUnit, TypeOK
  <2> QED
    BY <2>1, <2>3, BillsOtherStep
<1>6. CASE UNCHANGED vars
  <2> \A l \in Lease : unpaid'[l] <= unpaid[l]
    BY <1>6 DEF vars, TypeOK
  <2> QED
    BY <1>6, BillsOtherStep DEF vars
<1> QED
  BY <1>1, <1>2, <1>3, <1>4, <1>5, <1>6 DEF Next, JobGoesOn

\* A lease never carries more Unpaid rows than there are instances: with the single
\* instance that is deployed, none is ever inserted twice, whatever requests and
\* crashes come between the selection and the insertion.
THEOREM BillsBoundedAlways == Spec => []BillsBounded
<1>1. Init => BillsInv
  <2> SUFFICES ASSUME Init, NEW l \in Lease
               PROVE  unpaid[l] + Cardinality(Inserting(l)) <= Cardinality(Job)
    BY DEF BillsInv
  <2> unpaid[l] = 0
    BY DEF Init
  <2> QED
    BY InsertingFinite
<1>2. TypeOK /\ BillsInv => BillsBounded
  <2> SUFFICES ASSUME TypeOK, BillsInv, NEW l \in Lease
               PROVE  unpaid[l] <= Cardinality(Job)
    BY DEF BillsBounded
  <2> unpaid[l] \in Nat
    BY DEF TypeOK
  <2> QED
    BY InsertingFinite DEF BillsInv
<1> QED
  BY <1>1, <1>2, BillsStep, Typing, PTL DEF Spec

-----------------------------------------------------------------------------
(* Units.                                                                   *)

\* UnitStillThere is inductive: only the insertion sets the unit of a row, and it
\* fails when the unit has gone; only the removal takes a unit away, with its rows.
LEMMA UnitStep ==
  ASSUME TypeOK, UnitStillThere, [Next]_vars
  PROVE  UnitStillThere'
<1> SUFFICES ASSUME NEW l \in Lease, Exists(l)', lease'[l].unit # NoUnit
             PROVE  unit'[lease'[l].unit] # "Removed"
  BY DEF UnitStillThere
<1> USE DEF UnitStillThere, TypeOK
<1>1. CASE UNCHANGED <<lease, unit>>
  BY <1>1
<1>2. ASSUME NEW r \in Req, NEW u \in Unit, RemoveUnit(r, u)
      PROVE  unit'[lease'[l].unit] # "Removed"
  <2>1. lease'[l] = lease[l] /\ lease[l].unit # u /\ Exists(l)
    BY <1>2 DEF RemoveUnit
  <2>2. lease[l].unit \in Unit
    BY <2>1 DEF Row
  <2> QED
    BY <1>2, <2>1, <2>2 DEF RemoveUnit
<1>3. ASSUME NEW r \in Req, NEW u \in Unit, NEW s \in {"Vacant", "Occupied"}, SetUnitStatus(r, u, s)
      PROVE  unit'[lease'[l].unit] # "Removed"
  <2> lease[l] \in Row
    BY <1>3 DEF SetUnitStatus
  <2> QED
    BY <1>3 DEF SetUnitStatus, Row
<1>4. ASSUME NEW r \in Req, NEW k \in Lease, InsertLease(r, k)
      PROVE  unit'[lease'[l].unit] # "Removed"
  BY <1>4 DEF InsertLease
<1>5. ASSUME NEW r \in Req, WriteRow(r)
      PROVE  unit'[lease'[l].unit] # "Removed"
  <2> work[r] \in Updating
    BY <1>5 DEF WriteRow, Work, Idle, Done, Creating, Paying
  <2> Merge(work[r].row, work[r].patch) \in Row
    BY MergeType DEF Updating
  <2>1. Exists(l) /\ lease'[l].unit = lease[l].unit
    BY <1>5 DEF WriteRow, Row, Updating
  <2> QED
    BY <1>5, <2>1 DEF WriteRow
<1>6. ASSUME NEW r \in Req, StampLease(r)
      PROVE  unit'[lease'[l].unit] # "Removed"
  <2> work[r] \in Paying
    BY <1>6 DEF StampLease, Work, Idle, Done, Creating, Updating
  <2>1. Exists(l) /\ lease'[l].unit = lease[l].unit
    BY <1>6 DEF StampLease, Row, Paying
  <2> QED
    BY <1>6, <2>1 DEF StampLease
<1>7. ASSUME NEW i \in Job, UpdateLeaseStatus(i)
      PROVE  unit'[lease'[l].unit] # "Removed"
  <2>1. Exists(l) /\ lease'[l] = [lease[l] EXCEPT !.status = StatusByDate(lease[l])]
    BY <1>7 DEF UpdateLeaseStatus
  <2>2. lease'[l].unit = lease[l].unit
    BY <2>1 DEF Row
  <2> QED
    BY <1>7, <2>1, <2>2 DEF UpdateLeaseStatus
<1>8. ASSUME NEW i \in Job, UpdateUnitStatus(i)
      PROVE  unit'[lease'[l].unit] # "Removed"
  <2>1. lease'[l] = lease[l] /\ lease[l] \in Row
    BY <1>8 DEF UpdateUnitStatus
  <2>2. lease[l].unit \in Unit /\ unit[lease[l].unit] # "Removed"
    BY <1>8, <2>1 DEF UpdateUnitStatus, Row
  <2>3. unit'[lease[l].unit] \in {"Occupied", "Vacant"}
    BY <1>8, <2>2 DEF UpdateUnitStatus
  <2> QED
    BY <2>1, <2>3
<1> QED
  BY <1>1, <1>2, <1>3, <1>4, <1>5, <1>6, <1>7, <1>8
     DEF Next, vars, RequestArrives, RequestGoesOn, JobGoesOn, RequestDies, JobDies, Midnight,
         CheckOverlap, UpdateLease, TerminateLease, RenewLease, Preload, ReadForPayment,
         SavePayment, SelectUnpaid, InsertUnpaid

\* A lease belongs to a unit that is there, or to none, however creations, updates
\* and payments race with the removal of units.
THEOREM UnitStillThereAlways == Spec => []UnitStillThere
<1>1. Init => UnitStillThere
  BY DEF Init, UnitStillThere
<1> QED
  BY <1>1, UnitStep, Typing, PTL DEF Spec

-----------------------------------------------------------------------------
(* Payments.  LastPaidBacked is not inductive: handlers write rows back that *)
(* they read earlier.  PaidInv says the same of those rows.                  *)

OfUnit(l) == Exists(l) /\ lease[l].unit # NoUnit

Backed(row, l) == row.lastPaid # Never => (paidOn[l] # Never /\ row.lastPaid <= paidOn[l])

\* The requests that will write a row back.
Carries(r) == work[r].step \in {"update", "pay", "stamp"}

RowsBacked == \A l \in Lease : OfUnit(l) => Backed(lease[l], l)

CarriedKnown == \A r \in Req : Carries(r) => lease[work[r].id] # Unused

CarriedBacked ==
  \A r \in Req : (Carries(r) /\ OfUnit(work[r].id)) => Backed(work[r].row, work[r].id)

NewUnpaid == \A r \in Req : work[r].step = "insert" => work[r].row.lastPaid = Never

PaidByToday == \A l \in Lease : paidOn[l] # Never => paidOn[l] <= today

PaidInv == RowsBacked /\ CarriedKnown /\ CarriedBacked /\ NewUnpaid /\ PaidByToday

\* What a request that writes a row back holds.
LEMMA CarriesType ==
  ASSUME TypeOK, NEW r \in Req
  PROVE  /\ Carries(r) => work[r].id \in Lease /\ work[r].row \in Row
         /\ work[r].step = "update" => work[r] \in Updating
         /\ work[r].step \in {"pay", "stamp"} => work[r] \in Paying
         /\ work[r].step = "insert" => work[r] \in Creating
<1>1. work[r] \in Work
  BY DEF TypeOK
<1>2. /\ work[r].step = "update" => work[r] \in Updating
      /\ work[r].step \in {"pay", "stamp"} => work[r] \in Paying
      /\ work[r].step = "insert" => work[r] \in Creating
  BY <1>1 DEF Work, Idle, Done, Creating, Updating, Paying
<1> QED
  BY <1>2 DEF Carries, Updating, Paying

\* A step that adds no row and no payment, ends some requests and lets the others
\* go on as they were keeps the invariant.
LEMMA PaidQuietStep ==
  ASSUME TypeOK, PaidInv, UNCHANGED <<lease, paidOn>>,
         today' = today,
         \A q \in Req : work'[q] = work[q] \/ work'[q] = Done
  PROVE  PaidInv'
<1>1. RowsBacked' /\ PaidByToday'
  BY DEF PaidInv, RowsBacked, OfUnit, Backed, PaidByToday
<1>2. \A q \in Req : /\ Carries(q)' => Carries(q) /\ work'[q] = work[q]
                     /\ work'[q].step = "insert" => work'[q] = work[q]
  BY DEF Carries, Done
<1>3. CarriedKnown' /\ CarriedBacked' /\ NewUnpaid'
  BY <1>2 DEF PaidInv, CarriedKnown, CarriedBacked, NewUnpaid, OfUnit, Backed
<1> QED
  BY <1>1, <1>3 DEF PaidInv

\* A request that reads a row takes over what is true of the row.
LEMMA PaidReadStep ==
  ASSUME TypeOK, PaidInv, UNCHANGED <<lease, paidOn, today>>,
         NEW r \in Req, NEW l \in Lease, Exists(l),
         \A q \in Req \ {r} : work'[q] = work[q],
         work'[r].step \in {"update", "pay"}, work'[r].id = l, work'[r].row = lease[l]
  PROVE  PaidInv'
<1>1. RowsBacked' /\ PaidByToday'
  BY DEF PaidInv, RowsBacked, OfUnit, Backed, PaidByToday
<1>2. CarriedKnown'
  BY DEF PaidInv, CarriedKnown, Carries
<1>3. CarriedBacked'
  <2> SUFFICES ASSUME NEW q \in Req, Carries(q)', OfUnit(work[q].id)'
               PROVE  Backed(work[q].row, work[q].id)'
    BY DEF CarriedBacked
  <2>1. CASE q = r
    BY <2>1 DEF PaidInv, RowsBacked, OfUnit, Backed
  <2>2. CASE q # r
    BY <2>2 DEF PaidInv, CarriedBacked, Carries, OfUnit, Backed
  <2> QED
    BY <2>1, <2>2
<1>4. NewUnpaid'
  BY DEF PaidInv, NewUnpaid
<1> QED
  BY <1>1, <1>2, <1>3, <1>4 DEF PaidInv

\* A request that ends by writing a row of l that is backed keeps the invariant.
LEMMA PaidWriteStep ==
  ASSUME TypeOK, PaidInv, UNCHANGED <<paidOn, today>>,
         NEW r \in Req, NEW l \in Lease, NEW row \in Row,
         lease' = [lease EXCEPT ![l] = row],
         row.unit # NoUnit => Backed(row, l),
         row.unit # NoUnit => lease[l] = Unused \/ OfUnit(l),
         work' = [work EXCEPT ![r] = Done]
  PROVE  PaidInv'
<1> USE DEF TypeOK
<1>1. lease'[l] = row /\ \A k \in Lease \ {l} : lease'[k] = lease[k]
  OBVIOUS
<1>2. RowsBacked'
  BY <1>1 DEF PaidInv, RowsBacked, OfUnit, Backed
<1>3. \A q \in Req : /\ Carries(q)' => Carries(q) /\ work'[q] = work[q]
                     /\ work'[q].step = "insert" => work'[q] = work[q]
  BY DEF Carries, Done
<1>4. CarriedKnown'
  BY <1>1, <1>3, CarriesType, LeaseBookAssumption DEF PaidInv, CarriedKnown
<1>5. CarriedBacked'
  <2> SUFFICES ASSUME NEW q \in Req, Carries(q)', OfUnit(work[q].id)'
               PROVE  Backed(work[q].row, work[q].id)'
    BY DEF CarriedBacked
  <2>1. Carries(q) /\ work'[q] = work[q] /\ work[q].id \in Lease
    BY <1>3, CarriesType
  <2>2. OfUnit(work[q].id)
    BY <1>1, <2>1 DEF OfUnit, PaidInv, CarriedKnown
  <2> QED
    BY <2>1, <2>2 DEF PaidInv, CarriedBacked, Backed
<1>6. NewUnpaid' /\ PaidByToday'
  BY <1>3 DEF PaidInv, NewUnpaid, PaidByToday
<1> QED
  BY <1>2, <1>4, <1>5, <1>6 DEF PaidInv

\* Every step keeps the rows in the table and the rows in flight backed by payments.
LEMMA PaidStep ==
  ASSUME TypeOK, TypeOK', PaidInv, [Next]_vars
  PROVE  PaidInv'
<1> USE DEF TypeOK
<1>1. CASE Midnight
  <2>1. UNCHANGED <<lease, paidOn, work>> /\ today <= today'
    BY <1>1, LeaseBookAssumption DEF Midnight, Day
  <2>2. PaidByToday'
    <3> SUFFICES ASSUME NEW l \in Lease, paidOn[l] # Never
                 PROVE  paidOn[l] <= today'
      BY <2>1 DEF PaidByToday
    <3>1. paidOn[l] \in Nat /\ today \in Nat /\ today' \in Nat
      BY DEF Day
    <3> QED
      BY <2>1, <3>1 DEF PaidInv, PaidByToday
  <2> QED
    BY <2>1, <2>2
       DEF PaidInv, RowsBacked, CarriedKnown, CarriedBacked, NewUnpaid, Carries, OfUnit, Backed
<1>2. ASSUME NEW r \in Req, NEW u \in Unit, NEW t \in Terms, CheckOverlap(r, u, t)
      PROVE  PaidInv'
  <2>1. UNCHANGED <<lease, paidOn, today>> /\ \A q \in Req \ {r} : work'[q] = work[q]
    BY <1>2 DEF CheckOverlap
  <2>2. work'[r] = Done \/ (work'[r].step = "insert" /\ work'[r].row.lastPaid = Never)
    BY <1>2 DEF CheckOverlap
  <2>3. ~ Carries(r)'
    BY <2>2 DEF Carries, Done
  <2>4. RowsBacked' /\ PaidByToday'
    BY <2>1 DEF PaidInv, RowsBacked, OfUnit, Backed, PaidByToday
  <2>5. CarriedKnown' /\ CarriedBacked'
    BY <2>1, <2>3 DEF PaidInv, CarriedKnown, CarriedBacked, Carries, OfUnit, Backed
  <2>6. NewUnpaid'
    BY <2>1, <2>2 DEF PaidInv, NewUnpaid, Done
  <2> QED
    BY <2>4, <2>5, <2>6 DEF PaidInv
<1>3. ASSUME NEW r \in Req, NEW u \in Unit, RemoveUnit(r, u)
      PROVE  PaidInv'
  <2>1. \A l \in Lease : OfUnit(l)' => OfUnit(l) /\ lease'[l] = lease[l] /\ paidOn'[l] = paidOn[l]
    BY <1>3 DEF RemoveUnit, OfUnit
  <2>2. \A l \in Lease : lease[l] # Unused => lease'[l] # Unused
    BY <1>3, LeaseBookAssumption DEF RemoveUnit
  <2>3. today' = today /\ \A l \in Lease : paidOn'[l] # Never => paidOn'[l] = paidOn[l]
    BY <1>3 DEF RemoveUnit
  <2>4. \A q \in Req : /\ Carries(q)' => Carries(q) /\ work'[q] = work[q] /\ work[q].id \in Lease
                       /\ work'[q].step = "insert" => work'[q] = work[q]
    BY <1>3, CarriesType DEF RemoveUnit, Carries, Done
  <2>5. RowsBacked' /\ PaidByToday'
    BY <2>1, <2>3 DEF PaidInv, RowsBacked, Backed, PaidByToday
  <2>6. CarriedKnown' /\ NewUnpaid'
    BY <2>2, <2>4 DEF PaidInv, CarriedKnown, NewUnpaid
  <2>7. CarriedBacked'
    <3> SUFFICES ASSUME NEW q \in Req, Carries(q)', OfUnit(work[q].id)'
                 PROVE  Backed(work[q].row, work[q].id)'
      BY DEF CarriedBacked
    <3> QED
      BY <2>1, <2>4 DEF PaidInv, CarriedBacked, Backed
  <2> QED
    BY <2>5, <2>6, <2>7 DEF PaidInv
<1>4. ASSUME NEW r \in Req, NEW l \in Lease, NEW p \in Patch, Preload(r, l, p)
      PROVE  PaidInv'
  <2>1. /\ UNCHANGED <<lease, paidOn, today>> /\ Exists(l)
        /\ \A q \in Req \ {r} : work'[q] = work[q]
        /\ work'[r] = [step |-> "update", id |-> l, row |-> lease[l], patch |-> p]
    BY <1>4 DEF Preload
  <2> QED
    BY <2>1, PaidReadStep
<1>5. ASSUME NEW r \in Req, NEW l \in Lease, ReadForPayment(r, l)
      PROVE  PaidInv'
  <2>1. /\ UNCHANGED <<lease, paidOn, today>> /\ Exists(l)
        /\ \A q \in Req \ {r} : work'[q] = work[q]
        /\ work'[r] = [step |-> "pay", id |-> l, row |-> lease[l]]
    BY <1>5 DEF ReadForPayment
  <2> QED
    BY <2>1, PaidReadStep
<1>6. ASSUME NEW r \in Req, NEW l \in Lease, InsertLease(r, l)
      PROVE  PaidInv'
  <2>1. UNCHANGED <<paidOn, today>> /\ lease[l] = Unused /\ work' = [work EXCEPT ![r] = Done]
    BY <1>6 DEF InsertLease
  <2>2. work[r].row \in Row /\ Backed(work[r].row, l)
    BY <1>6, CarriesType DEF InsertLease, Creating, PaidInv, NewUnpaid, Backed
  <2>3. CASE lease' = lease
    <3> \A q \in Req : work'[q] = work[q] \/ work'[q] = Done
      BY <2>1
    <3> QED
      BY <2>1, <2>3, PaidQuietStep
  <2>4. CASE lease' = [lease EXCEPT ![l] = work[r].row]
    BY <2>1, <2>2, <2>4, PaidWriteStep
  <2> QED
    BY <1>6, <2>3, <2>4 DEF InsertLease
<1>7. ASSUME NEW r \in Req, WriteRow(r)
      PROVE  PaidInv'
  <2> DEFINE l == work[r].id
             row == [Merge(work[r].row, work[r].patch) EXCEPT !.unit = lease[l].unit]
  <2>1. UNCHANGED <<paidOn, today>> /\ work' = [work EXCEPT ![r] = Done] /\ work[r].step = "update"
    BY <1>7 DEF WriteRow
  <2>2. l \in Lease /\ work[r] \in Updating /\ Carries(r)
    BY <2>1, CarriesType DEF Carries
  <2>3. CASE Exists(l)
    <3>1. Merge(work[r].row, work[r].patch) \in Row /\ lease[l] \in Row
      BY <2>2, <2>3, MergeType DEF Updating
    <3>2. row \in Row /\ row.unit = lease[l].unit
      BY <3>1 DEF Row
    <3>3. row.lastPaid = work[r].row.lastPaid
      BY <2>2, <3>1 DEF Merge, Row, Updating
    <3>4. row.unit # NoUnit => OfUnit(l) /\ Backed(row, l)
      BY <2>2, <2>3, <3>2, <3>3 DEF OfUnit, PaidInv, CarriedBacked, Backed
    <3>5. lease' = [lease EXCEPT ![l] = row]
      BY <1>7, <2>3 DEF WriteRow
    <3> HIDE DEF row
    <3> QED
      BY <2>1, <2>2, <3>2, <3>4, <3>5, PaidWriteStep
  <2>4. CASE ~ Exists(l)
    <3> lease' = lease /\ \A q \in Req : work'[q] = work[q] \/ work'[q] = Done
      BY <1>7, <2>1, <2>4 DEF WriteRow
    <3> QED
      BY <2>1, PaidQuietStep
  <2> QED
    BY <2>3, <2>4
<1>8. ASSUME NEW r \in Req, SavePayment(r)
      PROVE  PaidInv'
  <2> DEFINE l == work[r].id
  <2>1. UNCHANGED <<lease, today>> /\ l \in Lease /\ Carries(r) /\ work[r].row \in Row
    BY <1>8, CarriesType DEF SavePayment, Carries
  <2>2. CASE Exists(l)
    <3>1. paidOn' = [paidOn EXCEPT ![l] = today] /\ today # Never /\ today \in Nat
      BY <1>8, <2>2, LeaseBookAssumption DEF SavePayment, Day
    <3>2. /\ \A q \in Req \ {r} : work'[q] = work[q]
          /\ work'[r].step = "stamp" /\ work'[r].id = l /\ work'[r].row.lastPaid = today
      BY <1>8, <2>1, <2>2 DEF SavePayment, Row
    <3>3. ASSUME NEW k \in Lease, NEW row \in Row, Backed(row, k)
          PROVE  Backed(row, k)'
      <4>1. CASE k # l
        BY <3>1, <3>3, <4>1 DEF Backed
      <4>2. CASE k = l
        <5>1. ASSUME row.lastPaid # Never
              PROVE  /\ row.lastPaid \in Nat /\ paidOn[l] \in Nat
                     /\ row.lastPaid <= paidOn[l] /\ paidOn[l] <= today
          BY <2>1, <3>3, <4>2, <5>1 DEF Backed, Row, Day, PaidInv, PaidByToday
        <5> QED
          BY <2>1, <3>1, <4>2, <5>1 DEF Backed
      <4> QED
        BY <4>1, <4>2
    <3>4. RowsBacked'
      BY <2>1, <3>3 DEF PaidInv, RowsBacked, OfUnit
    <3>5. CarriedKnown'
      BY <2>1, <3>2 DEF PaidInv, CarriedKnown, Carries
    <3>6. CarriedBacked'
      <4> SUFFICES ASSUME NEW q \in Req, Carries(q)', OfUnit(work[q].id)'
                   PROVE  Backed(work[q].row, work[q].id)'
        BY DEF CarriedBacked
      <4>1. CASE q = r
        BY <2>1, <3>1, <3>2, <4>1 DEF Backed
      <4>2. CASE q # r
        <5>1. work'[q] = work[q] /\ Carries(q) /\ work[q].id \in Lease /\ work[q].row \in Row
          BY <3>2, <4>2, CarriesType DEF Carries
        <5>2. Backed(work[q].row, work[q].id)
          BY <2>1, <5>1 DEF PaidInv, CarriedBacked, OfUnit
        <5>3. ASSUME NEW k \in Lease, NEW row \in Row, k = work[q].id, row = work[q].row
              PROVE  Backed(row, k)'
          BY <3>3, <5>2, <5>3
        <5> QED
          BY <5>1, <5>3 DEF Backed
      <4> QED
        BY <4>1, <4>2
    <3>7. NewUnpaid' /\ PaidByToday'
      BY <2>1, <3>1, <3>2 DEF PaidInv, NewUnpaid, PaidByToday
    <3> QED
      BY <3>4, <3>5, <3>6, <3>7 DEF PaidInv
  <2>3. CASE ~ Exists(l)
    <3> paidOn' = paidOn /\ \A q \in Req : work'[q] = work[q] \/ work'[q] = Done
      BY <1>8, <2>3 DEF SavePayment
    <3> QED
      BY <2>1, PaidQuietStep
  <2> QED
    BY <2>2, <2>3
<1>9. ASSUME NEW r \in Req, StampLease(r)
      PROVE  PaidInv'
  <2> DEFINE l == work[r].id
             row == [work[r].row EXCEPT !.unit = IF Exists(l) THEN lease[l].unit ELSE NoUnit]
  <2>1. /\ UNCHANGED <<paidOn, today>> /\ work' = [work EXCEPT ![r] = Done]
        /\ lease' = [lease EXCEPT ![l] = row]
    BY <1>9 DEF StampLease
  <2>2. l \in Lease /\ Carries(r) /\ work[r].row \in Row
    BY <1>9, CarriesType DEF StampLease, Carries
  <2>3. row \in Row /\ row.lastPaid = work[r].row.lastPaid
        /\ row.unit = IF Exists(l) THEN lease[l].unit ELSE NoUnit
    BY <2>2 DEF Row
  <2>4. row.unit # NoUnit => OfUnit(l) /\ Backed(row, l)
    BY <2>2, <2>3 DEF OfUnit, PaidInv, CarriedBacked, Backed
  <2> HIDE DEF row
  <2> QED
    BY <2>1, <2>2, <2>3, <2>4, PaidWriteStep
<1>10. ASSUME NEW i \in Job, UpdateLeaseStatus(i)
       PROVE  PaidInv'
  <2>1. UNCHANGED <<paidOn, today, work>>
    BY <1>10 DEF UpdateLeaseStatus
  <2>2. ASSUME NEW l \in Lease
        PROVE  IF Exists(l)
               THEN /\ Exists(l)' /\ lease'[l].unit = lease[l].unit
                    /\ lease'[l].lastPaid = lease[l].lastPaid
               ELSE lease'[l] = lease[l]
    <3>1. CASE Exists(l)
      <4>1. lease[l] \in Row /\ lease'[l] = [lease[l] EXCEPT !.status = StatusByDate(lease[l])]
        BY <1>10, <3>1 DEF UpdateLeaseStatus
      <4>2. lease'[l] \in Row
        BY <4>1, StatusType DEF Row
      <4> QED
        BY <3>1, <4>1, <4>2, LeaseBookAssumption DEF Row
    <3>2. CASE ~ Exists(l)
      BY <1>10, <3>2 DEF UpdateLeaseStatus
    <3> QED
      BY <3>1, <3>2
  <2>3. RowsBacked'
    BY <2>1, <2>2 DEF PaidInv, RowsBacked, OfUnit, Backed
  <2>4. CarriedKnown'
    BY <2>1, <2>2, CarriesType DEF PaidInv, CarriedKnown, Carries
  <2>5. CarriedBacked'
    <3> SUFFICES ASSUME NEW q \in Req, Carries(q), OfUnit(work[q].id)'
                 PROVE  Backed(work[q].row, work[q].id)'
      BY <2>1 DEF CarriedBacked, Carries
    <3>1. OfUnit(work[q].id)
      BY <2>1, <2>2, CarriesType DEF OfUnit
    <3> QED
      BY <2>1, <3>1 DEF PaidInv, CarriedBacked, Backed
  <2>6. NewUnpaid' /\ PaidByToday'
    BY <2>1 DEF PaidInv, NewUnpaid, PaidByToday
  <2> QED
    BY <2>3, <2>4, <2>5, <2>6 DEF PaidInv
<1>11. ASSUME NEW i \in Job, UpdateUnitStatus(i) \/ SelectUnpaid(i) \/ InsertUnpaid(i) \/ JobDies(i)
       PROVE  PaidInv'
  <2> UNCHANGED <<lease, paidOn, today, work>>
    BY <1>11 DEF UpdateUnitStatus, SelectUnpaid, InsertUnpaid, JobDies
  <2> QED
    BY PaidQuietStep
<1>12. ASSUME NEW r \in Req,
              \/ RequestDies(r)
              \/ \E u \in Unit : \E s \in {"Vacant", "Occupied"} : SetUnitStatus(r, u, s)
       PROVE  PaidInv'
  <2> UNCHANGED <<lease, paidOn, today>> /\ \A q \in Req : work'[q] = work[q] \/ work'[q] = Done
    BY <1>12 DEF RequestDies, SetUnitStatus
  <2> QED
    BY PaidQuietStep
<1>13. ASSUME NEW r \in Req, NEW l \in Lease,
              UpdateLease(r, l) \/ TerminateLease(r, l) \/ RenewLease(r, l)
       PROVE  PaidInv'
  <2>1. ASSUME NEW s \in LeaseStatus
        PROVE  [status |-> s, start |-> Keep, end |-> today] \in Patch
    BY DEF Patch
  <2>2. \E p \in Patch : Preload(r, l, p)
    BY <1>13, <2>1, LeaseBookAssumption DEF UpdateLease, TerminateLease, RenewLease, LeaseStatus
  <2> QED
    BY <1>4, <2>2
<1>14. CASE UNCHANGED vars
  BY <1>14, PaidQuietStep DEF vars
<1> QED
  BY <1>1, <1>2, <1>3, <1>5, <1>6, <1>7, <1>8, <1>9, <1>10, <1>11, <1>12, <1>13, <1>14
     DEF Next, RequestArrives, RequestGoesOn, JobGoesOn

\* No lease of a unit claims a payment that is not in the transaction table, for any
\* number of concurrent payments, stale updates, removals and crashes.
THEOREM LastPaidBackedAlways == Spec => []LastPaidBacked
<1>1. Init => PaidInv
  BY LeaseBookAssumption DEF Init, PaidInv, RowsBacked, CarriedKnown, CarriedBacked, NewUnpaid,
     PaidByToday, OfUnit, Carries, Idle
<1>2. PaidInv => LastPaidBacked
  BY DEF PaidInv, RowsBacked, OfUnit, Backed, LastPaidBacked
<1> QED
  BY <1>1, <1>2, PaidStep, Typing, PTL DEF Spec


-----------------------------------------------------------------------------
(* One request at a time.                                                   *)

\* The request under way, if there is one, holds a lease that is there, or one to be
\* inserted for a unit; and no lease is without a unit.
Alone == \A q, r \in InFlight : q = r

HoldsLease ==
  \A r \in Req : /\ Carries(r) => Exists(work[r].id)
                 /\ work[r].step = "insert" => work[r].row.unit # NoUnit

Housed == \A l \in Lease : Exists(l) => lease[l].unit # NoUnit

Serial == Alone /\ HoldsLease /\ Housed

LEMMA FlyingSteps ==
  ASSUME TypeOK, NEW r \in Req
  PROVE  r \in InFlight <=> Carries(r) \/ work[r].step = "insert"
BY DEF TypeOK, InFlight, Carries, Work, Idle, Done, Creating, Updating, Paying

\* Of at most one request, none is under way when another arrives.
LEMMA NobodyElse ==
  ASSUME MaxInFlight = 1, Alone, NEW r \in Req, Arrives(r)
  PROVE  InFlight = {}
<1> SUFFICES ASSUME NEW q \in InFlight PROVE FALSE
  OBVIOUS
<1>1. InFlight = {q}
  BY DEF Alone
<1>2. Cardinality(InFlight) = 1
  BY <1>1, FS_Singleton
<1> QED
  BY <1>2 DEF Arrives

\* One request begins, goes on or ends.
LEMMA AloneStep ==
  ASSUME MaxInFlight = 1, Alone, NEW r \in Req, Arrives(r) \/ r \in InFlight,
         \A q \in Req \ {r} : work'[q] = work[q]
  PROVE  Alone'
<1>1. \A q \in InFlight : q = r
  BY NobodyElse DEF Alone
<1>2. \A q \in InFlight' : q = r
  BY <1>1 DEF InFlight
<1> QED
  BY <1>2 DEF Alone

\* Whatever the request under way does, it is enough to look at what it holds then.
LEMMA SerialStep ==
  ASSUME TypeOK, MaxInFlight = 1, Serial, Housed',
         NEW r \in Req, Arrives(r) \/ r \in InFlight,
         \A q \in Req \ {r} : work'[q] = work[q],
         \/ work'[r] = Done
         \/ /\ work'[r].step \in {"update", "pay", "stamp"}
            /\ lease'[work'[r].id] \notin {Unused, Deleted}
         \/ work'[r].step = "insert" /\ work'[r].row.unit # NoUnit
  PROVE  Serial'
<1>1. Alone'
  BY AloneStep DEF Serial
<1>2. \A q \in InFlight : q = r
  BY NobodyElse DEF Serial, Alone
<1>3. \A q \in Req \ {r} : ~Carries(q)' /\ work'[q].step # "insert"
  BY <1>2, FlyingSteps DEF Carries
<1>4. HoldsLease'
  BY <1>3 DEF HoldsLease, Carries, Done
<1> QED
  BY <1>1, <1>4 DEF Serial

LEMMA ArrivalSerial ==
  ASSUME TypeOK, MaxInFlight = 1, Serial, NEW r \in Req, RequestArrives(r)
  PROVE  Serial'
<1>0. Housed
  BY DEF Serial
<1>1. ASSUME NEW u \in Unit, NEW t \in Terms, CheckOverlap(r, u, t) PROVE Serial'
  <2>1. Arrives(r) /\ Housed'
    BY <1>0, <1>1 DEF CheckOverlap, Housed
  <2>2. \A q \in Req \ {r} : work'[q] = work[q]
    BY <1>1 DEF CheckOverlap, TypeOK
  <2>3. work'[r] = Done \/ (work'[r].step = "insert" /\ work'[r].row.unit = u)
    BY <1>1 DEF CheckOverlap, TypeOK
  <2> QED
    BY <2>1, <2>2, <2>3, SerialStep, LeaseBookAssumption
<1>2. ASSUME NEW u \in Unit, RemoveUnit(r, u) PROVE Serial'
  <2>1. Arrives(r) /\ work'[r] = Done /\ \A q \in Req \ {r} : work'[q] = work[q]
    BY <1>2 DEF RemoveUnit, TypeOK
  <2>2. \A l \in Lease : lease'[l] \in {lease[l], Deleted}
    BY <1>2 DEF RemoveUnit
  <2>3. Housed'
    BY <1>0, <2>2 DEF Housed
  <2> QED
    BY <2>1, <2>3, SerialStep
<1>3. ASSUME NEW u \in Unit, NEW s \in {"Vacant", "Occupied"}, SetUnitStatus(r, u, s) PROVE Serial'
  <2>1. Arrives(r) /\ work'[r] = Done /\ \A q \in Req \ {r} : work'[q] = work[q]
    BY <1>3 DEF SetUnitStatus, TypeOK
  <2>2. Housed'
    BY <1>0, <1>3 DEF SetUnitStatus, Housed
  <2> QED
    BY <2>1, <2>2, SerialStep
<1>4. ASSUME NEW l \in Lease, NEW p, Preload(r, l, p) PROVE Serial'
  <2>1. /\ Arrives(r) /\ work'[r].step = "update" /\ work'[r].id = l /\ lease' = lease
        /\ \A q \in Req \ {r} : work'[q] = work[q]
    BY <1>4 DEF Preload, TypeOK
  <2>2. lease'[work'[r].id] \notin {Unused, Deleted}
    BY <1>4, <2>1 DEF Preload
  <2>3. Housed'
    BY <1>0, <2>1 DEF Housed
  <2> QED
    BY <2>1, <2>2, <2>3, SerialStep
<1>5. ASSUME NEW l \in Lease, ReadForPayment(r, l) PROVE Serial'
  <2>1. /\ Arrives(r) /\ work'[r].step = "pay" /\ work'[r].id = l /\ lease' = lease
        /\ \A q \in Req \ {r} : work'[q] = work[q]
    BY <1>5 DEF ReadForPayment, TypeOK
  <2>2. lease'[work'[r].id] \notin {Unused, Deleted}
    BY <1>5, <2>1 DEF ReadForPayment
  <2>3. Housed'
    BY <1>0, <2>1 DEF Housed
  <2> QED
    BY <2>1, <2>2, <2>3, SerialStep
<1> QED
  BY <1>1, <1>2, <1>3, <1>4, <1>5
     DEF RequestArrives, UpdateLease, TerminateLease, RenewLease

LEMMA ProgressSerial ==
  ASSUME TypeOK, MaxInFlight = 1, Serial, NEW r \in Req, RequestGoesOn(r) \/ RequestDies(r)
  PROVE  Serial'
<1>0. Housed /\ HoldsLease
  BY DEF Serial
<1>1. ASSUME NEW l \in Lease, InsertLease(r, l) PROVE Serial'
  <2>1. /\ r \in InFlight /\ work'[r] = Done
        /\ \A q \in Req \ {r} : work'[q] = work[q]
    BY <1>1, FlyingSteps DEF InsertLease, TypeOK
  <2>2. work[r].row.unit # NoUnit
    BY <1>0, <1>1 DEF InsertLease, HoldsLease
  <2>3. \A k \in Lease : lease'[k] = lease[k] \/ lease'[k] = work[r].row
    BY <1>1 DEF InsertLease, TypeOK
  <2>4. Housed'
    BY <1>0, <2>2, <2>3 DEF Housed
  <2> QED
    BY <2>1, <2>4, SerialStep
<1>2. CASE WriteRow(r)
  <2>1. /\ r \in InFlight /\ work'[r] = Done
        /\ \A q \in Req \ {r} : work'[q] = work[q]
    BY <1>2, FlyingSteps DEF WriteRow, Carries, TypeOK
  <2>2. work[r] \in Updating
    BY <1>2, CarriesType DEF WriteRow
  <2>3. Merge(work[r].row, work[r].patch) \in Row
    BY <2>2, MergeType DEF Updating
  <2>4. ASSUME NEW k \in Lease, Exists(k)' PROVE Exists(k) /\ lease'[k].unit = lease[k].unit
    <3>1. lease'[k] = lease[k] \/
          (Exists(k) /\
             lease'[k] = [Merge(work[r].row, work[r].patch) EXCEPT !.unit = lease[k].unit])
      BY <1>2, <2>2 DEF WriteRow, TypeOK
    <3> QED
      BY <2>3, <2>4, <3>1 DEF Row
  <2>5. Housed'
    BY <1>0, <2>4 DEF Housed
  <2> QED
    BY <2>1, <2>5, SerialStep
<1>3. CASE SavePayment(r)
  <2>1. r \in InFlight /\ Exists(work[r].id) /\ lease' = lease
    BY <1>0, <1>3, FlyingSteps DEF SavePayment, Carries, HoldsLease
  <2>2. \A q \in Req \ {r} : work'[q] = work[q]
    BY <1>3 DEF SavePayment, TypeOK
  <2>3. work'[r].step = "stamp" /\ work'[r].id = work[r].id
    BY <1>3, <2>1 DEF SavePayment, TypeOK
  <2>4. Housed'
    BY <1>0, <2>1 DEF Housed
  <2>5. lease'[work'[r].id] \notin {Unused, Deleted}
    BY <2>1, <2>3
  <2> QED
    BY <2>1, <2>2, <2>3, <2>4, <2>5, SerialStep
<1>4. CASE StampLease(r)
  <2>1. /\ r \in InFlight /\ work'[r] = Done /\ Exists(work[r].id)
        /\ \A q \in Req \ {r} : work'[q] = work[q]
    BY <1>0, <1>4, FlyingSteps DEF StampLease, Carries, HoldsLease, TypeOK
  <2>2. work[r] \in Paying
    BY <1>4, CarriesType DEF StampLease
  <2>3. ASSUME NEW k \in Lease, Exists(k)' PROVE Exists(k) /\ lease'[k].unit = lease[k].unit
    <3>1. lease'[k] = lease[k] \/
          (Exists(k) /\ lease'[k] = [work[r].row EXCEPT !.unit = lease[k].unit])
      BY <1>4, <2>1, <2>2 DEF StampLease, TypeOK, Paying
    <3> QED
      BY <2>2, <2>3, <3>1 DEF Paying, Row
  <2>4. Housed'
    BY <1>0, <2>3 DEF Housed
  <2> QED
    BY <2>1, <2>4, SerialStep
<1>5. CASE RequestDies(r)
  <2>1. /\ r \in InFlight /\ work'[r] = Done /\ lease' = lease
        /\ \A q \in Req \ {r} : work'[q] = work[q]
    BY <1>5 DEF RequestDies, TypeOK
  <2>2. Housed'
    BY <1>0, <2>1 DEF Housed
  <2> QED
    BY <2>1, <2>2, SerialStep
<1> QED
  BY <1>1, <1>2, <1>3, <1>4, <1>5 DEF RequestGoesOn

\* The midnight job keeps the unit of every lease.
LEMMA JobSerial ==
  ASSUME TypeOK, Serial, work' = work, \A l \in Lease : Exists(l) <=> Exists(l)',
         \A l \in Lease : Exists(l) => lease'[l].unit = lease[l].unit
  PROVE  Serial'
<1>1. Alone'
  BY DEF Serial, Alone, InFlight
<1>2. Housed'
  BY DEF Serial, Housed
<1>3. HoldsLease'
  <2>1. \A r \in Req : Carries(r) => work[r].id \in Lease
    BY CarriesType
  <2> QED
    BY <2>1 DEF Serial, HoldsLease, Carries
<1> QED
  BY <1>1, <1>2, <1>3 DEF Serial

LEMMA SerialNext == TypeOK /\ MaxInFlight = 1 /\ Serial /\ [Next]_vars => Serial'
<1> SUFFICES ASSUME TypeOK, MaxInFlight = 1, Serial, [Next]_vars PROVE Serial'
  OBVIOUS
<1>1. ASSUME NEW i \in Job, UpdateLeaseStatus(i) PROVE Serial'
  <2>1. \A l \in Lease : lease'[l] = IF Exists(l)
                                     THEN [lease[l] EXCEPT !.status = StatusByDate(lease[l])]
                                     ELSE lease[l]
    BY <1>1 DEF UpdateLeaseStatus
  <2>2. \A l \in Lease : Exists(l) => lease[l] \in Row
    BY DEF TypeOK
  <2>3. \A l \in Lease : Exists(l) => /\ [lease[l] EXCEPT !.status = StatusByDate(lease[l])] \in Row
                                      /\ [lease[l] EXCEPT !.status = StatusByDate(lease[l])].unit
                                           = lease[l].unit
    BY <2>2, StatusType DEF Row
  <2>4. /\ \A l \in Lease : Exists(l) <=> Exists(l)'
        /\ \A l \in Lease : Exists(l) => lease'[l].unit = lease[l].unit
    BY <2>1, <2>3, LeaseBookAssumption
  <2> QED
    BY <1>1, <2>4, JobSerial DEF UpdateLeaseStatus
<1>2. ASSUME NEW i \in Job, JobGoesOn(i) \/ JobDies(i), ~UpdateLeaseStatus(i) PROVE Serial'
  <2>1. UNCHANGED <<lease, work>>
    BY <1>2 DEF JobGoesOn, JobDies, UpdateUnitStatus, SelectUnpaid, InsertUnpaid
  <2> QED
    BY <2>1, JobSerial
<1>3. CASE Midnight \/ UNCHANGED vars
  <2>1. UNCHANGED <<lease, work>>
    BY <1>3 DEF Midnight, vars
  <2> QED
    BY <2>1, JobSerial
<1> QED
  BY <1>1, <1>2, <1>3, ArrivalSerial, ProgressSerial DEF Next

\* Served one request at a time, no lease is ever without a unit: the midnight job, which
\* reads the property of the unit of every lease it bills, never throws.
THEOREM NoLeaseWithoutUnitAlone ==
  ASSUME MaxInFlight = 1
  PROVE  Spec => []NoLeaseWithoutUnit
<1>1. Init => Serial
  BY DEF Init, Serial, Alone, HoldsLease, Housed, InFlight, Carries, Idle
<1>2. TypeOK /\ Serial /\ [Next]_vars => Serial'
  BY SerialNext
<1>3. Serial /\ UnitStillThere => NoLeaseWithoutUnit
  BY DEF Serial, Housed, UnitStillThere, NoLeaseWithoutUnit
<1> QED
  BY <1>1, <1>2, <1>3, Typing, UnitStillThereAlways, PTL DEF Spec

\* A request under way that holds a lease ended by hand knows that it was.
KnowsFinal ==
  \A r \in Req :
    Carries(r) /\ Exists(work[r].id) /\ lease[work[r].id].status = "Terminated" =>
      work[r].row.status = "Terminated"

\* The dates neither end a lease by hand nor bring one back.
LEMMA StatusFinal ==
  ASSUME NEW row \in Row
  PROVE  StatusByDate(row) = "Terminated" <=> row.status = "Terminated"
BY DEF StatusByDate, Row, LeaseStatus

LEMMA StatusUpdate ==
  ASSUME TypeOK, NEW i \in Job, UpdateLeaseStatus(i), NEW l \in Lease
  PROVE  /\ Exists(l) <=> Exists(l)'
         /\ Exists(l) => (lease'[l].status = "Terminated" <=> lease[l].status = "Terminated")
<1>1. CASE Exists(l)
  <2>1. lease[l] \in Row
    BY <1>1 DEF TypeOK
  <2>2. lease'[l] = [lease[l] EXCEPT !.status = StatusByDate(lease[l])]
    BY <1>1 DEF UpdateLeaseStatus
  <2>3. lease'[l] \in Row /\ lease'[l].status = StatusByDate(lease[l])
    BY <2>1, <2>2, StatusType DEF Row
  <2> QED
    BY <1>1, <2>1, <2>3, StatusFinal, LeaseBookAssumption
<1>2. CASE ~Exists(l)
  BY <1>2 DEF UpdateLeaseStatus
<1> QED
  BY <1>1, <1>2

\* A request that acts is the only one under way.
LEMMA OnlyActor ==
  ASSUME TypeOK, MaxInFlight = 1, Serial, NEW r \in Req, Arrives(r) \/ r \in InFlight,
         \A q \in Req \ {r} : work'[q] = work[q]
  PROVE  \A q \in Req \ {r} : ~Carries(q)'
<1>1. \A q \in InFlight : q = r
  BY NobodyElse DEF Serial, Alone
<1> QED
  BY <1>1, FlyingSteps DEF Carries

LEMMA ArrivalKnows ==
  ASSUME TypeOK, MaxInFlight = 1, Serial, KnowsFinal, NEW r \in Req, RequestArrives(r)
  PROVE  KnowsFinal'
<1>1. Arrives(r) /\ \A q \in Req \ {r} : work'[q] = work[q]
  BY DEF RequestArrives, CheckOverlap, RemoveUnit, SetUnitStatus, UpdateLease, TerminateLease,
         RenewLease, Preload, ReadForPayment, TypeOK
<1>2. \A q \in Req \ {r} : ~Carries(q)'
  BY <1>1, OnlyActor
<1>3. \/ ~Carries(r)'
      \/ work'[r].row = lease[work'[r].id] /\ lease' = lease
  <2>1. ASSUME NEW l \in Lease, NEW p, Preload(r, l, p)
        PROVE  work'[r].row = lease[work'[r].id] /\ lease' = lease
    BY <2>1 DEF Preload, TypeOK
  <2>2. ASSUME NEW l \in Lease, ReadForPayment(r, l)
        PROVE  work'[r].row = lease[work'[r].id] /\ lease' = lease
    BY <2>2 DEF ReadForPayment, TypeOK
  <2>3. ASSUME NEW u \in Unit, \/ RemoveUnit(r, u)
                               \/ \E t \in Terms : CheckOverlap(r, u, t)
                               \/ \E s \in {"Vacant", "Occupied"} : SetUnitStatus(r, u, s)
        PROVE  ~Carries(r)'
    <3>1. work'[r].step \in {"done", "insert"}
      BY <2>3 DEF RemoveUnit, CheckOverlap, SetUnitStatus, Done, TypeOK
    <3> QED
      BY <3>1 DEF Carries
  <2> QED
    BY <2>1, <2>2, <2>3 DEF RequestArrives, UpdateLease, TerminateLease, RenewLease
<1> QED
  BY <1>2, <1>3 DEF KnowsFinal

LEMMA ProgressKnows ==
  ASSUME TypeOK, MaxInFlight = 1, Serial, KnowsFinal, NEW r \in Req,
         RequestGoesOn(r) \/ RequestDies(r)
  PROVE  KnowsFinal'
<1>1. r \in InFlight /\ \A q \in Req \ {r} : work'[q] = work[q]
  BY FlyingSteps
     DEF RequestGoesOn, InsertLease, WriteRow, SavePayment, StampLease, RequestDies, Carries, TypeOK
<1>2. \A q \in Req \ {r} : ~Carries(q)'
  BY <1>1, OnlyActor
<1>3. CASE ~SavePayment(r)
  <2>1. work'[r] = Done
    BY <1>3 DEF RequestGoesOn, InsertLease, WriteRow, StampLease, RequestDies, TypeOK
  <2> QED
    BY <1>2, <2>1 DEF KnowsFinal, Carries, Done
<1>4. CASE SavePayment(r)
  <2>1. work[r] \in Paying /\ Carries(r)
    BY <1>4, CarriesType DEF SavePayment, Carries
  <2>2. lease' = lease
    BY <1>4 DEF SavePayment
  <2>3. [work[r].row EXCEPT !.lastPaid = today].status = work[r].row.status
    BY <2>1 DEF Paying, Row
  <2> DEFINE paid == [work[r].row EXCEPT !.lastPaid = today]
  <2>4. work'[r] = Done \/ (work'[r].id = work[r].id /\ work'[r].row = paid)
    <3>1. work'[r] = Done \/ work'[r] = [step |-> "stamp", id |-> work[r].id, row |-> paid]
      BY <1>4 DEF SavePayment, TypeOK
    <3> HIDE DEF paid
    <3> QED
      BY <3>1
  <2> HIDE DEF paid
  <2>5. CASE work'[r] = Done
    BY <1>2, <2>5 DEF KnowsFinal, Carries, Done
  <2>6. CASE work'[r].id = work[r].id /\ work'[r].row = paid
    <3>1. work'[r].row.status = work[r].row.status
      BY <2>3, <2>6 DEF paid
    <3>2. Exists(work[r].id) /\ lease[work[r].id].status = "Terminated" =>
            work[r].row.status = "Terminated"
      BY <2>1 DEF KnowsFinal
    <3>3. lease'[work'[r].id] \notin {Unused, Deleted}
            /\ lease'[work'[r].id].status = "Terminated" => work'[r].row.status = "Terminated"
      BY <2>2, <2>6, <3>1, <3>2
    <3> QED
      BY <1>2, <3>3 DEF KnowsFinal
  <2> QED
    BY <2>4, <2>5, <2>6
<1> QED
  BY <1>3, <1>4

LEMMA KnowsNext == TypeOK /\ MaxInFlight = 1 /\ Serial /\ KnowsFinal /\ [Next]_vars => KnowsFinal'
<1> SUFFICES ASSUME TypeOK, MaxInFlight = 1, Serial, KnowsFinal, [Next]_vars PROVE KnowsFinal'
  OBVIOUS
<1>1. ASSUME NEW i \in Job, UpdateLeaseStatus(i) PROVE KnowsFinal'
  <2>1. work' = work
    BY <1>1 DEF UpdateLeaseStatus
  <2>2. \A r \in Req : Carries(r) => work[r].id \in Lease
    BY CarriesType
  <2>3. \A l \in Lease : Exists(l)' /\ lease'[l].status = "Terminated" =>
                           Exists(l) /\ lease[l].status = "Terminated"
    BY <1>1, StatusUpdate
  <2> QED
    BY <2>1, <2>2, <2>3 DEF KnowsFinal, Carries
<1>2. ASSUME UNCHANGED <<lease, work>> PROVE KnowsFinal'
  BY <1>2 DEF KnowsFinal, Carries
<1>3. ASSUME NEW i \in Job, JobGoesOn(i) \/ JobDies(i), ~UpdateLeaseStatus(i) PROVE KnowsFinal'
  BY <1>2, <1>3 DEF JobGoesOn, JobDies, UpdateUnitStatus, SelectUnpaid, InsertUnpaid
<1>4. CASE Midnight \/ UNCHANGED vars
  BY <1>2, <1>4 DEF Midnight, vars
<1> QED
  BY <1>1, <1>3, <1>4, ArrivalKnows, ProgressKnows DEF Next

\* Served one request at a time, a lease ended by hand is brought back only by a request
\* that names another status.
THEOREM TerminatedIsFinalAlone ==
  ASSUME MaxInFlight = 1
  PROVE  Spec => TerminatedIsFinal
<1>1. Init => Serial /\ KnowsFinal
  BY DEF Init, Serial, Alone, HoldsLease, Housed, InFlight, Carries, Idle, KnowsFinal
<1>2. TypeOK /\ Serial /\ KnowsFinal /\ [Next]_vars => Serial' /\ KnowsFinal'
  BY SerialNext, KnowsNext
<1>3. TypeOK /\ Serial /\ KnowsFinal /\ [Next]_vars => [KeepsTerminated]_vars
  <2> SUFFICES ASSUME TypeOK, Serial, KnowsFinal, Next, NEW l \in Lease,
                      Exists(l), Exists(l)',
                      lease[l].status = "Terminated", lease'[l].status # "Terminated"
               PROVE  \E r \in Req : /\ work[r].step = "update" /\ work[r].id = l
                                     /\ work[r].patch.status # Keep
                                     /\ work'[r] = Done
    BY DEF KeepsTerminated
  <2>1. ASSUME NEW r \in Req, WriteRow(r)
        PROVE  /\ work[r].step = "update" /\ work[r].id = l
               /\ work[r].patch.status # Keep /\ work'[r] = Done
    <3>1. work[r] \in Updating /\ Carries(r) /\ work[r].step = "update" /\ work'[r] = Done
      BY <2>1, CarriesType DEF WriteRow, Carries, TypeOK
    <3>2. Merge(work[r].row, work[r].patch) \in Row
      BY <3>1, MergeType DEF Updating
    <3>3. /\ work[r].id = l
          /\ lease'[l] = [Merge(work[r].row, work[r].patch) EXCEPT !.unit = lease[l].unit]
      BY <2>1, <3>1 DEF WriteRow, TypeOK, Updating
    <3>4. lease'[l].status = Merge(work[r].row, work[r].patch).status
      BY <3>2, <3>3 DEF Row
    <3>5. work[r].patch.status = Keep =>
            Merge(work[r].row, work[r].patch).status = work[r].row.status
      <4>1. work[r].row \in Row
        BY <3>1 DEF Updating
      <4> QED
        BY <4>1 DEF Merge, Row
    <3>6. work[r].row.status = "Terminated"
      BY <3>1, <3>3 DEF KnowsFinal
    <3> QED
      BY <3>1, <3>3, <3>4, <3>5, <3>6
  <2>2. ASSUME NEW r \in Req, StampLease(r) PROVE FALSE
    <3>1. work[r] \in Paying /\ Carries(r)
      BY <2>2, CarriesType DEF StampLease, Carries
    <3>2. work[r].id = l /\ lease'[l] = [work[r].row EXCEPT !.unit = lease[l].unit]
      BY <2>2, <3>1 DEF StampLease, TypeOK, Paying
    <3>3. lease'[l].status = work[r].row.status
      BY <3>1, <3>2 DEF Paying, Row
    <3> QED
      BY <3>1, <3>2, <3>3 DEF KnowsFinal
  <2>3. ASSUME NEW i \in Job, UpdateLeaseStatus(i) PROVE FALSE
    BY <2>3, StatusUpdate
  <2>4. ASSUME NEW r \in Req, NEW k \in Lease, InsertLease(r, k) PROVE FALSE
    BY <2>4 DEF InsertLease, TypeOK
  <2>5. ASSUME NEW r \in Req, NEW u \in Unit, RemoveUnit(r, u) PROVE FALSE
    BY <2>5 DEF RemoveUnit
  <2>6. lease' # lease
    OBVIOUS
  <2> QED
    BY <2>1, <2>2, <2>3, <2>4, <2>5, <2>6
       DEF Next, RequestArrives, RequestGoesOn, JobGoesOn, RequestDies, JobDies, Midnight,
           CheckOverlap, SetUnitStatus, UpdateLease, TerminateLease, RenewLease, Preload,
           ReadForPayment, SavePayment, UpdateUnitStatus, SelectUnpaid, InsertUnpaid
<1> QED
  BY <1>1, <1>2, <1>3, Typing, PTL DEF Spec, TerminatedIsFinal

-----------------------------------------------------------------------------
(* What crashes leave behind, one request at a time.                        *)

Stamping(l) == \E r \in Req : work[r].step = "stamp" /\ work[r].id = l

\* Leases that do not show their last payment, with no request about to write it on them.
Behind == {l \in Lease : Exists(l) /\ lease[l].lastPaid # paidOn[l] /\ ~Stamping(l)}

\* No more of them than crashes.
BehindBounded == IsFiniteSet(Behind) /\ Cardinality(Behind) <= crashes

FreshUnpaid == \A l \in Lease : lease[l] = Unused => paidOn[l] = Never

\* The request under way knows the last payment of the lease it holds.
CarriesLast ==
  \A r \in Req :
    Carries(r) => work[r].row.lastPaid = IF work[r].step = "stamp" THEN paidOn[work[r].id]
                                         ELSE lease[work[r].id].lastPaid

StampInv == BehindBounded /\ FreshUnpaid /\ CarriesLast

\* A step that leaves no lease behind.
LEMMA BehindShrinks ==
  ASSUME TypeOK, TypeOK', BehindBounded, Behind' \subseteq Behind, crashes' = crashes
  PROVE  BehindBounded'
<1>1. IsFiniteSet(Behind') /\ Cardinality(Behind') <= Cardinality(Behind)
  BY FS_Subset DEF BehindBounded
<1>2. Cardinality(Behind) \in Nat /\ Cardinality(Behind') \in Nat /\ crashes \in Nat
  BY <1>1, FS_CardinalityType, LeaseBookAssumption DEF BehindBounded, TypeOK
<1> QED
  BY <1>1, <1>2 DEF BehindBounded

\* A crash that leaves one.
LEMMA BehindGrows ==
  ASSUME TypeOK, BehindBounded, NEW l, Behind' \subseteq Behind \cup {l}, crashes' = crashes + 1
  PROVE  BehindBounded'
<1>1. /\ IsFiniteSet(Behind \cup {l})
      /\ Cardinality(Behind \cup {l}) <= Cardinality(Behind) + 1
      /\ Cardinality(Behind) \in Nat
  <2>1. /\ IsFiniteSet(Behind \cup {l})
        /\ Cardinality(Behind \cup {l}) = IF l \in Behind THEN Cardinality(Behind)
                                          ELSE Cardinality(Behind) + 1
    BY FS_AddElement DEF BehindBounded
  <2>2. Cardinality(Behind) \in Nat
    BY FS_CardinalityType DEF BehindBounded
  <2> HIDE DEF Behind
  <2> QED
    BY <2>1, <2>2
<1>2. /\ IsFiniteSet(Behind') /\ Cardinality(Behind') <= Cardinality(Behind \cup {l})
      /\ Cardinality(Behind \cup {l}) \in Nat /\ Cardinality(Behind') \in Nat
  BY <1>1, FS_Subset, FS_CardinalityType
<1>3. crashes \in Nat
  BY LeaseBookAssumption DEF TypeOK
<1> QED
  BY <1>1, <1>2, <1>3 DEF BehindBounded

\* A request that arrives changes no lease that stays, and holds the row as it is.
LEMMA ArrivalStamp ==
  ASSUME TypeOK, TypeOK', MaxInFlight = 1, Serial, StampInv, NEW r \in Req, RequestArrives(r)
  PROVE  StampInv'
<1>1. /\ Arrives(r) /\ crashes' = crashes
      /\ \A q \in Req \ {r} : work'[q] = work[q]
  BY DEF RequestArrives, CheckOverlap, RemoveUnit, SetUnitStatus, UpdateLease, TerminateLease,
         RenewLease, Preload, ReadForPayment, TypeOK
<1>2. \A q \in Req \ {r} : ~Carries(q)'
  BY <1>1, OnlyActor
<1>3. \A l \in Lease : ~Stamping(l)
  BY <1>1, NobodyElse, FlyingSteps DEF Serial, Stamping, Carries
<1>4. /\ \/ ~Carries(r)'
         \/ /\ work'[r].step # "stamp" /\ work'[r].id \in Lease
            /\ work'[r].row = lease[work'[r].id]
            /\ lease' = lease
      /\ \A l \in Lease :
           /\ Exists(l)' => Exists(l) /\ lease'[l] = lease[l] /\ paidOn'[l] = paidOn[l]
           /\ lease'[l] = Unused => lease[l] = Unused
           /\ paidOn'[l] \in {paidOn[l], Never}
  <2>1. ASSUME NEW l \in Lease, \/ \E p : Preload(r, l, p)
                                \/ ReadForPayment(r, l)
        PROVE  /\ work'[r].step \in {"update", "pay"} /\ work'[r].id \in Lease
               /\ work'[r].row = lease[work'[r].id]
               /\ lease' = lease /\ paidOn' = paidOn
    BY <2>1 DEF Preload, ReadForPayment, TypeOK
  <2>2. ASSUME NEW u \in Unit, \/ \E t \in Terms : CheckOverlap(r, u, t)
                               \/ \E s \in {"Vacant", "Occupied"} : SetUnitStatus(r, u, s)
        PROVE  ~Carries(r)' /\ lease' = lease /\ paidOn' = paidOn
    <3>1. work'[r].step \in {"done", "insert"} /\ lease' = lease /\ paidOn' = paidOn
      BY <2>2 DEF CheckOverlap, SetUnitStatus, Done, TypeOK
    <3> QED
      BY <3>1 DEF Carries
  <2>3. ASSUME NEW u \in Unit, RemoveUnit(r, u)
        PROVE  /\ ~Carries(r)'
               /\ \A l \in Lease : \/ lease'[l] = lease[l] /\ paidOn'[l] = paidOn[l]
                                   \/ lease'[l] = Deleted /\ paidOn'[l] = Never
    <3>1. work'[r] = Done
      BY <2>3 DEF RemoveUnit, TypeOK
    <3> QED
      BY <2>3, <3>1 DEF RemoveUnit, Carries, Done
  <2> QED
    BY <2>1, <2>2, <2>3, LeaseBookAssumption
       DEF RequestArrives, UpdateLease, TerminateLease, RenewLease
<1>5. Behind' \subseteq Behind
  BY <1>3, <1>4 DEF Behind
<1>6. FreshUnpaid'
  BY <1>4 DEF StampInv, FreshUnpaid
<1>7. CarriesLast'
  BY <1>2, <1>4 DEF CarriesLast
<1> QED
  BY <1>1, <1>5, <1>6, <1>7, BehindShrinks DEF StampInv

\* A request that goes on alone leaves its lease behind only by a crash.
LEMMA ProgressStamp ==
  ASSUME TypeOK, TypeOK', MaxInFlight = 1, Serial, PaidInv, StampInv, NEW r \in Req,
         RequestGoesOn(r) \/ RequestDies(r)
  PROVE  StampInv'
<1>1. r \in InFlight /\ \A q \in Req \ {r} : work'[q] = work[q]
  BY FlyingSteps
     DEF RequestGoesOn, InsertLease, WriteRow, SavePayment, StampLease, RequestDies, Carries, TypeOK
<1>2. \A q \in Req \ {r} : ~Carries(q) /\ ~Carries(q)'
  BY <1>1, OnlyActor, FlyingSteps DEF Serial, Alone
<1>3. \A l \in Lease :
        /\ Stamping(l) <=> work[r].step = "stamp" /\ work[r].id = l
        /\ Stamping(l)' <=> work'[r].step = "stamp" /\ work'[r].id = l
  BY <1>2 DEF Stamping, Carries
<1>4. ASSUME NEW l \in Lease, InsertLease(r, l) PROVE StampInv'
  <2>1. /\ lease[l] = Unused /\ paidOn' = paidOn /\ crashes' = crashes
        /\ work[r].step = "insert" /\ work'[r] = Done
        /\ work[r].row.lastPaid = Never
        /\ \A k \in Lease : lease'[k] = lease[k] \/ (k = l /\ lease'[k] = work[r].row)
    BY <1>4 DEF InsertLease, TypeOK, PaidInv, NewUnpaid
  <2>2. paidOn[l] = Never
    BY <2>1 DEF StampInv, FreshUnpaid
  <2>3. Behind' \subseteq Behind
    BY <1>3, <2>1, <2>2 DEF Behind, Done
  <2>4. work[r].row \in Row
    BY <2>1, CarriesType DEF Creating
  <2>5. FreshUnpaid'
    BY <2>1, <2>4, LeaseBookAssumption DEF StampInv, FreshUnpaid
  <2>6. CarriesLast'
    BY <1>2, <2>1 DEF CarriesLast, Carries, Done
  <2> QED
    BY <2>1, <2>3, <2>5, <2>6, BehindShrinks DEF StampInv
<1>5. ASSUME WriteRow(r) \/ StampLease(r) PROVE StampInv'
  <2>0. PICK l \in Lease : l = work[r].id
    BY <1>5, CarriesType DEF WriteRow, StampLease, Carries
  <2>1. /\ Carries(r) /\ Exists(l) /\ work[r].row \in Row
        /\ work'[r] = Done /\ paidOn' = paidOn /\ crashes' = crashes
        /\ \A k \in Lease \ {l} : lease'[k] = lease[k]
    BY <1>5, <2>0, CarriesType DEF WriteRow, StampLease, Carries, TypeOK, Serial, HoldsLease
  <2>2. Exists(l)' /\ lease'[l].lastPaid = work[r].row.lastPaid
    <3>1. CASE WriteRow(r)
      <4>1. Merge(work[r].row, work[r].patch) \in Row /\ lease[l] \in Row
        BY <2>1, <3>1, CarriesType, MergeType DEF WriteRow, Updating, TypeOK
      <4>2. Merge(work[r].row, work[r].patch).lastPaid = work[r].row.lastPaid
        BY <2>1 DEF Merge, Row
      <4>3. lease'[l] = [Merge(work[r].row, work[r].patch) EXCEPT !.unit = lease[l].unit]
        BY <2>0, <2>1, <3>1 DEF WriteRow, TypeOK
      <4>4. lease'[l] \in Row /\ lease'[l].lastPaid = Merge(work[r].row, work[r].patch).lastPaid
        BY <4>1, <4>3 DEF Row
      <4> QED
        BY <4>2, <4>4, LeaseBookAssumption
    <3>2. CASE StampLease(r)
      <4>1. lease'[l] = [work[r].row EXCEPT !.unit = lease[l].unit] /\ lease[l] \in Row
        BY <2>0, <2>1, <3>2 DEF StampLease, TypeOK
      <4>2. lease'[l] \in Row /\ lease'[l].lastPaid = work[r].row.lastPaid
        BY <2>1, <4>1 DEF Row
      <4> QED
        BY <4>2, LeaseBookAssumption
    <3> QED
      BY <1>5, <3>1, <3>2
  <2>3. work[r].row.lastPaid = IF work[r].step = "stamp" THEN paidOn[l] ELSE lease[l].lastPaid
    BY <2>0, <2>1 DEF StampInv, CarriesLast
  <2>4. Behind' \subseteq Behind
    <3> SUFFICES ASSUME NEW k \in Behind' PROVE k \in Behind
      OBVIOUS
    <3>1. k \in Lease /\ Exists(k)' /\ lease'[k].lastPaid # paidOn[k]
      BY <2>1 DEF Behind
    <3>2. CASE k = l
      BY <1>3, <2>0, <2>1, <2>2, <2>3, <3>1, <3>2 DEF Behind
    <3>3. CASE k # l
      BY <1>3, <2>0, <2>1, <3>1, <3>3 DEF Behind
    <3> QED
      BY <3>2, <3>3
  <2>5. FreshUnpaid'
    BY <2>1, <2>2 DEF StampInv, FreshUnpaid
  <2>6. CarriesLast'
    BY <1>2, <2>1 DEF CarriesLast, Carries, Done
  <2> QED
    BY <2>1, <2>4, <2>5, <2>6, BehindShrinks DEF StampInv
<1>6. ASSUME SavePayment(r) PROVE StampInv'
  <2> DEFINE l == work[r].id
             paid == [work[r].row EXCEPT !.lastPaid = today]
  <2>1. /\ work[r].step = "pay" /\ Carries(r) /\ l \in Lease /\ Exists(l)
        /\ work[r].row \in Row /\ lease' = lease /\ crashes' = crashes
        /\ paidOn' = [paidOn EXCEPT ![l] = today]
        /\ work'[r] = [step |-> "stamp", id |-> l, row |-> paid]
    BY <1>6, CarriesType DEF SavePayment, Carries, TypeOK, Serial, HoldsLease
  <2>2. paid.lastPaid = today
    BY <2>1 DEF Row
  <2> HIDE DEF paid, l
  <2>3. work'[r].step = "stamp" /\ work'[r].id = l /\ work'[r].row.lastPaid = today
    BY <2>1, <2>2
  <2>4. paidOn'[l] = today /\ \A k \in Lease \ {l} : paidOn'[k] = paidOn[k]
    BY <2>1 DEF TypeOK
  <2>5. Behind' \subseteq Behind
    BY <1>3, <2>1, <2>3, <2>4 DEF Behind
  <2>6. FreshUnpaid'
    BY <2>1, <2>4 DEF StampInv, FreshUnpaid
  <2>7. CarriesLast'
    BY <1>2, <2>3, <2>4 DEF CarriesLast
  <2> QED
    BY <2>1, <2>5, <2>6, <2>7, BehindShrinks DEF StampInv
<1>7. ASSUME RequestDies(r) PROVE StampInv'
  <2>1. lease' = lease /\ paidOn' = paidOn /\ crashes' = crashes + 1 /\ work'[r] = Done
    BY <1>7 DEF RequestDies, TypeOK
  <2>2. Behind' \subseteq Behind \cup {work[r].id}
    BY <1>3, <2>1 DEF Behind
  <2>3. FreshUnpaid'
    BY <2>1 DEF StampInv, FreshUnpaid
  <2>4. CarriesLast'
    BY <1>2, <2>1 DEF CarriesLast, Carries, Done
  <2> QED
    BY <2>1, <2>2, <2>3, <2>4, BehindGrows DEF StampInv
<1> QED
  BY <1>4, <1>5, <1>6, <1>7 DEF RequestGoesOn

\* The midnight job changes no payment, and no lease falls behind by it.
LEMMA MidnightStamp ==
  ASSUME TypeOK, TypeOK', Serial, StampInv, UNCHANGED <<paidOn, work>>,
         crashes' = crashes \/ crashes' = crashes + 1,
         \/ lease' = lease
         \/ \E i \in Job : UpdateLeaseStatus(i)
  PROVE  StampInv'
<1>1. \A l \in Lease :
        /\ Exists(l)' <=> Exists(l)
        /\ Exists(l) => lease'[l].lastPaid = lease[l].lastPaid
        /\ lease'[l] = Unused <=> lease[l] = Unused
  <2>1. CASE lease' = lease
    BY <2>1
  <2>2. ASSUME NEW i \in Job, UpdateLeaseStatus(i), NEW l \in Lease
        PROVE  /\ Exists(l)' <=> Exists(l)
               /\ Exists(l) => lease'[l].lastPaid = lease[l].lastPaid
               /\ lease'[l] = Unused <=> lease[l] = Unused
    <3>1. CASE Exists(l)
      <4>1. lease[l] \in Row /\ lease'[l] = [lease[l] EXCEPT !.status = StatusByDate(lease[l])]
        BY <2>2, <3>1 DEF UpdateLeaseStatus, TypeOK
      <4>2. lease'[l] \in Row /\ lease'[l].lastPaid = lease[l].lastPaid
        BY <4>1, StatusType DEF Row
      <4> QED
        BY <3>1, <4>2, LeaseBookAssumption
    <3>2. CASE ~Exists(l)
      BY <2>2, <3>2 DEF UpdateLeaseStatus
    <3> QED
      BY <3>1, <3>2
  <2> QED
    BY <2>1, <2>2
<1>2. \A l \in Lease : Stamping(l)' <=> Stamping(l)
  BY DEF Stamping
<1>3. Behind' = Behind
  BY <1>1, <1>2 DEF Behind
<1>4. BehindBounded'
  BY <1>3, BehindShrinks, BehindGrows DEF StampInv
<1>5. FreshUnpaid'
  BY <1>1 DEF StampInv, FreshUnpaid
<1>6. CarriesLast'
  BY <1>1, CarriesType DEF StampInv, CarriesLast, Carries, Serial, HoldsLease
<1> QED
  BY <1>4, <1>5, <1>6 DEF StampInv

\* recordTransaction saves a payment and stamps its lease in two statements with no
\* transaction around them.  Served one request at a time, a lease shows the date of its
\* last payment whenever no request is about to write it, except for one lease per crash.
THEOREM StampedButForCrashes ==
  ASSUME MaxInFlight = 1
  PROVE  Spec => []BehindBounded
<1>1. Init => Serial /\ PaidInv /\ StampInv
  <2> SUFFICES ASSUME Init PROVE Serial /\ PaidInv /\ StampInv
    OBVIOUS
  <2>1. Behind = {}
    BY DEF Init, Behind
  <2>2. BehindBounded
    BY <2>1, FS_EmptySet DEF Init, BehindBounded
  <2>3. PaidInv
    BY LeaseBookAssumption DEF Init, PaidInv, RowsBacked, CarriedKnown, CarriedBacked, NewUnpaid,
       PaidByToday, OfUnit, Carries, Idle
  <2>4. Serial
    BY DEF Init, Serial, Alone, HoldsLease, Housed, InFlight, Carries, Idle
  <2> QED
    BY <2>2, <2>3, <2>4 DEF Init, StampInv, FreshUnpaid, CarriesLast, Carries, Idle
<1>2. TypeOK /\ TypeOK' /\ Serial /\ PaidInv /\ StampInv /\ [Next]_vars => StampInv'
  <2> SUFFICES ASSUME TypeOK, TypeOK', Serial, PaidInv, StampInv, [Next]_vars PROVE StampInv'
    OBVIOUS
  <2>1. ASSUME NEW i \in Job, JobGoesOn(i) \/ JobDies(i) PROVE StampInv'
    BY <2>1, MidnightStamp
       DEF JobGoesOn, UpdateLeaseStatus, UpdateUnitStatus, SelectUnpaid, InsertUnpaid, JobDies
  <2>2. CASE Midnight \/ UNCHANGED vars
    BY <2>2, MidnightStamp DEF Midnight, vars
  <2> QED
    BY <2>1, <2>2, ArrivalStamp, ProgressStamp DEF Next
<1>3. TypeOK /\ TypeOK' /\ Serial /\ PaidInv /\ [Next]_vars => Serial' /\ PaidInv'
  BY SerialNext, PaidStep
<1>4. StampInv => BehindBounded
  BY DEF StampInv
<1> QED
  BY <1>1, <1>2, <1>3, <1>4, Typing, PTL DEF Spec
=============================================================================
