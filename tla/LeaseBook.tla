------------------------------ MODULE LeaseBook ------------------------------
(***************************************************************************)
(* The lease book of the klubiq dashboard: the tables lease, unit and      *)
(* transaction, the HTTP requests that change them and the midnight job.   *)
(*                                                                         *)
(* A request is an asynchronous handler: between two of its awaits, any    *)
(* other request and any step of the midnight job may run.  An action is   *)
(* therefore the code from one await to the next, and what a handler read  *)
(* before an await is kept in work[r].  The database runs one statement at *)
(* a time (READ COMMITTED, no row is locked between two statements).       *)
(***************************************************************************)
EXTENDS Naturals, FiniteSets

CONSTANTS
  Unit,          \* units of the properties
  Lease,         \* lease ids the database can still hand out
  Req,           \* HTTP requests; each one is served once (bounds the run)
  Job,           \* running instances of the dashboard, each with its cron
  LastDay,       \* bound: the calendar stops at this day
  MonthLength,   \* day d is day of the month ((d - 1) % MonthLength) + 1
  Period,        \* days between two rent due dates
  Window,        \* a lease this close to its end is Expiring
  Terms,         \* [start, end] pairs a create request may ask for
  Patches,       \* bodies a PATCH request may carry
  MaxInFlight,   \* bound: requests served at the same time
  MaxCrashes,    \* bound: handlers or jobs cut off by a crash
  Keep,          \* a field a patch does not mention
  Never,         \* lastPaymentDate of a lease that was never paid
  NoUnit,        \* NULL in the column unitId
  Unused,        \* the lease id has not been handed out yet
  Deleted        \* the row of this id was deleted

LeaseStatus == {"Active", "Cancelled", "Expired", "Expiring", "Terminated", "Inactive"}

\* The statuses that the overlap check and the unit job regard as occupying.
LiveStatus == {"Active", "Expiring"}

Day == 1 .. LastDay

Term == [start : Day, end : Day]

Patch == [status : LeaseStatus \cup {Keep}, start : Day \cup {Keep}, end : Day \cup {Keep}]

Row == [unit : Unit \cup {NoUnit}, status : LeaseStatus, start : Day, end : Day,
        lastPaid : Day \cup {Never}]

ASSUME LeaseBookAssumption ==
  /\ LastDay \in Nat \ {0}
  /\ MonthLength \in Nat \ {0}
  /\ Period \in Nat
  /\ Window \in Nat
  /\ MaxCrashes \in Nat
  /\ Terms \subseteq Term
  /\ Patches \subseteq Patch
  /\ IsFiniteSet(Job)
  /\ NoUnit \notin Unit
  /\ Never \notin Day
  /\ Unused # Deleted
  /\ Unused \notin Row /\ Deleted \notin Row

VARIABLES
  today,    \* the date DateTime.utc() returns
  unit,     \* status column of table unit, or Removed
  lease,    \* rows of table lease
  unpaid,   \* per lease, its transaction rows with status Unpaid
  paidOn,   \* per lease, the latest transactionDate of its rent payments
  work,     \* what each request is doing and what it has read
  job,      \* where each instance's midnight job is, and the leases it selected
  crashes   \* crashes so far

vars == <<today, unit, lease, unpaid, paidOn, work, job, crashes>>

-----------------------------------------------------------------------------
(* What the handlers hold between two awaits.                              *)

Idle == [step |-> "new"]
Done == [step |-> "done"]
Creating == [step : {"insert"}, row : Row]
Updating == [step : {"update"}, id : Lease, row : Row, patch : Patch]
Paying == [step : {"pay", "stamp"}, id : Lease, row : Row]
Work == {Idle, Done} \cup Creating \cup Updating \cup Paying

JobStep == {"idle", "leases", "units", "select", "insert"}

TypeOK ==
  /\ today \in Day
  /\ unit \in [Unit -> {"Vacant", "Occupied", "Removed"}]
  /\ lease \in [Lease -> Row \cup {Unused, Deleted}]
  /\ unpaid \in [Lease -> Nat]
  /\ paidOn \in [Lease -> Day \cup {Never}]
  /\ work \in [Req -> Work]
  /\ job \in [Job -> [step : JobStep, due : SUBSET Lease]]
  /\ crashes \in 0 .. MaxCrashes

Exists(l) == lease[l] \notin {Unused, Deleted}

LiveOn(u) == {l \in Lease : Exists(l) /\ lease[l].unit = u /\ lease[l].status \in LiveStatus}

Init ==
  /\ today = 1
  /\ unit = [u \in Unit |-> "Vacant"]
  /\ lease = [l \in Lease |-> Unused]
  /\ unpaid = [l \in Lease |-> 0]
  /\ paidOn = [l \in Lease |-> Never]
  /\ work = [r \in Req |-> Idle]
  /\ job = [i \in Job |-> [step |-> "idle", due |-> {}]]
  /\ crashes = 0

InFlight == {r \in Req : work[r] \notin {Idle, Done}}

\* A request that has not been served arrives.
Arrives(r) == work[r] = Idle /\ Cardinality(InFlight) < MaxInFlight

-----------------------------------------------------------------------------
(* POST /lease, and the lease part of tenant onboarding.                   *)

DayOfMonth(d) == (d - 1) % MonthLength

\* Only the days of the month are compared, not the dates.
StatusAtCreation(start) ==
  IF DayOfMonth(start) > DayOfMonth(today) THEN "Inactive" ELSE "Active"

\* newStart BETWEEN startDate AND endDate: the end of the new lease is not looked at.
Overlapping(u, start) ==
  {l \in LiveOn(u) : lease[l].start <= start /\ start <= lease[l].end}

\* Bound: a lease is only created while Lease has an id for it.
IdLeft == Cardinality({q \in Req : work[q].step = "insert"})
            < Cardinality({l \in Lease : lease[l] = Unused})

CheckOverlap(r, u, t) ==
  /\ Arrives(r)
  /\ IdLeft
  /\ work' = [work EXCEPT ![r] =
       IF Overlapping(u, t.start) # {} \/ unit[u] = "Removed"
       THEN Done
       ELSE [step |-> "insert",
             row |-> [unit |-> u, status |-> StatusAtCreation(t.start),
                      start |-> t.start, end |-> t.end, lastPaid |-> Never]]]
  /\ UNCHANGED <<today, unit, lease, unpaid, paidOn, job, crashes>>

\* Mutant: no foreign key stands behind the unit that was read.
InsertUnchecked(r, l) ==
  /\ work[r].step = "insert"
  /\ lease[l] = Unused
  /\ lease' = [lease EXCEPT ![l] = work[r].row]
  /\ work' = [work EXCEPT ![r] = Done]
  /\ UNCHANGED <<today, unit, unpaid, paidOn, job, crashes>>

\* The foreign key refuses the row when the unit has gone meanwhile.
InsertLease(r, l) ==
  /\ work[r].step = "insert"
  /\ lease[l] = Unused
  /\ lease' = IF unit[work[r].row.unit] = "Removed"
              THEN lease
              ELSE [lease EXCEPT ![l] = work[r].row]
  /\ work' = [work EXCEPT ![r] = Done]
  /\ UNCHANGED <<today, unit, unpaid, paidOn, job, crashes>>

-----------------------------------------------------------------------------
(* PATCH /lease/:id, PATCH /lease/terminate/:id and PATCH /lease/renew/:id *)
(* end in the same two statements: preload reads the whole row, update     *)
(* writes that row merged with the patch, every column of it.              *)

\* Mutant: what the body leaves out overwrites the row as well.
MergeAll(row, p) ==
  [row EXCEPT !.status = p.status, !.start = p.start, !.end = p.end]

\* Mutant: a body without a status gets the default of the DTO.
MergeDefault(row, p) ==
  [row EXCEPT !.status = IF p.status = Keep THEN "Active" ELSE p.status,
              !.start = IF p.start = Keep THEN @ ELSE p.start,
              !.end = IF p.end = Keep THEN @ ELSE p.end]

Merge(row, p) ==
  [row EXCEPT !.status = IF p.status = Keep THEN @ ELSE p.status,
              !.start = IF p.start = Keep THEN @ ELSE p.start,
              !.end = IF p.end = Keep THEN @ ELSE p.end]

Preload(r, l, p) ==
  /\ Arrives(r)
  /\ Exists(l)
  /\ work' = [work EXCEPT ![r] = [step |-> "update", id |-> l, row |-> lease[l], patch |-> p]]
  /\ UNCHANGED <<today, unit, lease, unpaid, paidOn, job, crashes>>

UpdateLease(r, l) == \E p \in Patches : Preload(r, l, p)

TerminateLease(r, l) == Preload(r, l, [status |-> "Terminated", start |-> Keep, end |-> today])

RenewLease(r, l) == Preload(r, l, [status |-> "Active", start |-> Keep, end |-> today])

\* The relation column unitId is not loaded by preload and not written; the
\* update of a row that was deleted meanwhile affects nothing and succeeds.
WriteRow(r) ==
  /\ work[r].step = "update"
  /\ LET l == work[r].id
     IN  lease' = IF Exists(l)
                  THEN [lease EXCEPT ![l] = [Merge(work[r].row, work[r].patch)
                                                EXCEPT !.unit = lease[l].unit]]
                  ELSE lease
  /\ work' = [work EXCEPT ![r] = Done]
  /\ UNCHANGED <<today, unit, unpaid, paidOn, job, crashes>>

-----------------------------------------------------------------------------
(* POST /lease/:id/make-payment: read the lease, save the transaction, set *)
(* lastPaymentDate on the entity read first and save that entity.          *)

\* Mutant: the lease is stamped and the transaction left for later.
StampFirst(r, l) ==
  /\ Arrives(r)
  /\ Exists(l)
  /\ work' = [work EXCEPT ![r] = [step |-> "stamp", id |-> l,
                                  row |-> [lease[l] EXCEPT !.lastPaid = today]]]
  /\ UNCHANGED <<today, unit, lease, unpaid, paidOn, job, crashes>>

ReadForPayment(r, l) ==
  /\ Arrives(r)
  /\ Exists(l)
  /\ work' = [work EXCEPT ![r] = [step |-> "pay", id |-> l, row |-> lease[l]]]
  /\ UNCHANGED <<today, unit, lease, unpaid, paidOn, job, crashes>>

\* The foreign key leaseId refuses the payment of a lease that has gone.
SavePayment(r) ==
  /\ work[r].step = "pay"
  /\ LET l == work[r].id
     IN  IF Exists(l)
         THEN /\ paidOn' = [paidOn EXCEPT ![l] = today]
              /\ work' = [work EXCEPT ![r] = [step |-> "stamp", id |-> l,
                            row |-> [work[r].row EXCEPT !.lastPaid = today]]]
         ELSE /\ work' = [work EXCEPT ![r] = Done]
              /\ UNCHANGED paidOn
  /\ UNCHANGED <<today, unit, lease, unpaid, job, crashes>>

\* save() writes back the columns that differ from the row, or inserts the
\* entity again, without its unit, when the row has gone.
StampLease(r) ==
  /\ work[r].step = "stamp"
  /\ LET l == work[r].id
     IN  lease' = [lease EXCEPT ![l] =
                     [work[r].row EXCEPT !.unit = IF Exists(l) THEN lease[l].unit ELSE NoUnit]]
  /\ work' = [work EXCEPT ![r] = Done]
  /\ UNCHANGED <<today, unit, unpaid, paidOn, job, crashes>>

-----------------------------------------------------------------------------
(* DELETE of the property (or unit) u: its leases go in the same           *)
(* transaction and their transactions by cascade.                          *)

\* Mutant: the leases stay and lose their unit (SET NULL instead of CASCADE).
RemoveUnitOnly(r, u) ==
  /\ Arrives(r)
  /\ unit[u] # "Removed"
  /\ lease' = [l \in Lease |-> IF Exists(l) /\ lease[l].unit = u
                               THEN [lease[l] EXCEPT !.unit = NoUnit]
                               ELSE lease[l]]
  /\ unit' = [unit EXCEPT ![u] = "Removed"]
  /\ work' = [work EXCEPT ![r] = Done]
  /\ UNCHANGED <<today, unpaid, paidOn, job, crashes>>

RemoveUnit(r, u) ==
  /\ Arrives(r)
  /\ unit[u] # "Removed"
  /\ LET gone == {l \in Lease : Exists(l) /\ lease[l].unit = u}
     IN  /\ lease' = [l \in Lease |-> IF l \in gone THEN Deleted ELSE lease[l]]
         /\ unpaid' = [l \in Lease |-> IF l \in gone THEN 0 ELSE unpaid[l]]
         /\ paidOn' = [l \in Lease |-> IF l \in gone THEN Never ELSE paidOn[l]]
  /\ unit' = [unit EXCEPT ![u] = "Removed"]
  /\ work' = [work EXCEPT ![r] = Done]
  /\ UNCHANGED <<today, job, crashes>>

\* PATCH of a unit may carry the status the user wants shown.
SetUnitStatus(r, u, s) ==
  /\ Arrives(r)
  /\ unit[u] # "Removed"
  /\ unit' = [unit EXCEPT ![u] = s]
  /\ work' = [work EXCEPT ![r] = Done]
  /\ UNCHANGED <<today, lease, unpaid, paidOn, job, crashes>>

-----------------------------------------------------------------------------
(* The midnight job of instance i: everyMidnightJobs awaits its steps one  *)
(* after the other; requests run between them.                             *)

AtStep(i, s) == job[i].step = s

GoTo(i, s, due) == job' = [job EXCEPT ![i] = [step |-> s, due |-> due]]

\* Midnight: the date changes and the cron of every instance fires.  A run is
\* taken to end before the next midnight.  At LastDay the date stands still.
Midnight ==
  /\ \A i \in Job : AtStep(i, "idle")
  /\ today' = IF today < LastDay THEN today + 1 ELSE today
  /\ job' = [i \in Job |-> [step |-> "leases", due |-> {}]]
  /\ UNCHANGED <<unit, lease, unpaid, paidOn, work, crashes>>

\* poo.update_lease_status(), a function of the database: the status that the
\* dates call for, except for a lease someone ended by hand.
StatusByDate(row) ==
  CASE row.status \in {"Terminated", "Cancelled"} -> row.status
    [] row.status \notin {"Terminated", "Cancelled"} /\ row.end < today -> "Expired"
    [] row.status \notin {"Terminated", "Cancelled"} /\ row.end >= today /\ row.start > today
         -> "Inactive"
    [] OTHER -> IF row.end <= today + Window THEN "Expiring" ELSE "Active"

UpdateLeaseStatus(i) ==
  /\ AtStep(i, "leases")
  /\ lease' = [l \in Lease |-> IF Exists(l)
                               THEN [lease[l] EXCEPT !.status = StatusByDate(lease[l])]
                               ELSE lease[l]]
  /\ GoTo(i, "units", {})
  /\ UNCHANGED <<today, unit, unpaid, paidOn, work, crashes>>

\* Mutant: a unit whose leases ended is left as it is.
OccupyUnits(i) ==
  /\ AtStep(i, "units")
  /\ unit' = [u \in Unit |-> IF unit[u] # "Removed" /\ LiveOn(u) # {} THEN "Occupied" ELSE unit[u]]
  /\ GoTo(i, "select", {})
  /\ UNCHANGED <<today, lease, unpaid, paidOn, work, crashes>>

UpdateUnitStatus(i) ==
  /\ AtStep(i, "units")
  /\ unit' = [u \in Unit |-> CASE unit[u] = "Removed" -> "Removed"
                               [] unit[u] # "Removed" /\ LiveOn(u) # {} -> "Occupied"
                               [] OTHER -> "Vacant"]
  /\ GoTo(i, "select", {})
  /\ UNCHANGED <<today, lease, unpaid, paidOn, work, crashes>>

\* poo.calculate_next_rent_due_date(...) <= today, and the lease has not ended.
RentDue(row) ==
  /\ (IF row.lastPaid = Never THEN row.start ELSE row.lastPaid) + Period <= today
  /\ today <= row.end

\* Mutant: the NOT EXISTS condition is dropped.
DueAgain == {l \in Lease : Exists(l) /\ RentDue(lease[l])}

DueLeases == {l \in Lease : Exists(l) /\ RentDue(lease[l]) /\ unpaid[l] = 0}

\* Mutant: off by one in the test for an empty selection.
SelectSeveral(i) ==
  /\ AtStep(i, "select")
  /\ IF Cardinality(DueLeases) <= 1 \/ \E l \in DueLeases : lease[l].unit = NoUnit
     THEN GoTo(i, "idle", {})
     ELSE GoTo(i, "insert", DueLeases)
  /\ UNCHANGED <<today, unit, lease, unpaid, paidOn, work, crashes>>

\* The description is built from lease.unit.property.name: a due lease without a
\* unit makes the job throw before it inserts anything.
SelectUnpaid(i) ==
  /\ AtStep(i, "select")
  /\ IF DueLeases = {} \/ \E l \in DueLeases : lease[l].unit = NoUnit
     THEN GoTo(i, "idle", {})
     ELSE GoTo(i, "insert", DueLeases)
  /\ UNCHANGED <<today, unit, lease, unpaid, paidOn, work, crashes>>

\* One INSERT for all selected leases: it fails as a whole when one has gone.
InsertUnpaid(i) ==
  /\ AtStep(i, "insert")
  /\ unpaid' = IF \A l \in job[i].due : Exists(l)
               THEN [l \in Lease |-> IF l \in job[i].due THEN unpaid[l] + 1 ELSE unpaid[l]]
               ELSE unpaid
  /\ GoTo(i, "idle", {})
  /\ UNCHANGED <<today, unit, lease, paidOn, work, crashes>>

-----------------------------------------------------------------------------
(* A crash cuts a handler or a job off between two statements; the pending *)
(* statements are lost (a transaction under way is rolled back).           *)

RequestDies(r) ==
  /\ r \in InFlight
  /\ crashes < MaxCrashes
  /\ crashes' = crashes + 1
  /\ work' = [work EXCEPT ![r] = Done]
  /\ UNCHANGED <<today, unit, lease, unpaid, paidOn, job>>

JobDies(i) ==
  /\ ~ AtStep(i, "idle")
  /\ crashes < MaxCrashes
  /\ crashes' = crashes + 1
  /\ GoTo(i, "idle", {})
  /\ UNCHANGED <<today, unit, lease, unpaid, paidOn, work>>

-----------------------------------------------------------------------------

RequestArrives(r) ==
  \/ \E u \in Unit : \/ \E t \in Terms : CheckOverlap(r, u, t)
                     \/ RemoveUnit(r, u)
                     \/ \E s \in {"Vacant", "Occupied"} : SetUnitStatus(r, u, s)
  \/ \E l \in Lease : \/ UpdateLease(r, l)
                      \/ TerminateLease(r, l)
                      \/ RenewLease(r, l)
                      \/ ReadForPayment(r, l)

RequestGoesOn(r) ==
  \/ \E l \in Lease : InsertLease(r, l)
  \/ WriteRow(r)
  \/ SavePayment(r)
  \/ StampLease(r)

JobGoesOn(i) ==
  \/ UpdateLeaseStatus(i)
  \/ UpdateUnitStatus(i)
  \/ SelectUnpaid(i)
  \/ InsertUnpaid(i)

Next ==
  \/ Midnight
  \/ \E r \in Req : RequestArrives(r) \/ RequestGoesOn(r) \/ RequestDies(r)
  \/ \E i \in Job : JobGoesOn(i) \/ JobDies(i)

Spec == Init /\ [][Next]_vars

\* The cron fires every midnight and the event loop resumes every pending
\* handler; nothing makes a new request arrive.
Fairness ==
  /\ WF_vars(Midnight)
  /\ \A r \in Req : WF_vars(RequestGoesOn(r))
  /\ \A i \in Job : WF_vars(JobGoesOn(i))

FairSpec == Spec /\ Fairness

-----------------------------------------------------------------------------
(* What the lease book should guarantee.                                   *)

\* generateUnpaidTransactions looks for leases without an Unpaid row and inserts
\* in a later statement: whatever runs in between, and however often jobs are cut
\* off, a lease never carries more Unpaid rows than there are running instances
\* (one, as deployed).
BillsBounded == \A l \in Lease : unpaid[l] <= Cardinality(Job)

\* recordTransaction saves the transaction before it stamps the lease: a lease of a
\* unit never claims a payment later than those in its transaction table, so no
\* crash or stale write makes the midnight job skip rent nobody paid.
LastPaidBacked ==
  \A l \in Lease :
    (Exists(l) /\ lease[l].unit # NoUnit /\ lease[l].lastPaid # Never)
      => (paidOn[l] # Never /\ lease[l].lastPaid <= paidOn[l])

\* createLease reads the unit and inserts later, a removal may run in between: a
\* lease either belongs to a unit that is there or has lost its unit for good.
UnitStillThere ==
  \A l \in Lease :
    Exists(l) => lease[l].unit = NoUnit \/ unit[lease[l].unit] # "Removed"

\* With one request at a time, removing a unit leaves no lease behind: the midnight
\* job, which reads lease.unit.property, then never meets a lease without a unit.
NoLeaseWithoutUnit ==
  \A l \in Lease :
    Exists(l) => lease[l].unit # NoUnit /\ unit[lease[l].unit] # "Removed"

KeepsTerminated ==
  \A l \in Lease :
    (/\ Exists(l) /\ Exists(l)'
     /\ lease[l].status = "Terminated" /\ lease'[l].status # "Terminated")
      => \E r \in Req : /\ work[r].step = "update"
                        /\ work[r].id = l
                        /\ work[r].patch.status # Keep
                        /\ work'[r] = Done

\* A terminated lease gets another status only from a request that names one
\* (PATCH with a status, or renew); neither a payment nor an update of its dates
\* nor the midnight job brings it back.
TerminatedIsFinal == [][KeepsTerminated]_vars

\* 'The unit already has an active lease during the specified period' is refused:
\* two live leases of a unit cover no common day.
NoOverlap ==
  \A k, l \in Lease :
    (k # l /\ \E u \in Unit : k \in LiveOn(u) /\ l \in LiveOn(u))
      => lease[k].end < lease[l].start \/ lease[l].end < lease[k].start

\* Requests, user edits of the unit and crashes leave the unit status behind the
\* leases; once they stop, the midnight jobs bring every unit in line and keep it so.
UnitsSettle ==
  <>[](\A u \in Unit : unit[u] # "Removed" => (unit[u] = "Occupied" <=> LiveOn(u) # {}))

\* Rent that stays due is billed in the end, unless a lease without a unit makes
\* every run of the job throw.
DueLeasesBilled ==
  <>[](\/ \E l \in DueLeases : lease[l].unit = NoUnit
       \/ DueLeases = {})

=============================================================================
