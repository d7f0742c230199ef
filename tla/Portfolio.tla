------------------------------- MODULE Portfolio -------------------------------
(***************************************************************************)
(* The properties and units of an organization, and the plan that limits   *)
(* them.  Limits are compared with a counter that only the midnight job    *)
(* recounts; the check of units is started and never waited for, so it     *)
(* refuses nobody, but when it fails the process ends.  Adding units and   *)
(* deleting a property run in transactions of their own that may overlap.  *)
(***************************************************************************)
EXTENDS Naturals, FiniteSets

CONSTANTS
  Property,
  Unit,
  Plan,
  Limit,      \* property_limit of each plan
  Basic,      \* the plan onboarding subscribes an organization to
  Row,        \* rows of organization_subscriptions, a bound on subscriptions
  First,      \* the row of onboarding
  NoPlan,
  Request,    \* requests that may overlap
  Orphan      \* the property of a unit without one

ASSUME PortfolioAssumption ==
  /\ Limit \in [Plan -> Nat]
  /\ Basic \in Plan /\ First \in Row
  /\ NoPlan \notin Plan
  /\ Orphan \notin Property
  /\ IsFiniteSet(Property)

VARIABLES
  prop,     \* the state of each property
  home,     \* the property of each unit that exists
  counted,  \* the properties of the organization's counter, if it has one
  plan,     \* the plan of each active subscription
  shown,    \* the subscription in the cache
  task,     \* what each request is doing
  pending,  \* a check of units nobody waits for has yet to fail
  known,    \* properties made or let in before the last recount or change of plan
  astray    \* units added to no property, or while theirs was being deleted

rows == <<prop, home>>
subs == <<counted, plan, shown>>
vars == <<prop, home, counted, plan, shown, task, pending, known, astray>>

-----------------------------------------------------------------------------

Existing == {p \in Property : prop[p] \in {"open", "archived"}}
Open == {p \in Property : prop[p] = "open"}
UnitsOf(p) == {u \in DOMAIN home : home[u] = p}
Active == {x \in Row : plan[x] # NoPlan}

NoCounter == [some |-> FALSE, properties |-> 0]
Count(n) == [some |-> TRUE, properties |-> n]

Idle == [at |-> "idle"]
Task == {Idle}
  \cup [at : {"create"}, property : Property]
  \cup [at : {"add"}, property : Property \cup {Orphan}, units : SUBSET Unit]
  \cup [at : {"units", "drop"}, property : Property, gone : SUBSET Unit]
  \cup [at : {"change"}, plan : Plan]
  \cup [at : {"update"}, row : Row, plan : Plan]

LetIn == {task[q].property : q \in {r \in Request : task[r].at = "create"}}

TypeOK ==
  /\ prop \in [Property -> {"new", "open", "archived", "deleted"}]
  /\ DOMAIN home \subseteq Unit
  /\ \A u \in DOMAIN home : home[u] = Orphan \/ home[u] \in Existing
  /\ counted \in {NoCounter} \cup {Count(n) : n \in 0..Cardinality(Property)}
  /\ plan \in [Row -> Plan \cup {NoPlan}] /\ plan[First] # NoPlan
  /\ shown \in Plan \cup {NoPlan}
  /\ task \in [Request -> Task]
  /\ pending \in BOOLEAN
  /\ known \in SUBSET Property
  /\ astray \in SUBSET Unit

\* An organization may have no counter before its first midnight.
Init ==
  /\ prop = [p \in Property |-> "new"]
  /\ home = <<>>
  /\ counted \in {NoCounter, Count(0)}
  /\ plan = [x \in Row |-> IF x = First THEN Basic ELSE NoPlan]
  /\ shown = NoPlan
  /\ task = [q \in Request |-> Idle]
  /\ pending = FALSE
  /\ known = {} /\ astray = {}

Free(q) == task[q].at = "idle"
Go(q, t) == task' = [task EXCEPT ![q] = t]

-----------------------------------------------------------------------------
(* Properties.                                                             *)

\* Mutant: a limit that is reached still lets one in.
CanAddUpToLimit(x) == counted.properties <= Limit[plan[x]]

\* canAddProperty: against the counter, which reads as a string and is compared as a number.
CanAddProperty(x) == counted.properties < Limit[plan[x]]

\* SubscriptionLimitGuard: of several active subscriptions the database picks one.  Without a
\* counter the guard fails.  This is production: where NODE_ENV names a local, test, development
\* or staging environment, the guard lets everything pass.
LetCreate(q, p) ==
  /\ Free(q) /\ prop[p] = "new" /\ p \notin LetIn
  /\ counted.some /\ \E x \in Active : CanAddProperty(x)
  /\ Go(q, [at |-> "create", property |-> p])
  /\ UNCHANGED <<rows, subs, pending, known, astray>>

\* createProperty: the property and its units, in one transaction.
CreateProperty(q, us) ==
  /\ task[q].at = "create" /\ us \cap DOMAIN home = {}
  /\ prop' = [prop EXCEPT ![task[q].property] = "open"]
  /\ home' = [u \in DOMAIN home \cup us |-> IF u \in us THEN task[q].property ELSE home[u]]
  /\ Go(q, Idle)
  /\ UNCHANGED <<subs, pending, known, astray>>

\* archiveProperty hides the property from nobody who counts.
Archive(p) ==
  /\ prop[p] = "open"
  /\ prop' = [prop EXCEPT ![p] = "archived"]
  /\ UNCHANGED <<home, subs, task, pending, known, astray>>

\* addUnitsToProperty reads the property, of whatever organization, and goes on without one.
\* The check of the limit is under way, and has a counter to read or not.
FindForUnits(q, p, us) ==
  /\ Free(q) /\ us # {} /\ us \cap DOMAIN home = {}
  /\ Go(q, [at |-> "add", property |-> IF p \in Existing THEN p ELSE Orphan, units |-> us])
  /\ pending' = (pending \/ ~counted.some)
  /\ UNCHANGED <<rows, subs, known, astray>>

BeingDeleted(p) == \E q \in Request : task[q].at \in {"units", "drop"} /\ task[q].property = p

\* Units of a property that is gone by now are refused by the foreign key.
AddUnits(q) ==
  /\ task[q].at = "add"
  /\ LET us == task[q].units \ DOMAIN home
         p == task[q].property
     IN IF p = Orphan \/ p \in Existing
        THEN /\ home' = [u \in DOMAIN home \cup us |-> IF u \in us THEN p ELSE home[u]]
             /\ astray' = IF p = Orphan \/ BeingDeleted(p) THEN astray \cup us ELSE astray
        ELSE UNCHANGED <<home, astray>>
  /\ Go(q, Idle)
  /\ UNCHANGED <<prop, subs, pending, known>>

\* deleteProperty, one transaction: the property is found, ...
FindForDeletion(q, p) ==
  /\ Free(q) /\ p \in Existing
  /\ Go(q, [at |-> "units", property |-> p, gone |-> {}])
  /\ UNCHANGED <<rows, subs, pending, known, astray>>

\* Mutant: the units are left to the foreign key.
DeleteNoUnits(q) ==
  /\ task[q].at = "units"
  /\ Go(q, [task[q] EXCEPT !.at = "drop"])
  /\ UNCHANGED <<rows, subs, pending, known, astray>>

\* ... what depends on its units and the units it has are deleted, ...
DeleteUnits(q) ==
  /\ task[q].at = "units"
  /\ Go(q, [task[q] EXCEPT !.at = "drop", !.gone = UnitsOf(task[q].property)])
  /\ UNCHANGED <<rows, subs, pending, known, astray>>

\* Mutant: the units that came since keep the property that is gone.
DropKeepsUnits(q) ==
  /\ task[q].at = "drop"
  /\ prop' = [prop EXCEPT ![task[q].property] = "deleted"]
  /\ home' = [u \in DOMAIN home \ task[q].gone |-> home[u]]
  /\ Go(q, Idle)
  /\ UNCHANGED <<subs, pending, known, astray>>

\* ... and the property itself: the foreign key sets the units that came since to none.
DropProperty(q) ==
  /\ task[q].at = "drop"
  /\ prop' = [prop EXCEPT ![task[q].property] = "deleted"]
  /\ home' = [u \in DOMAIN home \ task[q].gone |->
                IF home[u] = task[q].property THEN Orphan ELSE home[u]]
  /\ Go(q, Idle)
  /\ UNCHANGED <<subs, pending, known, astray>>

\* A statement fails and its transaction with it, or the check of a downgrade does.
Fail(q) ==
  /\ ~Free(q)
  /\ Go(q, Idle)
  /\ UNCHANGED <<rows, subs, pending, known, astray>>

\* canAddUnit found no counter: the promise nobody holds is refused and the process ends.
Crash ==
  /\ pending
  /\ pending' = FALSE
  /\ task' = [q \in Request |-> Idle]
  /\ UNCHANGED <<rows, subs, known, astray>>

-----------------------------------------------------------------------------
(* Plans and counters.                                                     *)

\* updateOrganizationCounters: a function of the database counts, with or without what is
\* archived.
Recount ==
  /\ \E s \in {Open, Existing} : counted' = Count(Cardinality(s))
  /\ known' = Existing \cup LetIn
  /\ UNCHANGED <<rows, plan, shown, task, pending, astray>>

\* subscribeToPlan adds an active subscription to the one there is, and caches it for a day.
SubscribeToPlan(x, n) ==
  /\ plan[x] = NoPlan
  /\ plan' = [plan EXCEPT ![x] = n]
  /\ shown' = n
  /\ known' = Existing \cup LetIn
  /\ UNCHANGED <<rows, counted, task, pending, astray>>

\* What getSubscription reads from the database it caches under a key nobody reads.
SubscriptionExpires ==
  /\ shown # NoPlan
  /\ shown' = NoPlan
  /\ UNCHANGED <<rows, counted, plan, task, pending, known, astray>>

\* upgradePlan checks nothing.
UpgradePlan(q, n) ==
  /\ Free(q)
  /\ Go(q, [at |-> "change", plan |-> n])
  /\ UNCHANGED <<rows, subs, pending, known, astray>>

\* downgradePlan asks for room under the limit of the current plan, not of the new one.
DowngradePlan(q, n) ==
  /\ counted.some /\ \E x \in Active : CanAddProperty(x)
  /\ UpgradePlan(q, n)

\* changeSubscription reads an active subscription and writes the plan into that row.
ReadSubscription(q) ==
  /\ task[q].at = "change"
  /\ \E x \in Active : Go(q, [at |-> "update", row |-> x, plan |-> task[q].plan])
  /\ UNCHANGED <<rows, subs, pending, known, astray>>

UpdateSubscription(q) ==
  /\ task[q].at = "update"
  /\ plan' = [plan EXCEPT ![task[q].row] = task[q].plan]
  /\ known' = Existing \cup LetIn
  /\ Go(q, Idle)
  /\ UNCHANGED <<rows, counted, shown, pending, astray>>

-----------------------------------------------------------------------------

PropertyStep(q) ==
  \/ \E p \in Property : LetCreate(q, p) \/ FindForDeletion(q, p)
  \/ \E p \in Property, us \in SUBSET Unit : FindForUnits(q, p, us)
  \/ \E us \in SUBSET Unit : CreateProperty(q, us)
  \/ AddUnits(q) \/ DeleteUnits(q) \/ DropProperty(q) \/ Fail(q)

PlanStep(q) ==
  \/ \E n \in Plan : UpgradePlan(q, n) \/ DowngradePlan(q, n)
  \/ ReadSubscription(q) \/ UpdateSubscription(q)

Next ==
  \/ \E q \in Request : PropertyStep(q) \/ PlanStep(q)
  \/ \E p \in Property : Archive(p)
  \/ \E x \in Row, n \in Plan : SubscribeToPlan(x, n)
  \/ Recount \/ SubscriptionExpires \/ Crash

Spec == Init /\ [][Next]_vars

-----------------------------------------------------------------------------
(* What is expected of them.                                               *)

\* With a counter at the limit of every active plan, nothing is there but what was made, or
\* let in, before the counter was recounted or the plans were changed: the limit is only
\* exceeded by what midnight had not counted yet.
LimitHolds ==
  counted.some /\ (\A x \in Active : counted.properties >= Limit[plan[x]]) =>
    Existing \subseteq known

\* A unit is without a property only if none was found for it, or if it was added while its
\* property was being deleted.
HomelessBlamed == \A u \in DOMAIN home : home[u] = Orphan => u \in astray
================================================================================
