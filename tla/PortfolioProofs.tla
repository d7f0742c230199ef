---------------------------- MODULE PortfolioProofs ----------------------------
(* Proofs about Portfolio, for any properties, units, plans, limits and     *)
(* requests.                                                                *)
EXTENDS Portfolio, FiniteSetTheorems, TLAPS

USE DEF Free, Go

-----------------------------------------------------------------------------
(* Types.                                                                   *)

Creating == [at : {"create"}, property : Property]
Adding == [at : {"add"}, property : Property \cup {Orphan}, units : SUBSET Unit]
Deleting == [at : {"units", "drop"}, property : Property, gone : SUBSET Unit]
Changing == [at : {"change"}, plan : Plan]
Updating == [at : {"update"}, row : Row, plan : Plan]

\* What a request is doing, told by where it is.
LEMMA TaskType ==
  ASSUME TypeOK, NEW q \in Request
  PROVE  /\ task[q] \in Task
         /\ task[q].at = "create" => task[q] \in Creating
         /\ task[q].at = "add" => task[q] \in Adding
         /\ task[q].at \in {"units", "drop"} => task[q] \in Deleting
         /\ task[q].at = "change" => task[q] \in Changing
         /\ task[q].at = "update" => task[q] \in Updating
BY DEF TypeOK, Task, Idle, Creating, Adding, Deleting, Changing, Updating

LEMMA IdleType == Idle \in Task /\ Idle.at = "idle"
BY DEF Task, Idle

\* A count is one of finitely many properties.
LEMMA CountType ==
  ASSUME TypeOK, NEW s \in {Open, Existing}
  PROVE  Count(Cardinality(s)) \in {NoCounter} \cup {Count(n) : n \in 0..Cardinality(Property)}
<1>1. s \subseteq Property
  BY DEF Open, Existing
<1>2. /\ Cardinality(s) \in Nat /\ Cardinality(Property) \in Nat
      /\ Cardinality(s) <= Cardinality(Property)
  BY <1>1, PortfolioAssumption, FS_Subset, FS_CardinalityType
<1> QED
  BY <1>2

LEMMA InitTypes == Init => TypeOK
<1> SUFFICES ASSUME Init PROVE TypeOK
  OBVIOUS
<1>1. DOMAIN home = {}
  BY DEF Init
<1>2. Count(0) \in {Count(n) : n \in 0..Cardinality(Property)}
  BY PortfolioAssumption, FS_CardinalityType
<1>3. plan \in [Row -> Plan \cup {NoPlan}] /\ plan[First] # NoPlan
  BY PortfolioAssumption DEF Init
<1> QED
  BY <1>1, <1>2, <1>3, IdleType DEF Init, TypeOK

\* A request goes on, and the tables stay as they are.
LEMMA GoTypes ==
  ASSUME TypeOK, NEW q \in Request, NEW x \in Task, Go(q, x),
         UNCHANGED <<rows, subs, known, astray>>, pending' \in BOOLEAN
  PROVE  TypeOK'
BY DEF TypeOK, rows, subs, Existing

LEMMA PropertyTypes ==
  ASSUME TypeOK, NEW q \in Request, PropertyStep(q)
  PROVE  TypeOK'
<1>1. ASSUME NEW p \in Property, LetCreate(q, p) PROVE TypeOK'
  <2>1. [at |-> "create", property |-> p] \in Task
    BY DEF Task
  <2> QED
    BY <1>1, <2>1, GoTypes DEF LetCreate, TypeOK
<1>2. ASSUME NEW p \in Property, FindForDeletion(q, p) PROVE TypeOK'
  <2>1. [at |-> "units", property |-> p, gone |-> {}] \in Task
    BY DEF Task
  <2> QED
    BY <1>2, <2>1, GoTypes DEF FindForDeletion, TypeOK
<1>3. ASSUME NEW p \in Property, NEW us \in SUBSET Unit, FindForUnits(q, p, us) PROVE TypeOK'
  <2>1. [at |-> "add", property |-> IF p \in Existing THEN p ELSE Orphan, units |-> us] \in Task
    BY DEF Task
  <2>2. pending' \in BOOLEAN
    BY <1>3 DEF FindForUnits, TypeOK
  <2> QED
    BY <1>3, <2>1, <2>2, GoTypes DEF FindForUnits, subs, rows
<1>4. ASSUME NEW us \in SUBSET Unit, CreateProperty(q, us) PROVE TypeOK'
  <2>1. task[q].property \in Property
    BY <1>4, TaskType DEF CreateProperty, Creating
  <2>2. /\ prop' \in [Property -> {"new", "open", "archived", "deleted"}]
        /\ Existing' = Existing \cup {task[q].property}
    BY <1>4, <2>1 DEF CreateProperty, TypeOK, Existing
  <2>3. /\ DOMAIN home' \subseteq Unit
        /\ \A u \in DOMAIN home' : home'[u] = Orphan \/ home'[u] \in Existing'
    BY <1>4, <2>2 DEF CreateProperty, TypeOK
  <2>4. task' \in [Request -> Task]
    BY <1>4, IdleType DEF CreateProperty, TypeOK
  <2> QED
    BY <1>4, <2>2, <2>3, <2>4 DEF CreateProperty, TypeOK, subs
<1>5. CASE AddUnits(q)
  <2>1. task[q] \in Adding
    BY <1>5, TaskType DEF AddUnits
  <2> DEFINE us == task[q].units \ DOMAIN home
             p == task[q].property
  <2>2. us \subseteq Unit
    BY <2>1 DEF Adding
  <2>3. \/ UNCHANGED <<home, astray>>
        \/ /\ p = Orphan \/ p \in Existing
           /\ home' = [u \in DOMAIN home \cup us |-> IF u \in us THEN p ELSE home[u]]
           /\ astray' = astray \/ astray' = astray \cup us
    BY <1>5 DEF AddUnits
  <2>4. prop' = prop /\ Existing' = Existing
    BY <1>5 DEF AddUnits, Existing
  <2> HIDE DEF us, p
  <2>5. /\ DOMAIN home' \subseteq Unit /\ astray' \in SUBSET Unit
        /\ \A u \in DOMAIN home' : home'[u] = Orphan \/ home'[u] \in Existing'
    BY <2>2, <2>3, <2>4 DEF TypeOK
  <2>6. task' \in [Request -> Task]
    BY <1>5, IdleType DEF AddUnits, TypeOK
  <2> QED
    BY <1>5, <2>4, <2>5, <2>6 DEF AddUnits, TypeOK, subs
<1>6. CASE DeleteUnits(q)
  <2>1. task[q] \in Deleting
    BY <1>6, TaskType DEF DeleteUnits
  <2>2. UnitsOf(task[q].property) \in SUBSET Unit
    BY DEF UnitsOf, TypeOK
  <2>3. [task[q] EXCEPT !.at = "drop", !.gone = UnitsOf(task[q].property)] \in Task
    BY <2>1, <2>2 DEF Deleting, Task
  <2> QED
    BY <1>6, <2>3, GoTypes DEF DeleteUnits, TypeOK
<1>7. CASE DropProperty(q)
  <2>1. task[q] \in Deleting
    BY <1>7, TaskType DEF DropProperty
  <2>2. task[q].property \in Property /\ Orphan \notin Property
    BY <2>1, PortfolioAssumption DEF Deleting
  <2>3. /\ prop' \in [Property -> {"new", "open", "archived", "deleted"}]
        /\ Existing' = Existing \ {task[q].property}
    BY <1>7, <2>2 DEF DropProperty, TypeOK, Existing
  <2>4. /\ DOMAIN home' \subseteq Unit
        /\ \A u \in DOMAIN home' : home'[u] = Orphan \/ home'[u] \in Existing'
    BY <1>7, <2>3 DEF DropProperty, TypeOK
  <2>5. task' \in [Request -> Task]
    BY <1>7, IdleType DEF DropProperty, TypeOK
  <2> QED
    BY <1>7, <2>3, <2>4, <2>5 DEF DropProperty, TypeOK, subs
<1>8. CASE Fail(q)
  BY <1>8, IdleType, GoTypes DEF Fail, TypeOK
<1> QED
  BY <1>1, <1>2, <1>3, <1>4, <1>5, <1>6, <1>7, <1>8 DEF PropertyStep

LEMMA PlanTypes ==
  ASSUME TypeOK, NEW q \in Request, PlanStep(q)
  PROVE  TypeOK'
<1>1. ASSUME NEW n \in Plan, UpgradePlan(q, n) \/ DowngradePlan(q, n) PROVE TypeOK'
  <2>1. [at |-> "change", plan |-> n] \in Task
    BY DEF Task
  <2> QED
    BY <1>1, <2>1, GoTypes DEF UpgradePlan, DowngradePlan, TypeOK
<1>2. CASE ReadSubscription(q)
  <2>1. PICK x \in Active : Go(q, [at |-> "update", row |-> x, plan |-> task[q].plan])
    BY <1>2 DEF ReadSubscription
  <2>2. [at |-> "update", row |-> x, plan |-> task[q].plan] \in Task
    BY <1>2, TaskType DEF ReadSubscription, Active, Changing, Task
  <2> QED
    BY <1>2, <2>1, <2>2, GoTypes DEF ReadSubscription, TypeOK
<1>3. CASE UpdateSubscription(q)
  <2>1. task[q] \in Updating
    BY <1>3, TaskType DEF UpdateSubscription
  <2>2. plan' \in [Row -> Plan \cup {NoPlan}] /\ plan'[First] # NoPlan
    BY <1>3, <2>1, PortfolioAssumption DEF UpdateSubscription, Updating, TypeOK
  <2>3. task' \in [Request -> Task]
    BY <1>3, IdleType DEF UpdateSubscription, TypeOK
  <2>4. known' \in SUBSET Property
    BY <1>3, TaskType DEF UpdateSubscription, Existing, LetIn, Creating
  <2> QED
    BY <1>3, <2>2, <2>3, <2>4 DEF UpdateSubscription, TypeOK, rows, Existing
<1> QED
  BY <1>1, <1>2, <1>3 DEF PlanStep

LEMMA StepTypes == TypeOK /\ [Next]_vars => TypeOK'
<1> SUFFICES ASSUME TypeOK, [Next]_vars PROVE TypeOK'
  OBVIOUS
<1>1. CASE UNCHANGED vars
  BY <1>1 DEF vars, TypeOK, Existing
<1>2. ASSUME NEW p \in Property, Archive(p) PROVE TypeOK'
  <2>1. /\ prop' \in [Property -> {"new", "open", "archived", "deleted"}]
        /\ Existing' = Existing
    BY <1>2 DEF Archive, TypeOK, Existing
  <2> QED
    BY <1>2, <2>1 DEF Archive, TypeOK, subs
<1>3. known \cup Existing \cup LetIn \in SUBSET Property
  BY TaskType DEF TypeOK, Existing, LetIn, Creating
<1>4. ASSUME NEW x \in Row, NEW n \in Plan, SubscribeToPlan(x, n) PROVE TypeOK'
  <2>1. plan' \in [Row -> Plan \cup {NoPlan}] /\ plan'[First] # NoPlan
    BY <1>4, PortfolioAssumption DEF SubscribeToPlan, TypeOK
  <2> QED
    BY <1>3, <1>4, <2>1 DEF SubscribeToPlan, TypeOK, rows, Existing
<1>5. CASE Recount
  BY <1>3, <1>5, CountType DEF Recount, TypeOK, rows, Existing
<1>6. CASE SubscriptionExpires
  BY <1>6 DEF SubscriptionExpires, TypeOK, rows, Existing
<1>7. CASE Crash
  BY <1>7, IdleType DEF Crash, TypeOK, rows, subs, Existing
<1> QED
  BY <1>1, <1>2, <1>4, <1>5, <1>6, <1>7, PropertyTypes, PlanTypes DEF Next

\* Properties, units, subscriptions and requests stay well formed: no unit names a property
\* that is gone, and the organization always has an active subscription.
THEOREM Typing == Spec => []TypeOK
BY InitTypes, StepTypes, PTL DEF Spec

-----------------------------------------------------------------------------
(* The limit.                                                               *)

AtLimit == counted.some /\ \A x \in Active : counted.properties >= Limit[plan[x]]

\* Stronger than LimitHolds: at the limit, what is let in but not made yet is known too.
KnownAtLimit == AtLimit => Existing \cup LetIn \subseteq known

\* Nothing comes in, and neither the counter nor the plans change.
LEMMA NobodyComes ==
  ASSUME KnownAtLimit, UNCHANGED <<counted, plan, known>>,
         (Existing \cup LetIn)' \subseteq Existing \cup LetIn
  PROVE  KnownAtLimit'
BY DEF KnownAtLimit, AtLimit, Active

\* A request that moves anywhere but to the creation of a property lets nothing in.
LEMMA LetInShrinks ==
  ASSUME TypeOK, NEW q \in Request, NEW x \in Task, x.at # "create", Go(q, x)
  PROVE  LetIn' \subseteq LetIn
<1>1. task \in [Request -> Task]
  BY DEF TypeOK
<1>2. \A r \in Request : task'[r].at = "create" => task'[r] = task[r]
  BY <1>1
<1> QED
  BY <1>2 DEF LetIn

LEMMA MovesKeepKnown ==
  ASSUME TypeOK, KnownAtLimit, NEW q \in Request, NEW x \in Task, x.at # "create", Go(q, x),
         UNCHANGED <<prop, counted, plan, known>>
  PROVE  KnownAtLimit'
<1>1. LetIn' \subseteq LetIn
  BY LetInShrinks
<1>2. Existing' = Existing
  BY DEF Existing
<1> QED
  BY <1>1, <1>2, NobodyComes

\* What was counted or let in is known, whatever the counter or the plans become.
LEMMA KnowAll ==
  ASSUME known' = Existing \cup LetIn, Existing' \subseteq Existing, LetIn' \subseteq LetIn
  PROVE  KnownAtLimit'
BY DEF KnownAtLimit

LEMMA PropertyKeepsLimit ==
  ASSUME TypeOK, KnownAtLimit, NEW q \in Request, PropertyStep(q)
  PROVE  KnownAtLimit'
<1>1. ASSUME NEW p \in Property, LetCreate(q, p) PROVE KnownAtLimit'
  <2>1. PICK x \in Active : counted.properties < Limit[plan[x]]
    BY <1>1 DEF LetCreate, CanAddProperty
  <2>2. plan[x] \in Plan
    BY DEF TypeOK, Active
  <2>3. counted.properties \in Nat
    <3>1. counted = NoCounter \/ \E n \in 0..Cardinality(Property) : counted = Count(n)
      BY DEF TypeOK
    <3>2. Cardinality(Property) \in Nat
      BY PortfolioAssumption, FS_CardinalityType
    <3> QED
      BY <3>1, <3>2 DEF NoCounter, Count
  <2>4. Limit[plan[x]] \in Nat
    BY <2>2, PortfolioAssumption
  <2>5. ~(counted.properties >= Limit[plan[x]])
    BY <2>1, <2>3, <2>4
  <2>6. ~AtLimit
    BY <2>5 DEF AtLimit
  <2>7. counted' = counted /\ plan' = plan
    BY <1>1 DEF LetCreate, subs
  <2>8. ~AtLimit'
    BY <2>6, <2>7 DEF AtLimit, Active
  <2> QED
    BY <2>8 DEF KnownAtLimit
<1>2. ASSUME NEW p \in Property, FindForDeletion(q, p) PROVE KnownAtLimit'
  <2>1. [at |-> "units", property |-> p, gone |-> {}] \in Task
    BY DEF Task
  <2> QED
    BY <1>2, <2>1, MovesKeepKnown DEF FindForDeletion, rows, subs
<1>3. ASSUME NEW p \in Property, NEW us \in SUBSET Unit, FindForUnits(q, p, us)
      PROVE  KnownAtLimit'
  <2>1. [at |-> "add", property |-> IF p \in Existing THEN p ELSE Orphan, units |-> us] \in Task
    BY DEF Task
  <2> QED
    BY <1>3, <2>1, MovesKeepKnown DEF FindForUnits, rows, subs
<1>4. ASSUME NEW us \in SUBSET Unit, CreateProperty(q, us) PROVE KnownAtLimit'
  <2>1. task[q].property \in LetIn
    BY <1>4 DEF CreateProperty, LetIn
  <2>2. LetIn' \subseteq LetIn
    BY <1>4, LetInShrinks, IdleType DEF CreateProperty
  <2>3. Existing' \subseteq Existing \cup {task[q].property}
    BY <1>4 DEF CreateProperty, TypeOK, Existing
  <2> QED
    BY <1>4, <2>1, <2>2, <2>3, NobodyComes DEF CreateProperty, subs
<1>5. CASE AddUnits(q)
  BY <1>5, IdleType, MovesKeepKnown DEF AddUnits, subs
<1>6. CASE DeleteUnits(q)
  <2>1. task[q] \in Deleting
    BY <1>6, TaskType DEF DeleteUnits
  <2>2. UnitsOf(task[q].property) \in SUBSET Unit
    BY DEF UnitsOf, TypeOK
  <2> DEFINE x == [task[q] EXCEPT !.at = "drop", !.gone = UnitsOf(task[q].property)]
  <2>3. x \in Task /\ x.at = "drop"
    BY <2>1, <2>2 DEF Deleting, Task
  <2>4. Go(q, x) /\ UNCHANGED <<prop, counted, plan, known>>
    BY <1>6 DEF DeleteUnits, rows, subs
  <2> HIDE DEF x
  <2> QED
    BY <2>3, <2>4, MovesKeepKnown
<1>7. CASE DropProperty(q)
  <2>1. LetIn' \subseteq LetIn
    BY <1>7, LetInShrinks, IdleType DEF DropProperty
  <2>2. Existing' \subseteq Existing
    BY <1>7 DEF DropProperty, TypeOK, Existing
  <2> QED
    BY <1>7, <2>1, <2>2, NobodyComes DEF DropProperty, subs
<1>8. CASE Fail(q)
  BY <1>8, IdleType, MovesKeepKnown DEF Fail, rows, subs
<1> QED
  BY <1>1, <1>2, <1>3, <1>4, <1>5, <1>6, <1>7, <1>8 DEF PropertyStep

LEMMA PlanKeepsLimit ==
  ASSUME TypeOK, KnownAtLimit, NEW q \in Request, PlanStep(q)
  PROVE  KnownAtLimit'
<1>1. ASSUME NEW n \in Plan, UpgradePlan(q, n) \/ DowngradePlan(q, n) PROVE KnownAtLimit'
  <2>1. [at |-> "change", plan |-> n] \in Task
    BY DEF Task
  <2> QED
    BY <1>1, <2>1, MovesKeepKnown DEF UpgradePlan, DowngradePlan, rows, subs
<1>2. CASE ReadSubscription(q)
  <2>1. PICK x \in Active : Go(q, [at |-> "update", row |-> x, plan |-> task[q].plan])
    BY <1>2 DEF ReadSubscription
  <2>2. [at |-> "update", row |-> x, plan |-> task[q].plan] \in Task
    BY <1>2, TaskType DEF ReadSubscription, Active, Changing, Task
  <2> QED
    BY <1>2, <2>1, <2>2, MovesKeepKnown DEF ReadSubscription, rows, subs
<1>3. CASE UpdateSubscription(q)
  <2>1. LetIn' \subseteq LetIn
    BY <1>3, LetInShrinks, IdleType DEF UpdateSubscription
  <2>2. Existing' = Existing
    BY <1>3 DEF UpdateSubscription, rows, Existing
  <2> QED
    BY <1>3, <2>1, <2>2, KnowAll DEF UpdateSubscription
<1> QED
  BY <1>1, <1>2, <1>3 DEF PlanStep

LEMMA StepKeepsLimit == TypeOK /\ KnownAtLimit /\ [Next]_vars => KnownAtLimit'
<1> SUFFICES ASSUME TypeOK, KnownAtLimit, [Next]_vars PROVE KnownAtLimit'
  OBVIOUS
<1>1. CASE UNCHANGED vars
  BY <1>1, NobodyComes DEF vars, Existing, LetIn
<1>2. ASSUME NEW p \in Property, Archive(p) PROVE KnownAtLimit'
  <2>1. Existing' \subseteq Existing /\ LetIn' = LetIn
    BY <1>2 DEF Archive, TypeOK, Existing, LetIn
  <2> QED
    BY <1>2, <2>1, NobodyComes DEF Archive, subs
<1>3. ASSUME NEW x \in Row, NEW n \in Plan, SubscribeToPlan(x, n) PROVE KnownAtLimit'
  BY <1>3, KnowAll DEF SubscribeToPlan, rows, Existing, LetIn
<1>4. CASE Recount
  BY <1>4, KnowAll DEF Recount, rows, Existing, LetIn
<1>5. CASE SubscriptionExpires
  BY <1>5, NobodyComes DEF SubscriptionExpires, rows, Existing, LetIn
<1>6. CASE Crash
  <2>1. LetIn' = {}
    BY <1>6, IdleType DEF Crash, LetIn
  <2>2. Existing' = Existing
    BY <1>6 DEF Crash, rows, Existing
  <2> QED
    BY <1>6, <2>1, <2>2, NobodyComes DEF Crash, subs
<1> QED
  BY <1>1, <1>2, <1>3, <1>4, <1>5, <1>6, PropertyKeepsLimit, PlanKeepsLimit DEF Next

\* At the limit of every active plan nothing exists but what was made, or let in, before the
\* last recount or change of plan: creations that race each other exceed the limit only by
\* what midnight has not counted yet.
THEOREM LimitHoldsAlways == Spec => []LimitHolds
<1>1. Init => KnownAtLimit
  BY DEF Init, KnownAtLimit, Existing, LetIn, Idle
<1>2. KnownAtLimit => LimitHolds
  BY DEF KnownAtLimit, AtLimit, LimitHolds
<1> QED
  BY <1>1, <1>2, InitTypes, StepTypes, StepKeepsLimit, PTL DEF Spec

-----------------------------------------------------------------------------
(* Units without a property.                                                *)

\* A property in the making is made by one request, and is not one under deletion; the
\* units a deletion has not collected came while it ran.
OneMaker ==
  \A q, r \in Request :
    task[q].at = "create" /\ task[r].at = "create" /\ task[q].property = task[r].property =>
      q = r

NewIsNew ==
  \A q \in Request :
    /\ task[q].at = "create" => prop[task[q].property] = "new"
    /\ task[q].at \in {"units", "drop"} => prop[task[q].property] # "new"

LateIsAstray ==
  \A q \in Request, u \in DOMAIN home :
    task[q].at = "drop" /\ home[u] = task[q].property /\ u \notin task[q].gone => u \in astray

Blamed == HomelessBlamed /\ OneMaker /\ NewIsNew /\ LateIsAstray

\* A request moves to a place where it neither makes nor drops.
LEMMA MovesKeepBlamed ==
  ASSUME TypeOK, Blamed, NEW q \in Request, NEW x \in Task, Go(q, x),
         x.at \notin {"create", "units", "drop"}, UNCHANGED <<rows, astray>>
  PROVE  Blamed'
<1>1. task \in [Request -> Task]
  BY DEF TypeOK
<1>2. \A r \in Request : task'[r] = task[r] \/ task'[r].at \notin {"create", "units", "drop"}
  BY <1>1
<1>3. HomelessBlamed'
  BY DEF Blamed, HomelessBlamed, rows
<1>4. OneMaker'
  BY <1>2 DEF Blamed, OneMaker
<1>5. NewIsNew'
  BY <1>2 DEF Blamed, NewIsNew, rows
<1>6. LateIsAstray'
  BY <1>2 DEF Blamed, LateIsAstray, rows
<1> QED
  BY <1>3, <1>4, <1>5, <1>6 DEF Blamed

LEMMA PropertyKeepsBlamed ==
  ASSUME TypeOK, Blamed, NEW q \in Request, PropertyStep(q)
  PROVE  Blamed'
<1> DEFINE Rest == {r \in Request : r # q}
<1>0. task \in [Request -> Task]
  BY DEF TypeOK
<1>1. ASSUME NEW p \in Property, LetCreate(q, p) PROVE Blamed'
  <2>1. /\ \A r \in Rest : task'[r] = task[r]
        /\ task'[q].at = "create" /\ task'[q].property = p
    BY <1>0, <1>1 DEF LetCreate
  <2>2. \A r \in Rest : task[r].at = "create" => task[r].property # p
    BY <1>1 DEF LetCreate, LetIn
  <2>3. UNCHANGED <<prop, home, astray>> /\ prop[p] = "new"
    BY <1>1 DEF LetCreate, rows
  <2>4. HomelessBlamed'
    BY <2>3 DEF Blamed, HomelessBlamed
  <2>5. OneMaker'
    BY <2>1, <2>2 DEF Blamed, OneMaker
  <2>6. NewIsNew'
    BY <2>1, <2>3 DEF Blamed, NewIsNew
  <2>7. LateIsAstray'
    BY <2>1, <2>3 DEF Blamed, LateIsAstray
  <2> QED
    BY <2>4, <2>5, <2>6, <2>7 DEF Blamed
<1>2. ASSUME NEW p \in Property, FindForDeletion(q, p) PROVE Blamed'
  <2>1. /\ \A r \in Rest : task'[r] = task[r]
        /\ task'[q].at = "units" /\ task'[q].property = p
    BY <1>0, <1>2 DEF FindForDeletion
  <2>2. UNCHANGED <<prop, home, astray>> /\ prop[p] # "new"
    BY <1>2 DEF FindForDeletion, rows, Existing
  <2>3. HomelessBlamed'
    BY <2>2 DEF Blamed, HomelessBlamed
  <2>4. OneMaker'
    BY <2>1 DEF Blamed, OneMaker
  <2>5. NewIsNew'
    BY <2>1, <2>2 DEF Blamed, NewIsNew
  <2>6. LateIsAstray'
    BY <2>1, <2>2 DEF Blamed, LateIsAstray
  <2> QED
    BY <2>3, <2>4, <2>5, <2>6 DEF Blamed
<1>3. ASSUME NEW p \in Property, NEW us \in SUBSET Unit, FindForUnits(q, p, us) PROVE Blamed'
  <2>1. [at |-> "add", property |-> IF p \in Existing THEN p ELSE Orphan, units |-> us] \in Task
    BY DEF Task
  <2> QED
    BY <1>3, <2>1, MovesKeepBlamed DEF FindForUnits
<1>4. ASSUME NEW us \in SUBSET Unit, CreateProperty(q, us) PROVE Blamed'
  <2> DEFINE p == task[q].property
  <2>1. /\ \A r \in Rest : task'[r] = task[r]
        /\ task'[q].at = "idle"
    BY <1>0, <1>4, IdleType DEF CreateProperty
  <2>2. p \in Property /\ p # Orphan
    BY <1>4, TaskType, PortfolioAssumption DEF CreateProperty, Creating
  <2>3. /\ prop' = [prop EXCEPT ![p] = "open"]
        /\ home' = [u \in DOMAIN home \cup us |-> IF u \in us THEN p ELSE home[u]]
        /\ astray' = astray
    BY <1>4 DEF CreateProperty
  <2>4. /\ \A r \in Rest : task[r].at = "create" => task[r].property # p
        /\ \A r \in Rest : task[r].at \in {"units", "drop"} => task[r].property # p
    BY <1>4 DEF CreateProperty, Blamed, OneMaker, NewIsNew
  <2>5. HomelessBlamed'
    BY <2>2, <2>3 DEF Blamed, HomelessBlamed
  <2>6. OneMaker'
    BY <2>1 DEF Blamed, OneMaker
  <2>7. NewIsNew'
    <3>1. \A x \in Property : x # p => prop'[x] = prop[x]
      BY <2>3 DEF TypeOK
    <3>2. \A r \in Request :
            task[r].at \in {"create", "units", "drop"} => task[r].property \in Property
      BY TaskType DEF Creating, Deleting
    <3> QED
      BY <2>1, <2>4, <3>1, <3>2 DEF Blamed, NewIsNew
  <2>8. LateIsAstray'
    BY <2>1, <2>3, <2>4 DEF Blamed, LateIsAstray
  <2> QED
    BY <2>5, <2>6, <2>7, <2>8 DEF Blamed
<1>5. CASE AddUnits(q)
  <2> DEFINE p == task[q].property
             us == task[q].units \ DOMAIN home
  <2>1. /\ \A r \in Rest : task'[r] = task[r]
        /\ task'[q].at = "idle" /\ task[q].at = "add" /\ prop' = prop
    BY <1>0, <1>5, IdleType DEF AddUnits
  <2>2. \/ UNCHANGED <<home, astray>>
        \/ /\ p = Orphan \/ p \in Existing
           /\ home' = [u \in DOMAIN home \cup us |-> IF u \in us THEN p ELSE home[u]]
           /\ astray' = IF p = Orphan \/ BeingDeleted(p) THEN astray \cup us ELSE astray
    BY <1>5 DEF AddUnits
  <2>3. \A r \in Rest : task[r].at = "drop" /\ task[r].property = p => BeingDeleted(p)
    BY DEF BeingDeleted
  <2>4. UNCHANGED <<home, astray>> => HomelessBlamed' /\ LateIsAstray'
    BY <2>1 DEF Blamed, HomelessBlamed, LateIsAstray
  <2>5. OneMaker' /\ NewIsNew'
    BY <2>1 DEF Blamed, OneMaker, NewIsNew
  <2> HIDE DEF p, us
  <2>6. ASSUME home' = [u \in DOMAIN home \cup us |-> IF u \in us THEN p ELSE home[u]],
               astray' = IF p = Orphan \/ BeingDeleted(p) THEN astray \cup us ELSE astray
        PROVE  HomelessBlamed' /\ LateIsAstray'
    <3>1. HomelessBlamed'
      BY <2>6 DEF Blamed, HomelessBlamed
    <3>2. ASSUME NEW r \in Request, NEW u \in DOMAIN home', task'[r].at = "drop",
                 home'[u] = task'[r].property, u \notin task'[r].gone
          PROVE  u \in astray'
      <4>1. r \in Rest /\ task'[r] = task[r]
        BY <2>1, <3>2
      <4>2. CASE u \in us
        BY <2>3, <2>6, <3>2, <4>1, <4>2
      <4>3. CASE u \notin us
        BY <2>6, <3>2, <4>1, <4>3 DEF Blamed, LateIsAstray
      <4> QED
        BY <4>2, <4>3
    <3> QED
      BY <3>1, <3>2 DEF LateIsAstray
  <2> QED
    BY <2>2, <2>4, <2>5, <2>6 DEF Blamed
<1>6. CASE DeleteUnits(q)
  <2> DEFINE p == task[q].property
  <2>1. task[q] \in Deleting /\ task[q].at = "units"
    BY <1>6, TaskType DEF DeleteUnits
  <2>2. /\ \A r \in Rest : task'[r] = task[r]
        /\ task'[q].at = "drop" /\ task'[q].property = p /\ task'[q].gone = UnitsOf(p)
    BY <1>0, <1>6, <2>1 DEF DeleteUnits, Deleting
  <2>3. UNCHANGED <<prop, home, astray>>
    BY <1>6 DEF DeleteUnits, rows
  <2>4. HomelessBlamed'
    BY <2>3 DEF Blamed, HomelessBlamed
  <2>5. OneMaker'
    BY <2>2 DEF Blamed, OneMaker
  <2>6. NewIsNew'
    BY <2>1, <2>2, <2>3 DEF Blamed, NewIsNew
  <2>7. LateIsAstray'
    BY <2>2, <2>3 DEF Blamed, LateIsAstray, UnitsOf
  <2> QED
    BY <2>4, <2>5, <2>6, <2>7 DEF Blamed
<1>7. CASE DropProperty(q)
  <2> DEFINE p == task[q].property
             gone == task[q].gone
  <2>1. task[q] \in Deleting /\ task[q].at = "drop"
    BY <1>7, TaskType DEF DropProperty
  <2>2. /\ \A r \in Rest : task'[r] = task[r]
        /\ task'[q].at = "idle"
    BY <1>0, <1>7, IdleType DEF DropProperty
  <2>3. /\ prop' = [prop EXCEPT ![p] = "deleted"]
        /\ home' = [u \in DOMAIN home \ gone |-> IF home[u] = p THEN Orphan ELSE home[u]]
        /\ astray' = astray
    BY <1>7 DEF DropProperty
  <2>4. \A r \in Request : task[r].at \in {"create", "units", "drop"} =>
          task[r].property \in Property /\ task[r].property # Orphan
    BY TaskType, PortfolioAssumption DEF Creating, Deleting
  <2>5. \A u \in DOMAIN home : home[u] = p /\ u \notin gone => u \in astray
    BY <2>1 DEF Blamed, LateIsAstray
  <2>6. \A r \in Rest : task[r].at = "create" => task[r].property # p
    BY <2>1 DEF Blamed, NewIsNew
  <2> HIDE DEF p, gone
  <2>7. HomelessBlamed'
    BY <2>3, <2>5 DEF Blamed, HomelessBlamed
  <2>8. OneMaker'
    BY <2>2 DEF Blamed, OneMaker
  <2>9. NewIsNew'
    <3>1. \A x \in Property : prop'[x] = IF x = p THEN "deleted" ELSE prop[x]
      BY <2>3 DEF TypeOK
    <3> QED
      BY <2>2, <2>4, <2>6, <3>1 DEF Blamed, NewIsNew
  <2>10. LateIsAstray'
    BY <2>2, <2>3, <2>4 DEF Blamed, LateIsAstray
  <2> QED
    BY <2>7, <2>8, <2>9, <2>10 DEF Blamed
<1>8. CASE Fail(q)
  BY <1>8, IdleType, MovesKeepBlamed DEF Fail
<1> QED
  BY <1>1, <1>2, <1>3, <1>4, <1>5, <1>6, <1>7, <1>8 DEF PropertyStep

LEMMA PlanKeepsBlamed ==
  ASSUME TypeOK, Blamed, NEW q \in Request, PlanStep(q)
  PROVE  Blamed'
<1>1. ASSUME NEW n \in Plan, UpgradePlan(q, n) \/ DowngradePlan(q, n) PROVE Blamed'
  <2>1. [at |-> "change", plan |-> n] \in Task
    BY DEF Task
  <2> QED
    BY <1>1, <2>1, MovesKeepBlamed DEF UpgradePlan, DowngradePlan
<1>2. CASE ReadSubscription(q)
  <2>1. PICK x \in Active : Go(q, [at |-> "update", row |-> x, plan |-> task[q].plan])
    BY <1>2 DEF ReadSubscription
  <2>2. [at |-> "update", row |-> x, plan |-> task[q].plan] \in Task
    BY <1>2, TaskType DEF ReadSubscription, Active, Changing, Task
  <2> QED
    BY <1>2, <2>1, <2>2, MovesKeepBlamed DEF ReadSubscription
<1>3. CASE UpdateSubscription(q)
  BY <1>3, IdleType, MovesKeepBlamed DEF UpdateSubscription
<1> QED
  BY <1>1, <1>2, <1>3 DEF PlanStep

LEMMA StepKeepsBlamed == TypeOK /\ Blamed /\ [Next]_vars => Blamed'
<1> SUFFICES ASSUME TypeOK, Blamed, [Next]_vars PROVE Blamed'
  OBVIOUS
<1> USE DEF Blamed, HomelessBlamed, OneMaker, NewIsNew, LateIsAstray
<1>1. CASE UNCHANGED vars
  BY <1>1 DEF vars
<1>2. ASSUME NEW p \in Property, Archive(p) PROVE Blamed'
  <2>1. \A x \in Property : (prop'[x] = "new") <=> (prop[x] = "new")
    BY <1>2 DEF Archive, TypeOK
  <2>2. \A r \in Request :
          task[r].at \in {"create", "units", "drop"} => task[r].property \in Property
    BY TaskType DEF Creating, Deleting
  <2>3. UNCHANGED <<home, task, astray>>
    BY <1>2 DEF Archive
  <2> QED
    BY <2>1, <2>2, <2>3
<1>3. ASSUME NEW x \in Row, NEW n \in Plan, SubscribeToPlan(x, n) PROVE Blamed'
  BY <1>3 DEF SubscribeToPlan, rows
<1>4. CASE Recount \/ SubscriptionExpires
  BY <1>4 DEF Recount, SubscriptionExpires, rows
<1>5. CASE Crash
  BY <1>5, IdleType DEF Crash, rows
<1> QED
  BY <1>1, <1>2, <1>3, <1>4, <1>5, PropertyKeepsBlamed, PlanKeepsBlamed DEF Next

\* A unit without a property was added to none, or while its property was being deleted:
\* nothing else leaves a unit behind.
THEOREM HomelessBlamedAlways == Spec => []HomelessBlamed
<1>1. Init => Blamed
  BY DEF Init, Blamed, HomelessBlamed, OneMaker, NewIsNew, LateIsAstray, Idle
<1>2. Blamed => HomelessBlamed
  BY DEF Blamed
<1> QED
  BY <1>1, <1>2, InitTypes, StepTypes, StepKeepsBlamed, PTL DEF Spec
================================================================================
