-------------------------- MODULE PropertyUpdateProofs --------------------------
(* Proofs about PropertyUpdate, for any requests, units, bodies and size of  *)
(* the pool.                                                                 *)
EXTENDS PropertyUpdate, FiniteSetTheorems, TLAPS

PartState == {"none", "wait", "open", "cleared", "done", "failed"}

-----------------------------------------------------------------------------
(* Types.                                                                    *)

LEMMA InitTypes == Init => TypeOK
BY DEF Init, TypeOK, Stage, Body, Columns

\* A part of a request changes.
LEMMA PartTypes ==
  ASSUME TypeOK, NEW u \in Update, NEW p \in Part, NEW s \in PartState,
         part' = [part EXCEPT ![u][p] = s]
  PROVE  part' \in [Update -> [Part -> PartState]]
BY DEF TypeOK, PartState

LEMMA StageTypes ==
  ASSUME TypeOK, NEW u \in Update, NEW s \in Stage, stage' = [stage EXCEPT ![u] = s]
  PROVE  stage' \in [Update -> Stage]
BY DEF TypeOK

\* Rows that are taken, or let go, have at most one holder.
LEMMA LockTypes ==
  ASSUME TypeOK, NEW u \in Update, LetGo(u) \/ (\E l \in Lockable : Take(l, u)) \/ UNCHANGED lock
  PROVE  lock' \in [Lockable -> Update \cup {NoUpdate}]
BY DEF TypeOK, LetGo, Take

LEMMA UnitIsPart == Unit \subseteq Part /\ "images" \in Part
BY DEF Part

\* The steps of an update: its own, and those of its parts.
OwnStep(u) ==
  \/ \E b \in Bodies : Arrive(u, b)
  \/ Begin(u) \/ Find(u) \/ UpdateAddress(u) \/ Compare(u) \/ StartParts(u)
  \/ Commit(u) \/ RollBack(u) \/ Answer(u)

PartStep(u) ==
  \/ \E n \in Unit : OpenUnit(u, n) \/ UpdateUnit(u, n)
  \/ ClearImages(u) \/ SaveImages(u)
  \/ \E p \in Part : PartFails(u, p)

LEMMA NextSteps == Next => \E u \in Update : OwnStep(u) \/ PartStep(u)
BY DEF Next, GoesOn, PartGoesOn, OwnStep, PartStep

LEMMA OwnTypes ==
  ASSUME TypeOK, NEW u \in Update, OwnStep(u)
  PROVE  TypeOK'
<1>1. ASSUME NEW b \in Bodies, Arrive(u, b) PROVE TypeOK'
  <2>1. b \in Body
    BY PropertyUpdateAssumption
  <2>2. stage' \in [Update -> Stage] /\ body' \in [Update -> Body]
    BY <1>1, <2>1 DEF Arrive, TypeOK, Stage
  <2> QED
    BY <1>1, <2>2 DEF Arrive, TypeOK
<1>2. CASE Begin(u)
  BY <1>2 DEF Begin, TypeOK, Stage
<1>3. CASE Find(u)
  BY <1>3 DEF Find, TypeOK, Stage
<1>4. CASE Compare(u)
  <2>1. writes' \in [Update -> Columns] /\ stage' \in [Update -> Stage]
    BY <1>4 DEF Compare, TypeOK, Stage
  <2> QED
    BY <1>4, <2>1 DEF Compare, TypeOK
<1>5. CASE StartParts(u)
  <2>1. lock' \in [Lockable -> Update \cup {NoUpdate}]
    BY <1>5, LockTypes DEF StartParts, Lockable
  <2> QED
    BY <1>5, <2>1 DEF StartParts, TypeOK, Stage
<1>9. CASE UpdateAddress(u)
  <2>1. lock' \in [Lockable -> Update \cup {NoUpdate}]
    BY <1>9, LockTypes DEF UpdateAddress, Lockable
  <2> QED
    BY <1>9, <2>1 DEF UpdateAddress, TypeOK, Stage
<1>6. CASE Commit(u)
  <2>1. MergedTags(u) \in SUBSET Update
    BY DEF MergedTags, TypeOK
  <2>2. tags' \in SUBSET Update
    BY <1>6, <2>1 DEF Commit, TypeOK
  <2>3. stage' \in [Update -> Stage]
    BY <1>6 DEF Commit, TypeOK, Stage
  <2>4. lock' \in [Lockable -> Update \cup {NoUpdate}]
    BY <1>6, LockTypes DEF Commit
  <2> QED
    BY <1>6, <2>2, <2>3, <2>4 DEF Commit, TypeOK
<1>7. CASE RollBack(u)
  <2>1. lock' \in [Lockable -> Update \cup {NoUpdate}]
    BY <1>7, LockTypes DEF RollBack
  <2> QED
    BY <1>7, <2>1 DEF RollBack, TypeOK, Stage
<1>8. CASE Answer(u)
  <2>1. stage' \in [Update -> Stage]
    BY <1>8 DEF Answer, TypeOK, Stage
  <2> QED
    BY <1>8, <2>1 DEF Answer, TypeOK
<1> QED
  BY <1>1, <1>2, <1>3, <1>4, <1>5, <1>6, <1>7, <1>8, <1>9 DEF OwnStep

LEMMA PartStepTypes ==
  ASSUME TypeOK, NEW u \in Update, PartStep(u)
  PROVE  TypeOK'
<1> USE DEF PartState
<1>1. ASSUME NEW n \in Unit, OpenUnit(u, n) PROVE TypeOK'
  BY <1>1, PartTypes, UnitIsPart DEF OpenUnit, TypeOK
<1>2. ASSUME NEW n \in Unit, UpdateUnit(u, n) PROVE TypeOK'
  BY <1>2, PartTypes, UnitIsPart DEF UpdateUnit, TypeOK
<1>3. CASE ClearImages(u)
  BY <1>3, PartTypes, UnitIsPart DEF ClearImages, TypeOK
<1>4. CASE SaveImages(u)
  BY <1>4, PartTypes, UnitIsPart DEF SaveImages, TypeOK
<1>5. ASSUME NEW p \in Part, PartFails(u, p) PROVE TypeOK'
  BY <1>5, PartTypes DEF PartFails, TypeOK
<1> QED
  BY <1>1, <1>2, <1>3, <1>4, <1>5 DEF PartStep

LEMMA StepTypes == TypeOK /\ [Next]_vars => TypeOK'
<1>1. TypeOK /\ UNCHANGED vars => TypeOK'
  BY DEF vars, TypeOK
<1> QED
  BY <1>1, NextSteps, OwnTypes, PartStepTypes

\* Stages, parts, tags and locks stay well formed.
THEOREM Typing == Spec => []TypeOK
BY InitTypes, StepTypes, PTL DEF Spec

-----------------------------------------------------------------------------
(* What is answered as done.                                                 *)

\* Committed means that all parts are done, a unit whose part is done was written by someone,
\* and the parts of an update have not begun before its row is written.
Applied(u) ==
  /\ stage[u] \in {"emit", "ok"} => \A p \in Parts(body[u]) : part[u][p] = "done"
  /\ \A n \in Unit : part[u][n] = "done" => unit[n] # NoUpdate
  /\ stage[u] \in {"idle", "begin", "find", "address", "save", "lock"} =>
       \A p \in Part : part[u][p] = "none"

AllApplied == \A u \in Update : Applied(u)

\* What one request does leaves what another has done.
LEMMA OthersApplied ==
  ASSUME TypeOK, AllApplied, NEW v \in Update,
         stage'[v] = stage[v], body'[v] = body[v], part'[v] = part[v],
         \A n \in Unit : unit[n] # NoUpdate => unit'[n] # NoUpdate
  PROVE  Applied(v)'
BY DEF AllApplied, Applied, Parts

LEMMA OwnApplied ==
  ASSUME TypeOK, AllApplied, NEW u \in Update, OwnStep(u)
  PROVE  AllApplied'
<1>1. unit' = unit
  BY DEF OwnStep, Arrive, Begin, Find, UpdateAddress, Compare, StartParts, Commit, RollBack, Answer
<1>2. \A v \in Update : v # u => stage'[v] = stage[v] /\ body'[v] = body[v] /\ part'[v] = part[v]
  BY DEF OwnStep, Arrive, Begin, Find, UpdateAddress, Compare, StartParts, Commit, RollBack, Answer,
         TypeOK
<1>3. \A v \in Update : v # u => Applied(v)'
  BY <1>1, <1>2, OthersApplied
<1>4. Applied(u)
  BY DEF AllApplied
<1>5. Applied(u)'
  <2>1. ASSUME NEW b \in Bodies, Arrive(u, b) PROVE Applied(u)'
    BY <2>1, <1>4 DEF Arrive, Applied, TypeOK
  <2>2. CASE Begin(u) \/ Find(u) \/ UpdateAddress(u) \/ Compare(u)
    BY <2>2, <1>4 DEF Begin, Find, UpdateAddress, Compare, Applied, TypeOK
  <2>3. CASE StartParts(u)
    <3>1. stage'[u] = "parts" /\ unit' = unit
      BY <2>3 DEF StartParts, TypeOK
    <3>2. \A p \in Part : part'[u][p] # "done"
      BY <2>3 DEF StartParts, TypeOK
    <3> QED
      BY <3>1, <3>2, UnitIsPart DEF Applied
  <2>4. CASE Commit(u)
    <3>1. stage'[u] = "emit" /\ UNCHANGED <<body, part, unit>>
      BY <2>4 DEF Commit, TypeOK
    <3> QED
      BY <2>4, <1>4, <3>1 DEF Commit, Applied, Parts
  <2>5. CASE RollBack(u)
    <3>1. stage'[u] = "failed" /\ UNCHANGED <<body, part, unit>>
      BY <2>5 DEF RollBack, TypeOK
    <3> QED
      BY <1>4, <3>1 DEF Applied, Parts
  <2>6. CASE Answer(u)
    <3>1. stage[u] = "emit" /\ stage'[u] \in {"ok", "failed"} /\ UNCHANGED <<body, part, unit>>
      BY <2>6 DEF Answer, TypeOK
    <3> QED
      BY <1>4, <3>1 DEF Applied, Parts
  <2> QED
    BY <2>1, <2>2, <2>3, <2>4, <2>5, <2>6 DEF OwnStep
<1> QED
  BY <1>3, <1>5 DEF AllApplied

\* A part that is still to come, or fails, belongs to no committed update.
LEMMA PartMoves ==
  ASSUME TypeOK, AllApplied, NEW u \in Update, NEW p \in Part, NEW s \in PartState,
         part[u][p] \in {"wait", "open", "cleared"},
         part' = [part EXCEPT ![u][p] = s], UNCHANGED <<stage, body>>,
         \A n \in Unit : unit[n] # NoUpdate => unit'[n] # NoUpdate,
         s = "done" /\ p \in Unit => unit'[p] # NoUpdate
  PROVE  AllApplied'
<1>1. /\ \A v \in Update : v # u => part'[v] = part[v]
      /\ \A r \in Part : part'[u][r] = IF r = p THEN s ELSE part[u][r]
  BY DEF TypeOK
<1>2. \A v \in Update : v # u => Applied(v)'
  BY <1>1, OthersApplied
<1>3. Applied(u)
  BY DEF AllApplied
<1>4. body[u] \in Body
  BY DEF TypeOK
<1>5. Parts(body[u]) \subseteq Part
  BY <1>4 DEF Parts, Part, Body
<1>6. stage[u] \in {"emit", "ok"} => p \notin Parts(body[u])
  BY <1>3 DEF Applied
<1>7. stage[u] \notin {"idle", "begin", "find", "address", "save", "lock"}
  BY <1>3 DEF Applied
<1>8. Applied(u)'
  BY <1>1, <1>3, <1>5, <1>6, <1>7, UnitIsPart DEF Applied
<1> QED
  BY <1>2, <1>8 DEF AllApplied

LEMMA PartApplied ==
  ASSUME TypeOK, AllApplied, NEW u \in Update, PartStep(u)
  PROVE  AllApplied'
<1> USE DEF PartState
<1>1. ASSUME NEW n \in Unit, OpenUnit(u, n) PROVE AllApplied'
  BY <1>1, PartMoves, UnitIsPart DEF OpenUnit
<1>2. ASSUME NEW n \in Unit, UpdateUnit(u, n) PROVE AllApplied'
  <2>1. \A m \in Unit : unit'[m] = IF m = n THEN u ELSE unit[m]
    BY <1>2 DEF UpdateUnit, TypeOK
  <2> QED
    BY <1>2, <2>1, PartMoves, UnitIsPart, PropertyUpdateAssumption DEF UpdateUnit
<1>3. CASE ClearImages(u)
  BY <1>3, PartMoves, UnitIsPart DEF ClearImages
<1>4. CASE SaveImages(u)
  BY <1>4, PartMoves, UnitIsPart, PropertyUpdateAssumption DEF SaveImages
<1>5. ASSUME NEW p \in Part, PartFails(u, p) PROVE AllApplied'
  BY <1>5, PartMoves DEF PartFails
<1> QED
  BY <1>1, <1>2, <1>3, <1>4, <1>5 DEF PartStep

\* Applied is inductive, with the types.
THEOREM AppliedAlways == Spec => []AllApplied
<1>1. Init => AllApplied
  <2> SUFFICES ASSUME Init, NEW u \in Update PROVE Applied(u)
    BY DEF AllApplied
  <2>1. stage[u] = "idle" /\ \A p \in Part : part[u][p] = "none"
    BY DEF Init
  <2> QED
    BY <2>1, UnitIsPart DEF Applied
<1>2. TypeOK /\ AllApplied /\ [Next]_vars => AllApplied'
  <2> SUFFICES ASSUME TypeOK, AllApplied, [Next]_vars PROVE AllApplied'
    OBVIOUS
  <2>1. CASE UNCHANGED vars
    BY <2>1 DEF vars, AllApplied, Applied, Parts
  <2>2. CASE Next
    BY <2>2, NextSteps, OwnApplied, PartApplied
  <2> QED
    BY <2>1, <2>2
<1> QED
  BY <1>1, <1>2, Typing, PTL DEF Spec

\* An update answered as done was applied as a whole, however its parts, on connections of
\* their own, interleave with those of other updates and whichever of them fail.
THEOREM OkMeansWholeAlways == Spec => []OkMeansWhole
<1>1. TypeOK /\ AllApplied => OkMeansWhole
  <2> SUFFICES ASSUME TypeOK, AllApplied, NEW u \in Update, stage[u] = "ok"
               PROVE  /\ \A p \in Parts(body[u]) : part[u][p] = "done"
                      /\ \A n \in body[u].units : unit[n] # NoUpdate
    BY DEF OkMeansWhole
  <2>1. Applied(u) /\ body[u].units \subseteq Unit
    BY DEF AllApplied, TypeOK, Body
  <2>2. body[u].units \subseteq Parts(body[u])
    BY DEF Parts
  <2> QED
    BY <2>1, <2>2 DEF Applied
<1> QED
  BY <1>1, Typing, AppliedAlways, PTL

-----------------------------------------------------------------------------
(* Tags.                                                                     *)

\* A tag disappears only by an update that had read the property before the tag was there.
THEOREM TagsLostUnseenAlways == Spec => TagsLostUnseen
<1>1. TypeOK /\ [Next]_vars => [LostUnseen]_vars
  <2> SUFFICES ASSUME TypeOK, [Next]_vars, NEW t \in tags \ tags'
               PROVE  \E u \in Update : stage[u] = "parts" /\ stage'[u] = "emit" /\ t \notin seen[u]
    BY DEF LostUnseen
  <2>1. PICK u \in Update : OwnStep(u) \/ PartStep(u)
    BY NextSteps DEF vars
  <2>2. Commit(u)
    BY <2>1 DEF OwnStep, PartStep, Arrive, Begin, Find, UpdateAddress, Compare, StartParts,
                RollBack, Answer, OpenUnit, UpdateUnit, ClearImages, SaveImages, PartFails
  <2>3. stage[u] = "parts" /\ stage'[u] = "emit"
    BY <2>2 DEF Commit, TypeOK
  <2>4. t \notin MergedTags(u)
    BY <2>2 DEF Commit
  <2> QED
    BY <2>3, <2>4 DEF MergedTags
<1> QED
  BY <1>1, Typing, PTL DEF Spec, TagsLostUnseen

-----------------------------------------------------------------------------
(* Who waits for whom.                                                       *)

\* The transactions under way have the connections, and there are no more than the pool has.
Pooled ==
  /\ IsFiniteSet(Outer) /\ IsFiniteSet(Inner)
  /\ Cardinality(Outer) + Cardinality(Inner) <= PoolSize

\* The row is locked by the update that has changed it and whose parts are under way, and the
\* address by the one that has come past it; units and images go through stages of their own.
HasRow(u) == stage[u] = "parts" /\ writes[u] # "none"
HasAddress(u) == stage[u] \in {"save", "lock", "parts"} /\ body[u].address

Locked ==
  \A u \in Update :
    /\ HasRow(u) <=> lock["property"] = u
    /\ HasAddress(u) <=> lock["address"] = u
    /\ stage[u] = "address" => body[u].address
    /\ stage[u] = "parts" => \A p \in Parts(body[u]) : part[u][p] # "none"
    /\ part[u]["images"] # "open" /\ \A n \in Unit : part[u][n] # "cleared"

Accounted == Pooled /\ Locked

\* What the pool counts are numbers.
LEMMA Cardinals ==
  ASSUME NEW S, IsFiniteSet(S)
  PROVE  Cardinality(S) \in Nat /\ PoolSize \in Nat \ {0}
BY FS_CardinalityType, PropertyUpdateAssumption

\* Connections given back.
LEMMA PoolShrinks ==
  ASSUME Pooled, Outer' \subseteq Outer, Inner' \subseteq Inner
  PROVE  Pooled'
<1>1. /\ IsFiniteSet(Outer') /\ Cardinality(Outer') <= Cardinality(Outer)
      /\ IsFiniteSet(Inner') /\ Cardinality(Inner') <= Cardinality(Inner)
  BY FS_Subset DEF Pooled
<1> QED
  BY <1>1, Cardinals DEF Pooled

\* A connection taken, where one was free.
LEMMA PoolGrows ==
  ASSUME Pooled, FreeConnection, NEW x,
         \/ Outer' = Outer \cup {x} /\ Inner' = Inner
         \/ Outer' = Outer /\ Inner' = Inner \cup {x}
  PROVE  Pooled'
<1>1. /\ IsFiniteSet(Outer) /\ IsFiniteSet(Inner)
      /\ Cardinality(Outer) \in Nat /\ Cardinality(Inner) \in Nat
  BY Cardinals DEF Pooled
<1>2. ASSUME NEW S, IsFiniteSet(S), Cardinality(S) \in Nat
      PROVE  /\ IsFiniteSet(S \cup {x}) /\ Cardinality(S \cup {x}) \in Nat
             /\ Cardinality(S \cup {x}) <= Cardinality(S) + 1
  <2>1. /\ IsFiniteSet(S \cup {x})
        /\ Cardinality(S \cup {x}) = IF x \in S THEN Cardinality(S) ELSE Cardinality(S) + 1
    BY <1>2, FS_AddElement
  <2> QED
    BY <1>2, <2>1
<1>3. PoolSize \in Nat /\ Cardinality(Outer) + Cardinality(Inner) < PoolSize
  BY PropertyUpdateAssumption DEF FreeConnection
<1>4. CASE Outer' = Outer \cup {x} /\ Inner' = Inner
  BY <1>1, <1>2, <1>3, <1>4 DEF Pooled
<1>5. CASE Outer' = Outer /\ Inner' = Inner \cup {x}
  BY <1>1, <1>2, <1>3, <1>5 DEF Pooled
<1> QED
  BY <1>4, <1>5

\* A transaction of its own takes a connection only where one is free.
LEMMA OwnPooled ==
  ASSUME TypeOK, AllApplied, Pooled, NEW u \in Update, OwnStep(u)
  PROVE  Pooled'
<1>1. \A v \in Update : v # u => stage'[v] = stage[v] /\ part'[v] = part[v]
  BY DEF OwnStep, Arrive, Begin, Find, UpdateAddress, Compare, StartParts, Commit, RollBack, Answer,
         TypeOK
<1>2. Inner' \subseteq Inner /\ (part' = part => Inner' = Inner)
  <2>1. part' # part => StartParts(u)
    BY DEF OwnStep, Arrive, Begin, Find, UpdateAddress, Compare, Commit, RollBack, Answer
  <2>2. StartParts(u) => \A n \in Unit : part'[u][n] # "open"
    BY UnitIsPart DEF StartParts, TypeOK
  <2> QED
    BY <1>1, <2>1, <2>2 DEF Inner
<1>3. CASE Begin(u)
  <2>1. FreeConnection /\ Outer' = Outer \cup {u} /\ Inner' = Inner
    BY <1>1, <1>2, <1>3 DEF Begin, Outer, TypeOK
  <2> QED
    BY <2>1, PoolGrows
<1>4. CASE ~Begin(u)
  <2>1. u \in Outer' => u \in Outer
    BY <1>4 DEF OwnStep, Arrive, Find, UpdateAddress, Compare, StartParts, Commit, RollBack,
                Answer, Outer, TypeOK
  <2>2. Outer' \subseteq Outer
    BY <1>1, <2>1 DEF Outer
  <2> QED
    BY <1>2, <2>2, PoolShrinks
<1> QED
  BY <1>3, <1>4

\* So does a part.
LEMMA PartPooled ==
  ASSUME TypeOK, Pooled, NEW u \in Update, PartStep(u)
  PROVE  Pooled'
<1>1. Outer' = Outer
  BY DEF PartStep, OpenUnit, UpdateUnit, ClearImages, SaveImages, PartFails, Outer
<1>2. ASSUME NEW n \in Unit, OpenUnit(u, n) PROVE Pooled'
  <2>1. \A v \in Update, m \in Unit :
          part'[v][m] = IF <<v, m>> = <<u, n>> THEN "open" ELSE part[v][m]
    BY <1>2, UnitIsPart DEF OpenUnit, TypeOK
  <2>2. Inner' = Inner \cup {<<u, n>>}
    BY <2>1 DEF Inner
  <2> QED
    BY <1>1, <1>2, <2>2, PoolGrows DEF OpenUnit
<1>3. ASSUME NEW p \in Part, NEW s, s # "open", part' = [part EXCEPT ![u][p] = s]
      PROVE  Pooled'
  <2>1. \A v \in Update, m \in Unit :
          part'[v][m] = IF v = u /\ m = p THEN s ELSE part[v][m]
    BY <1>3, UnitIsPart DEF TypeOK
  <2>2. Inner' \subseteq Inner
    BY <1>3, <2>1 DEF Inner
  <2> QED
    BY <1>1, <2>2, PoolShrinks
<1> QED
  BY <1>2, <1>3, UnitIsPart DEF PartStep, UpdateUnit, ClearImages, SaveImages, PartFails

\* What one update takes or lets go is not what another holds.
LEMMA OthersKeep ==
  ASSUME TypeOK, NEW u \in Update, NEW v \in Update, v # u, NEW l \in Lockable,
         LetGo(u) \/ (\E k \in Lockable : Take(k, u)) \/ UNCHANGED lock
  PROVE  lock'[l] = v <=> lock[l] = v
BY PropertyUpdateAssumption DEF TypeOK, LetGo, Take

\* Rows are locked as they are written and let go as the update commits or rolls back.
LEMMA OwnLocked ==
  ASSUME TypeOK, AllApplied, Locked, NEW u \in Update, OwnStep(u)
  PROVE  Locked'
<1> DEFINE Fine(v) == /\ HasRow(v) <=> lock["property"] = v
                      /\ HasAddress(v) <=> lock["address"] = v
                      /\ stage[v] = "address" => body[v].address
                      /\ stage[v] = "parts" => \A p \in Parts(body[v]) : part[v][p] # "none"
                      /\ part[v]["images"] # "open" /\ \A n \in Unit : part[v][n] # "cleared"
<1>1. \A v \in Update : Fine(v)
  BY DEF Locked
<1>2. \A v \in Update : v # u => /\ stage'[v] = stage[v] /\ body'[v] = body[v]
                                 /\ part'[v] = part[v] /\ writes'[v] = writes[v]
  BY DEF OwnStep, Arrive, Begin, Find, UpdateAddress, Compare, StartParts, Commit, RollBack, Answer,
         TypeOK
<1>3. LetGo(u) \/ (\E k \in Lockable : Take(k, u)) \/ UNCHANGED lock
  BY DEF OwnStep, Arrive, Begin, Find, UpdateAddress, Compare, StartParts, Commit, RollBack, Answer,
         Lockable
<1>4. "address" \in Lockable /\ "property" \in Lockable
  BY DEF Lockable
<1>5. \A v \in Update : v # u => Fine(v)'
  BY <1>1, <1>2, <1>3, <1>4, OthersKeep DEF Parts, HasRow, HasAddress
<1>6. \A l \in Lockable : LetGo(u) => lock'[l] # u
  BY PropertyUpdateAssumption DEF LetGo
<1>7. \A l \in Lockable, k \in Lockable :
        Take(k, u) => lock'[l] = IF l = k THEN u ELSE lock[l]
  BY DEF Take, TypeOK
<1>8. Fine(u)'
  <2>1. CASE StartParts(u)
    <3>1. body[u] \in Body /\ UNCHANGED <<body, writes>>
      BY <2>1 DEF StartParts, TypeOK
    <3>2. Parts(body[u]) \subseteq Part
      BY <3>1 DEF Parts, Part, Body
    <3>3. \A p \in Part : part'[u][p] = IF p \in Parts(body[u]) THEN "wait" ELSE "none"
      BY <2>1 DEF StartParts, TypeOK
    <3>4. stage[u] = "lock" /\ stage'[u] = "parts"
      BY <2>1 DEF StartParts, TypeOK
    <3>5. HasRow(u)' <=> lock'["property"] = u
      BY <1>1, <1>4, <1>7, <2>1, <3>1, <3>4 DEF StartParts, HasRow
    <3>6. HasAddress(u)' <=> lock'["address"] = u
      BY <1>1, <1>4, <1>7, <2>1, <3>1, <3>4 DEF StartParts, HasAddress
    <3> QED
      BY <3>1, <3>2, <3>3, <3>4, <3>5, <3>6, UnitIsPart
  <2>2. CASE ~StartParts(u)
    <3>1. part' = part
      BY <2>2 DEF OwnStep, Arrive, Begin, Find, UpdateAddress, Compare, Commit, RollBack, Answer
    <3>2. ASSUME NEW b \in Bodies, Arrive(u, b)
          PROVE  stage[u] = "idle" /\ stage'[u] = "begin" /\ UNCHANGED lock
      BY <3>2 DEF Arrive, TypeOK
    <3>3. CASE (\E b \in Bodies : Arrive(u, b)) \/ Begin(u) \/ Find(u) \/ Answer(u)
      <4>1. /\ stage[u] \notin {"save", "lock", "parts"}
            /\ stage'[u] \notin {"address", "save", "lock", "parts"} \/ Find(u)
            /\ UNCHANGED lock
        BY <3>2, <3>3 DEF Begin, Find, Answer, TypeOK
      <4>2. CASE ~Find(u)
        BY <1>1, <3>1, <4>1, <4>2 DEF HasRow, HasAddress
      <4>3. CASE Find(u)
        <5>1. stage'[u] = (IF body[u].address THEN "address" ELSE "save") /\ UNCHANGED body
          BY <4>3 DEF Find, TypeOK
        <5> QED
          BY <1>1, <3>1, <4>1, <5>1 DEF HasRow, HasAddress
      <4> QED
        BY <4>2, <4>3
    <3>4. CASE UpdateAddress(u)
      <4>1. stage[u] = "address" /\ stage'[u] = "save" /\ UNCHANGED body
        BY <3>4 DEF UpdateAddress, TypeOK
      <4>2. lock'["address"] = u /\ lock'["property"] = lock["property"]
        BY <1>4, <1>7, <3>4 DEF UpdateAddress
      <4>3. body[u].address
        BY <4>1 DEF Locked
      <4> QED
        BY <1>1, <3>1, <4>1, <4>2, <4>3 DEF HasRow, HasAddress
    <3>5. CASE Compare(u)
      <4>1. stage[u] = "save" /\ stage'[u] = "lock" /\ UNCHANGED <<body, lock>>
        BY <3>5 DEF Compare, TypeOK
      <4> QED
        BY <1>1, <3>1, <4>1 DEF HasRow, HasAddress
    <3>6. CASE Commit(u) \/ RollBack(u)
      <4>1. stage'[u] \in {"emit", "failed"} /\ LetGo(u)
        BY <3>6 DEF Commit, RollBack, TypeOK
      <4> QED
        BY <1>1, <1>4, <1>6, <3>1, <4>1 DEF HasRow, HasAddress
    <3> QED
      BY <2>2, <3>3, <3>4, <3>5, <3>6 DEF OwnStep
  <2> QED
    BY <2>1, <2>2
<1> QED
  BY <1>5, <1>8 DEF Locked

\* Parts leave the lock alone and keep to their own stages.
LEMMA PartLocked ==
  ASSUME TypeOK, Locked, NEW u \in Update, PartStep(u)
  PROVE  Locked'
<1>1. UNCHANGED <<stage, body, lock, writes>>
  BY DEF PartStep, OpenUnit, UpdateUnit, ClearImages, SaveImages, PartFails
<1>2. ASSUME NEW p \in Part, NEW s, part' = [part EXCEPT ![u][p] = s], s # "none",
             s = "open" => p \in Unit, s = "cleared" => p = "images"
      PROVE  Locked'
  <2>1. \A v \in Update, r \in Part : part'[v][r] = IF v = u /\ r = p THEN s ELSE part[v][r]
    BY <1>2 DEF TypeOK
  <2>2. \A v \in Update : Parts(body[v]) \subseteq Part
    BY DEF TypeOK, Body, Parts, Part
  <2>3. \A v \in Update : Parts(body[v])' = Parts(body[v])
    BY <1>1 DEF Parts
  <2>4. \A v \in Update : stage[v] = "parts" => \A r \in Parts(body[v]) : part'[v][r] # "none"
    BY <1>2, <2>1, <2>2 DEF Locked
  <2>5. \A v \in Update : part'[v]["images"] # "open" /\ \A n \in Unit : part'[v][n] # "cleared"
    BY <1>2, <2>1, UnitIsPart, PropertyUpdateAssumption DEF Locked
  <2> QED
    BY <1>1, <2>3, <2>4, <2>5 DEF Locked, HasRow, HasAddress
<1> QED
  BY <1>2, UnitIsPart DEF PartStep, OpenUnit, UpdateUnit, ClearImages, SaveImages, PartFails

\* The pool of connections is never overdrawn, by updates and by their parts that open
\* connections of their own while the update holds one, and the row of the property is locked
\* exactly as long as the parts of one update that has changed it are under way, its address
\* from the write of it on.
THEOREM AccountedAlways == Spec => []Accounted
<1>1. Init => Accounted
  <2> SUFFICES ASSUME Init PROVE Accounted
    OBVIOUS
  <2>1. Outer = {} /\ Inner = {}
    BY UnitIsPart DEF Init, Outer, Inner
  <2>2. Pooled
    BY <2>1, FS_EmptySet, PropertyUpdateAssumption DEF Pooled
  <2>3. Locked
    BY UnitIsPart, PropertyUpdateAssumption DEF Init, Locked, HasRow, HasAddress, Lockable
  <2> QED
    BY <2>2, <2>3 DEF Accounted
<1>2. TypeOK /\ AllApplied /\ Accounted /\ [Next]_vars => Accounted'
  <2>1. Accounted /\ UNCHANGED vars => Accounted'
    BY DEF vars, Accounted, Pooled, Locked, HasRow, HasAddress, Outer, Inner, Parts
  <2> QED
    BY <2>1, NextSteps, OwnPooled, OwnLocked, PartPooled, PartLocked DEF Accounted
<1> QED
  BY <1>1, <1>2, Typing, AppliedAlways, PTL DEF Spec

\* The next step of an update finds what it needs.
Ready(u) ==
  \/ stage[u] \in {"find", "save", "emit"}
  \/ stage[u] = "begin" /\ FreeConnection
  \/ stage[u] = "address" /\ lock["address"] = NoUpdate
  \/ stage[u] = "lock" /\ (writes[u] = "none" \/ lock["property"] = NoUpdate)
  \/ stage[u] = "parts" /\ \A p \in Parts(body[u]) : part[u][p] = "done"
  \/ stage[u] = "parts" /\ PartFailed(u)
  \/ \E n \in Unit : part[u][n] = "open" \/ (part[u][n] = "wait" /\ FreeConnection)
  \/ part[u]["images"] \in {"wait", "cleared"} /\ FreeConnection

\* While a request is unanswered some update can go on, unless every connection is held by an
\* update that waits: requests, parts, the lock of the row and the pool never wait for one
\* another in any other circle.
OnlyStarved ==
  (\E u \in Update : stage[u] \notin {"idle", "ok", "failed"}) =>
    Starved \/ \E u \in Update : Ready(u)

\* The deadlock of updates that hold connections and wait for more is the only one in
\* updateProperty: short of it, an update that was asked for can go on.
THEOREM OnlyStarvedAlways == Spec => []OnlyStarved
<1>1. TypeOK /\ Accounted => OnlyStarved
  <2> SUFFICES ASSUME TypeOK, Accounted, NEW u \in Update, stage[u] \notin {"idle", "ok", "failed"},
                      \A v \in Update : ~Ready(v)
               PROVE  Starved
    BY DEF OnlyStarved
  <2>1. Inner = {}
    BY DEF Inner, Ready
  <2>2. ASSUME NEW v \in Update, stage[v] = "parts"
        PROVE  Waits(v) /\ ~FreeConnection
    <3>1. PICK p \in Parts(body[v]) : part[v][p] # "done"
      BY <2>2 DEF Ready
    <3>2. p \in Part
      BY <3>1 DEF TypeOK, Body, Parts, Part
    <3>3. part[v][p] \in {"wait", "open", "cleared"} /\ ~PartFailed(v)
      BY <2>2, <3>1, <3>2 DEF Accounted, Locked, TypeOK, Ready, PartFailed
    <3>4. part[v][p] # "open"
      BY <3>2, <3>3 DEF Ready, Accounted, Locked, Part
    <3> QED
      BY <2>2, <3>2, <3>3, <3>4 DEF Ready, Waits, Accounted, Locked, Part
  <2>3. ASSUME NEW v \in Update, stage[v] = "lock"
        PROVE  Waits(v) /\ \E w \in Update : stage[w] = "parts"
    <3>1. writes[v] # "none" /\ lock["property"] # NoUpdate
      BY <2>3 DEF Ready
    <3>2. lock["property"] \in Update
      BY <3>1 DEF TypeOK, Lockable
    <3> QED
      BY <2>3, <3>1, <3>2 DEF Waits, Accounted, Locked, HasRow
  <2>4. ASSUME NEW v \in Update, stage[v] = "address"
        PROVE  Waits(v) /\ \E w \in Update : stage[w] = "parts"
    <3>1. lock["address"] # NoUpdate
      BY <2>4 DEF Ready
    <3>2. lock["address"] \in Update
      BY <3>1 DEF TypeOK, Lockable
    <3>3. stage[lock["address"]] \in {"lock", "parts"}
      BY <3>2 DEF Accounted, Locked, HasAddress, Ready
    <3> QED
      BY <2>3, <2>4, <3>1, <3>2, <3>3 DEF Waits
  <2>5. stage[u] \in {"begin", "address", "lock", "parts"}
    BY DEF TypeOK, Stage, Ready
  <2>6. Outer = {v \in Update : Waits(v)}
    <3>1. \A v \in Update : Waits(v) => stage[v] \in {"address", "lock", "parts"}
      BY DEF Waits
    <3>2. \A v \in Update : stage[v] \notin {"find", "save"}
      BY DEF Ready
    <3> QED
      BY <2>2, <2>3, <2>4, <3>1, <3>2 DEF Outer
  <2>7. ~FreeConnection
    BY <2>2, <2>3, <2>4, <2>5 DEF Ready
  <2>8. Cardinality(Outer) = PoolSize
    <3>1. Cardinality(Inner) = 0 /\ Cardinality(Outer) \in Nat /\ PoolSize \in Nat
      BY <2>1, FS_EmptySet, Cardinals DEF Accounted, Pooled
    <3> QED
      BY <2>7, <3>1 DEF FreeConnection, Accounted, Pooled
  <2>9. Outer # {}
    BY <2>8, FS_EmptySet, PropertyUpdateAssumption
  <2>10. \E w \in Update : stage[w] = "parts"
    BY <2>2, <2>3, <2>4, <2>6, <2>9 DEF Waits
  <2> QED
    BY <2>2, <2>6, <2>8, <2>10 DEF Starved
<1> QED
  BY <1>1, Typing, AccountedAlways, PTL
================================================================================
