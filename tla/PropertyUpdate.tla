---------------------------- MODULE PropertyUpdate ----------------------------
(***************************************************************************)
(* PUT /properties/:uuid.  One transaction writes the property; inside it, *)
(* every unit of the body is written in a transaction of its own, on a     *)
(* connection of its own, and the images outside any.  The connections     *)
(* come from one pool.  Requests interleave at every statement, parts fail *)
(* one by one.                                                             *)
(***************************************************************************)
EXTENDS Naturals, FiniteSets

CONSTANTS
  Update,     \* requests that update one property
  Unit,       \* its units
  PoolSize,   \* connections the API has to the database
  Bodies,     \* what requests may ask for
  NoUpdate    \* nobody

Body == [units : SUBSET Unit, images : BOOLEAN, tags : BOOLEAN, address : BOOLEAN]

ASSUME PropertyUpdateAssumption ==
  /\ PoolSize \in Nat \ {0}
  /\ Bodies \subseteq Body
  /\ NoUpdate \notin Update /\ "images" \notin Unit

VARIABLES
  stage,   \* how far the request is
  body,    \* what it asks for
  seen,    \* the tags of the property when the request read it
  writes,  \* what its UPDATE of the property sets
  part,    \* what the writes of units and images are doing
  tags,    \* the committed tags of the property, each named by the request that added it
  lock,    \* who holds the lock on the row of the property, and on that of its address
  unit,    \* who wrote the unit last
  images   \* whose images the property has

vars == <<stage, body, seen, writes, part, tags, lock, unit, images>>

\* Units and the images of the property are the parts of an update.
Part == Unit \cup {"images"}
Parts(b) == b.units \cup (IF b.images THEN {"images"} ELSE {})

Stage == {"idle", "begin", "find", "address", "save", "lock", "parts", "emit", "ok", "failed"}

\* Nothing, columns other than the tags, or the tags as well.
Columns == {"none", "others", "tags"}

Lockable == {"address", "property"}

TypeOK ==
  /\ stage \in [Update -> Stage]
  /\ body \in [Update -> Body]
  /\ seen \in [Update -> SUBSET Update]
  /\ writes \in [Update -> Columns]
  /\ part \in [Update -> [Part -> {"none", "wait", "open", "cleared", "done", "failed"}]]
  /\ tags \in SUBSET Update
  /\ lock \in [Lockable -> Update \cup {NoUpdate}]
  /\ unit \in [Unit -> Update \cup {NoUpdate}]
  /\ images \in SUBSET Update

Init ==
  /\ stage = [u \in Update |-> "idle"]
  /\ body = [u \in Update |-> [units |-> {}, images |-> FALSE, tags |-> FALSE, address |-> FALSE]]
  /\ seen = [u \in Update |-> {}]
  /\ writes = [u \in Update |-> "none"]
  /\ part = [u \in Update |-> [p \in Part |-> "none"]]
  /\ tags = {}
  /\ lock = [l \in Lockable |-> NoUpdate]
  /\ unit = [n \in Unit |-> NoUpdate]
  /\ images = {}

\* Transactions under way hold a connection each; a caller without one waits for it, with
\* no limit (connectionTimeoutMillis is not set).
Outer == {u \in Update : stage[u] \in {"find", "address", "save", "lock", "parts"}}
Inner == {up \in Update \X Unit : part[up[1]][up[2]] = "open"}
FreeConnection == Cardinality(Outer) + Cardinality(Inner) < PoolSize

-----------------------------------------------------------------------------
(* The transaction of the property.                                        *)

Arrive(u, b) ==
  /\ stage[u] = "idle"
  /\ stage' = [stage EXCEPT ![u] = "begin"]
  /\ body' = [body EXCEPT ![u] = b]
  /\ UNCHANGED <<seen, writes, part, tags, lock, unit, images>>

Begin(u) ==
  /\ stage[u] = "begin" /\ FreeConnection
  /\ stage' = [stage EXCEPT ![u] = "find"]
  /\ UNCHANGED <<body, seen, writes, part, tags, lock, unit, images>>

Find(u) ==
  /\ stage[u] = "find"
  /\ stage' = [stage EXCEPT ![u] = IF body[u].address THEN "address" ELSE "save"]
  /\ seen' = [seen EXCEPT ![u] = tags]
  /\ UNCHANGED <<body, writes, part, tags, lock, unit, images>>

\* A row that an UPDATE has written stays locked until the transaction ends.
Take(l, u) == lock[l] = NoUpdate /\ lock' = [lock EXCEPT ![l] = u]
LetGo(u) == lock' = [l \in Lockable |-> IF lock[l] = u THEN NoUpdate ELSE lock[l]]

UpdateAddress(u) ==
  /\ stage[u] = "address"
  /\ Take("address", u)
  /\ stage' = [stage EXCEPT ![u] = "save"]
  /\ UNCHANGED <<body, seen, writes, part, tags, unit, images>>

\* save() reads the row again and sets the columns in which the entity differs from it.  Of
\* the other columns the model does not know whether the body changes them, or another update
\* has since the request read them.
Compare(u) ==
  /\ stage[u] = "save"
  /\ stage' = [stage EXCEPT ![u] = "lock"]
  /\ \E c \in Columns :
       /\ c = "tags" <=> body[u].tags \/ seen[u] # tags
       /\ writes' = [writes EXCEPT ![u] = c]
  /\ UNCHANGED <<body, seen, part, tags, lock, unit, images>>

\* The UPDATE waits for the row; an entity that does not differ has none and locks nothing.
\* Then all parts are started.
StartParts(u) ==
  /\ stage[u] = "lock"
  /\ IF writes[u] = "none" THEN UNCHANGED lock ELSE Take("property", u)
  /\ stage' = [stage EXCEPT ![u] = "parts"]
  /\ part' = [part EXCEPT ![u] = [p \in Part |-> IF p \in Parts(body[u]) THEN "wait" ELSE "none"]]
  /\ UNCHANGED <<body, seen, writes, tags, unit, images>>

\* New tags are appended to those the request has read.
\* Mutant: they take their place.
OnlyOwnTags(u) == IF body[u].tags THEN {u} ELSE seen[u]

\* Mutant: a body without tags adds an empty one.
EmptyTagToo(u) == seen[u] \cup {IF body[u].tags THEN u ELSE NoUpdate}

MergedTags(u) == seen[u] \cup (IF body[u].tags THEN {u} ELSE {})

\* Mutant: the parts are started and not waited for.
CommitEarly(u) ==
  /\ stage[u] = "parts"
  /\ \A p \in Part : part[u][p] # "failed"
  /\ tags' = IF writes[u] = "tags" THEN MergedTags(u) ELSE tags
  /\ LetGo(u)
  /\ stage' = [stage EXCEPT ![u] = "emit"]
  /\ UNCHANGED <<body, seen, writes, part, unit, images>>

\* COMMIT, once every part is there.
Commit(u) ==
  /\ stage[u] = "parts"
  /\ \A p \in Parts(body[u]) : part[u][p] = "done"
  /\ tags' = IF writes[u] = "tags" THEN MergedTags(u) ELSE tags
  /\ LetGo(u)
  /\ stage' = [stage EXCEPT ![u] = "emit"]
  /\ UNCHANGED <<body, seen, writes, part, unit, images>>

\* A statement of the transaction fails (no such property, not the user's, an amenity that
\* is there already) or a part has failed: ROLLBACK, while other parts run on.
\* Mutant: the rows stay locked.
RollBackHalf(u) ==
  /\ u \in Outer
  /\ stage' = [stage EXCEPT ![u] = "failed"]
  /\ UNCHANGED <<body, seen, writes, part, tags, lock, unit, images>>

RollBack(u) ==
  /\ u \in Outer
  /\ stage' = [stage EXCEPT ![u] = "failed"]
  /\ LetGo(u)
  /\ UNCHANGED <<body, seen, writes, part, tags, unit, images>>

\* After the commit the event is emitted, for which the address is read from the body;
\* without one, or when the cache fails, the request is answered as failed.
Answer(u) ==
  /\ stage[u] = "emit"
  /\ \E answer \in {"ok", "failed"} :
       /\ answer = "ok" => body[u].address
       /\ stage' = [stage EXCEPT ![u] = answer]
  /\ UNCHANGED <<body, seen, writes, part, tags, lock, unit, images>>

-----------------------------------------------------------------------------
(* The parts.  They run on whatever becomes of the transaction.            *)

OpenUnit(u, n) ==
  /\ part[u][n] = "wait" /\ FreeConnection
  /\ part' = [part EXCEPT ![u][n] = "open"]
  /\ UNCHANGED <<stage, body, seen, writes, tags, lock, unit, images>>

UpdateUnit(u, n) ==
  /\ part[u][n] = "open"
  /\ part' = [part EXCEPT ![u][n] = "done"]
  /\ unit' = [unit EXCEPT ![n] = u]
  /\ UNCHANGED <<stage, body, seen, writes, tags, lock, images>>

\* Two statements, each with a connection for itself alone.
ClearImages(u) ==
  /\ part[u]["images"] = "wait" /\ FreeConnection
  /\ part' = [part EXCEPT ![u]["images"] = "cleared"]
  /\ images' = {}
  /\ UNCHANGED <<stage, body, seen, writes, tags, lock, unit>>

SaveImages(u) ==
  /\ part[u]["images"] = "cleared" /\ FreeConnection
  /\ part' = [part EXCEPT ![u]["images"] = "done"]
  /\ images' = images \cup {u}
  /\ UNCHANGED <<stage, body, seen, writes, tags, lock, unit>>

PartFails(u, p) ==
  /\ part[u][p] \in {"open", "cleared"}
  /\ part' = [part EXCEPT ![u][p] = "failed"]
  /\ UNCHANGED <<stage, body, seen, writes, tags, lock, unit, images>>

-----------------------------------------------------------------------------
PartFailed(u) == \E p \in Part : part[u][p] = "failed"

PartGoesOn(u) ==
  \/ \E n \in Unit : OpenUnit(u, n) \/ UpdateUnit(u, n)
  \/ ClearImages(u)
  \/ SaveImages(u)

GoesOn(u) ==
  \/ Begin(u)
  \/ Find(u)
  \/ UpdateAddress(u)
  \/ Compare(u)
  \/ StartParts(u)
  \/ PartGoesOn(u)
  \/ Commit(u)
  \/ PartFailed(u) /\ RollBack(u)
  \/ Answer(u)

Next ==
  \E u \in Update :
    \/ \E b \in Bodies : Arrive(u, b)
    \/ GoesOn(u)
    \/ RollBack(u)
    \/ \E p \in Part : PartFails(u, p)

Spec == Init /\ [][Next]_vars

\* The pool and the row locks serve those who wait in turn.  A request has finitely many
\* steps, so it is enough that it takes one when it can again and again.
FairSpec == Spec /\ \A u \in Update : SF_vars(GoesOn(u))

-----------------------------------------------------------------------------
(* Properties.                                                             *)

\* An update answered as done was applied as a whole: no part of it is still to come or
\* failed, and none of its units is left as it was before all updates.
OkMeansWhole ==
  \A u \in Update : stage[u] = "ok" =>
    /\ \A p \in Parts(body[u]) : part[u][p] = "done"
    /\ \A n \in body[u].units : unit[n] # NoUpdate

LostUnseen ==
  \A t \in tags \ tags' :
    \E u \in Update : stage[u] = "parts" /\ stage'[u] = "emit" /\ t \notin seen[u]

\* A tag disappears only by an update that had read the property before the tag was there:
\* those who update one after the other keep each other's tags.
TagsLostUnseen == [][LostUnseen]_vars

\* A transaction that waits: for a row that another has locked, or for parts of which one has
\* no connection.
Waits(u) ==
  \/ stage[u] = "address" /\ lock["address"] # NoUpdate
  \/ stage[u] = "lock" /\ writes[u] # "none" /\ lock["property"] # NoUpdate
  \/ stage[u] = "parts" /\ ~PartFailed(u) /\ \E p \in Part : part[u][p] \in {"wait", "cleared"}

\* Every connection is held by a transaction that waits, one of them for a connection.
Starved ==
  /\ Cardinality({u \in Update : Waits(u)}) = PoolSize
  /\ \E u \in Update : Waits(u) /\ stage[u] = "parts"

\* Whoever asks is answered, unless as many updates as there are connections come together.
AnsweredOrStarved ==
  \A u \in Update : stage[u] = "begin" ~> stage[u] \in {"ok", "failed"} \/ Starved
=============================================================================
