------------------------------ MODULE CachedLists ------------------------------
(***************************************************************************)
(* The lists every client asks for - permissions, features, roles, the     *)
(* metadata of properties, subscription plans - are kept whole in the      *)
(* cache for a day and edited in place: a request that has written a row   *)
(* reads the cached list, changes it and stores it again.  The services    *)
(* do this each in their own way; a Style says how.  (The prefix CL keeps  *)
(* its names apart from those of OrgCache, which is proved beside it.)     *)
(***************************************************************************)
EXTENDS Naturals

CONSTANTS
  Styles,     \* the services to model
  Request,    \* requests that may overlap
  Row,        \* ids of rows
  Value,      \* contents of rows
  ListTTL,    \* hours a cached entry lives
  MaxWrites,  \* bound on rows written
  NoRow

Style == [routes : SUBSET {"list", "get", "create", "update", "delete"},
          get : {"uncached", "replace", "rewrite", "own"}, save : {"no", "row", "listed"},
          carries : BOOLEAN, rowFirst : BOOLEAN, kin : BOOLEAN]

ASSUME CachedListsAssumption ==
  /\ Styles \subseteq Style
  /\ \A s \in Styles : s.get = "own" => s.rowFirst
  /\ NoRow \notin Value
  /\ ListTTL \in Nat \ {0} /\ MaxWrites \in Nat

-----------------------------------------------------------------------------
(* The services.  get: what reading one row stores.  save: an update saves *)
(* the row it has read, whatever has become of it.  A row is read from the *)
(* table, by deletions as well, or from the cached list where that has it, *)
(* by updates alone.  carries: an update edits the list.  rowFirst: a      *)
(* deletion takes the row away before it edits the list.  kin: it filters  *)
(* out every row that shares one of the two keys.                          *)

All == {"list", "get", "create", "update", "delete"}

Permissions ==
  [routes |-> {"list"}, get |-> "replace", save |-> "no", carries |-> TRUE,
   rowFirst |-> TRUE, kin |-> FALSE]

Features ==
  [routes |-> All, get |-> "uncached", save |-> "no", carries |-> TRUE,
   rowFirst |-> FALSE, kin |-> FALSE]

FeaturePermissions ==
  [routes |-> All \ {"update"}, get |-> "replace", save |-> "no", carries |-> TRUE,
   rowFirst |-> TRUE, kin |-> TRUE]

\* An update of a role edits a list under the key of the role, which holds none.
Roles ==
  [routes |-> All, get |-> "own", save |-> "no", carries |-> FALSE,
   rowFirst |-> TRUE, kin |-> FALSE]

Categories ==
  [routes |-> All, get |-> "uncached", save |-> "row", carries |-> TRUE,
   rowFirst |-> FALSE, kin |-> FALSE]

Purposes == Categories
Statuses == Categories

PropertyTypes == [Categories EXCEPT !.save = "listed"]

Amenities == [Categories EXCEPT !.routes = {"list", "create"}]

Plans ==
  [routes |-> {"list", "get", "create"}, get |-> "rewrite", save |-> "no", carries |-> TRUE,
   rowFirst |-> TRUE, kin |-> FALSE]

-----------------------------------------------------------------------------

VARIABLES
  style,   \* the service
  table,   \* its rows
  born,    \* ids given out
  list,    \* what the cache holds under the key of the list
  own,     \* what it holds under the keys of single rows
  work,    \* what each request is doing
  writes,  \* requests that write, so far
  blamed   \* since the list was last absent, requests have overlapped or one has failed

clVars == <<style, table, born, list, own, work, writes, blamed>>

Content == [Row -> Value \cup {NoRow}]
Empty == [r \in Row |-> NoRow]

\* A cached value: nothing, a list, or a single row where the list should be.
Nothing == [kind |-> "none", rows |-> Empty, left |-> 0]
Entry == {Nothing} \cup [kind : {"list", "row"}, rows : Content, left : 1..ListTTL]
Stored(k, rows) == [kind |-> k, rows |-> rows, left |-> ListTTL]

At == {"idle", "load", "store", "row", "storeRow", "write", "read", "edit", "remove"}
Work == [op : All, row : Row, value : Value \cup {NoRow}, at : At, seen : Entry]
Idle == [op |-> "list", row |-> CHOOSE r \in Row : TRUE, value |-> NoRow, at |-> "idle",
         seen |-> Nothing]

CLTypeOK ==
  /\ style \in Styles
  /\ table \in Content
  /\ born \in SUBSET Row
  /\ list \in Entry
  /\ own \in [Row -> Entry]
  /\ work \in [Request -> Work]
  /\ writes \in 0..MaxWrites
  /\ blamed \in BOOLEAN

CLInit ==
  /\ style \in Styles
  /\ \E r \in Row, v \in Value : table = [Empty EXCEPT ![r] = v]
  /\ born = {r \in Row : table[r] # NoRow}
  /\ list = Nothing
  /\ own = [r \in Row |-> Nothing]
  /\ work = [q \in Request |-> Idle]
  /\ writes = 0
  /\ blamed = FALSE

InFlight == {q \in Request : work[q].at # "idle"}

-----------------------------------------------------------------------------
(* The cache service: edits of a cached list.                              *)

\* find() on what is cached: nothing unless it is a list.
Find(e, r) == IF e.kind = "list" THEN e.rows[r] ELSE NoRow

\* updateCacheAfterCreate
AfterCreate(rows, r, v) == [rows EXCEPT ![r] = v]

\* updateCacheAfterUpsert changes the row where it is in the list and adds none.
AfterUpsert(rows, r, v) == [rows EXCEPT ![r] = IF @ = NoRow THEN NoRow ELSE v]

\* updateCacheAfterdelete
AfterDelete(rows, r) == [rows EXCEPT ![r] = NoRow]

\* updateCacheAfterdeleteWithIdentifiers keeps the rows that differ in every key; the rows
\* of the model belong to one feature.
AfterDeleteKin(rows, r) == Empty

-----------------------------------------------------------------------------
(* Steps of requests.                                                      *)

\* A request that starts while another is under way is to blame for what they do.
Start(q, t) ==
  /\ work[q].at = "idle" /\ t.op \in style.routes
  /\ work' = [work EXCEPT ![q] = t]
  /\ blamed' = (blamed \/ InFlight # {})
  /\ writes' = writes + (IF t.op \in {"list", "get"} THEN 0 ELSE 1)

Go(q, t) ==
  /\ work' = [work EXCEPT ![q] = t]
  /\ UNCHANGED <<writes, blamed>>

To(q, at) == [work[q] EXCEPT !.at = at]

MayWrite == writes < MaxWrites

\* The list is asked for and not cached; a cached one is answered and nothing changes.
ListMiss(q) ==
  /\ list.kind = "none"
  /\ Start(q, [Idle EXCEPT !.at = "load"])
  /\ UNCHANGED <<style, table, born, list, own>>

LoadList(q) ==
  /\ work[q].at = "load"
  /\ Go(q, [work[q] EXCEPT !.at = "store", !.seen = Stored("list", table)])
  /\ UNCHANGED <<style, table, born, list, own>>

StoreList(q) ==
  /\ work[q].at = "store"
  /\ list' = work[q].seen
  /\ Go(q, Idle)
  /\ UNCHANGED <<style, table, born, own>>

\* A single row is asked for and not found in the cache.
GetMiss(q, r) ==
  /\ style.get # "uncached"
  /\ IF style.get = "own" THEN own[r].kind = "none" ELSE Find(list, r) = NoRow
  /\ Start(q, [Idle EXCEPT !.op = "get", !.row = r, !.at = "row"])
  /\ UNCHANGED <<style, table, born, list, own>>

\* An unknown role or plan is answered as not found; an unknown feature permission is stored.
GetRow(q) ==
  LET v == table[work[q].row] IN
  /\ work[q].at = "row"
  /\ Go(q, IF v = NoRow /\ style.get # "replace" THEN Idle
           ELSE [work[q] EXCEPT !.value = v,
                                !.at = IF style.get = "rewrite" THEN "read" ELSE "storeRow"])
  /\ UNCHANGED <<style, table, born, list, own>>

\* A null takes the place of the list and reads as nothing.
StoreRow(q) ==
  LET e == IF work[q].value = NoRow THEN Nothing
           ELSE Stored("row", [Empty EXCEPT ![work[q].row] = work[q].value])
  IN
  /\ work[q].at = "storeRow"
  /\ IF style.get = "own" THEN own' = [own EXCEPT ![work[q].row] = e] /\ UNCHANGED list
     ELSE list' = e /\ UNCHANGED own
  /\ Go(q, IF work[q].op = "delete" THEN To(q, "remove") ELSE Idle)
  /\ UNCHANGED <<style, table, born>>

Create(q, r, v) ==
  /\ r \notin born /\ MayWrite
  /\ Start(q, [Idle EXCEPT !.op = "create", !.row = r, !.value = v, !.at = "read"])
  /\ table' = [table EXCEPT ![r] = v]
  /\ born' = born \cup {r}
  /\ UNCHANGED <<style, list, own>>

\* Services that save read the row first and answer an unknown one as an error.
Found(r) == table[r] # NoRow \/ (style.save = "listed" /\ Find(list, r) # NoRow)

Update(q, r, v) ==
  /\ MayWrite
  /\ style.save # "no" => Found(r)
  /\ Start(q, [Idle EXCEPT !.op = "update", !.row = r, !.value = v, !.at = "write"])
  /\ UNCHANGED <<style, table, born, list, own>>

\* save() of a row that has gone inserts it again; update() of one changes nothing.
UpdateWrite(q) ==
  LET r == work[q].row IN
  /\ work[q].at = "write"
  /\ table' = [table EXCEPT ![r] = IF style.save # "no" \/ @ # NoRow THEN work[q].value ELSE @]
  /\ Go(q, IF style.carries THEN To(q, "read") ELSE Idle)
  /\ UNCHANGED <<style, born, list, own>>

\* Deleting a role reads it first, through the cache.
Delete(q, r) ==
  /\ MayWrite
  /\ style.save = "row" => table[r] # NoRow
  /\ Start(q, [Idle EXCEPT !.op = "delete", !.row = r,
                           !.at = IF style.get = "own" /\ own[r].kind = "none" THEN "row"
                                  ELSE IF style.rowFirst THEN "remove" ELSE "read"])
  /\ UNCHANGED <<style, table, born, list, own>>

Remove(q) ==
  /\ work[q].at = "remove"
  /\ table' = [table EXCEPT ![work[q].row] = NoRow]
  /\ Go(q, IF style.rowFirst THEN To(q, "read") ELSE Idle)
  /\ UNCHANGED <<style, born, list, own>>

\* The list is read for an edit ...
EditRead(q) ==
  /\ work[q].at = "read"
  /\ Go(q, [work[q] EXCEPT !.at = "edit", !.seen = list])
  /\ UNCHANGED <<style, table, born, list, own>>

\* Mutant: an empty list is not added to.
EditsSome(t) == t.seen.kind = "list" /\ t.seen.rows # Empty

\* An empty list is only added to.  Spreading a single row throws, after the row was created.
Edits(t) == t.seen.kind = "list" /\ (t.op = "create" \/ t.seen.rows # Empty)

Edited(t) ==
  CASE t.op = "create" -> AfterCreate(t.seen.rows, t.row, t.value)
    [] t.op = "delete" /\ style.kin -> AfterDeleteKin(t.seen.rows, t.row)
    [] t.op = "delete" /\ ~style.kin -> AfterDelete(t.seen.rows, t.row)
    [] OTHER -> AfterUpsert(t.seen.rows, t.row, t.value)

\* ... and stored again for another day.
EditStore(q) ==
  LET t == work[q] IN
  /\ t.at = "edit"
  /\ list' = IF Edits(t) THEN Stored("list", Edited(t)) ELSE list
  /\ Go(q, IF t.op = "delete" /\ ~style.rowFirst THEN To(q, "remove") ELSE Idle)
  /\ UNCHANGED <<style, table, born, own>>

\* A statement or a call to the cache fails; what was done before it stays.
Fail(q) ==
  /\ work[q].at # "idle"
  /\ work' = [work EXCEPT ![q] = Idle]
  /\ blamed' = TRUE
  /\ UNCHANGED <<style, table, born, list, own, writes>>

-----------------------------------------------------------------------------
(* The cache.                                                              *)

\* Mutant: they live one tick longer.
AgedLate(e) == IF e.left = 0 THEN Nothing ELSE [e EXCEPT !.left = @ - 1]

\* Mutant: a cached list never expires.
ListStays(e) == IF e.kind = "list" \/ e.left <= 1 THEN e ELSE [e EXCEPT !.left = @ - 1]

\* Entries live for a day, ListTTL hours of the model.
Aged(e) == IF e.left <= 1 THEN Nothing ELSE [e EXCEPT !.left = @ - 1]

Excused(e) == blamed /\ ~(e.kind = "none" /\ InFlight = {})

Hour ==
  /\ list' = Aged(list)
  /\ own' = [r \in Row |-> Aged(own[r])]
  /\ blamed' = Excused(list')
  /\ UNCHANGED <<style, table, born, work, writes>>

\* DELETE /public/system/reset-cache empties the stores.
ResetCache ==
  /\ list' = Nothing
  /\ own' = [r \in Row |-> Nothing]
  /\ blamed' = Excused(Nothing)
  /\ UNCHANGED <<style, table, born, work, writes>>

-----------------------------------------------------------------------------

GoesOn(q) ==
  \/ LoadList(q) \/ StoreList(q) \/ GetRow(q) \/ StoreRow(q)
  \/ UpdateWrite(q) \/ Remove(q) \/ EditRead(q) \/ EditStore(q)

CLNext ==
  \/ \E q \in Request : ListMiss(q) \/ GoesOn(q) \/ Fail(q)
  \/ \E q \in Request, r \in Row :
       GetMiss(q, r) \/ Delete(q, r) \/ \E v \in Value : Create(q, r, v) \/ Update(q, r, v)
  \/ Hour \/ ResetCache

CLSpec == CLInit /\ [][CLNext]_clVars

\* Started requests go on, and time passes.
CLFairSpec == CLSpec /\ WF_clVars(Hour) /\ \A q \in Request : WF_clVars(GoesOn(q))

-----------------------------------------------------------------------------
(* What is expected of them.                                               *)

Exact == list.kind = "list" /\ list.rows = table

\* Editing in place is sound one request at a time: where an edit is carried to the list and
\* takes away no other row, a cached list differs from its table only after requests have
\* overlapped, or one has failed half-way, since it was loaded.
ExactUnlessBlamed ==
  /\ style.carries /\ ~style.kin /\ ("get" \in style.routes => style.get # "replace")
  /\ ~blamed /\ InFlight = {} /\ list.kind # "none"
  => Exact

\* Once rows are no longer written, the list and the roles by id become what the table says
\* and stay so, because reads do not renew them.  Not so the list of plans and the list of
\* feature permissions: reading one row stores them anew.
ListsSettle ==
  style.get \in {"uncached", "own"} =>
    <>[](/\ list.kind # "none" => Exact
         /\ \A r \in Row : own[r].kind # "none" => own[r].rows[r] = table[r])
==============================================================================
