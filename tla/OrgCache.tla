------------------------------- MODULE OrgCache -------------------------------
(***************************************************************************)
(* The cached reads of one organization: details of leases and properties, *)
(* lists and metrics are cached beside the database, the key of every list *)
(* is entered in a registry per resource, and what is written invalidates  *)
(* what a registry names: the property service its own, handlers of events *)
(* the others.  Reads, writes and invalidations interleave at their        *)
(* awaits; only the TTL bounds how stale an answer can be.                 *)
(***************************************************************************)
EXTENDS Naturals, Sequences

CONSTANTS
  ListKey,     \* cache keys of lists and metrics
  ItemKey,     \* cache keys that are never registered: details, units grouped by property
  LeaseKey,    \* those of the details of leases
  PropertyKey, \* those of the details of properties
  PrefsKey,    \* those of the preferences of users
  ResourceOf,  \* the resource a list key is registered under
  Task,        \* requests under way at the same time
  Handler,     \* invalidations of lists under way at the same time
  TTL,         \* ticks an entry lives
  RegTTL,      \* ticks a registry lives
  Latency,     \* bound: ticks a request may take to fill the cache
  MaxVersion   \* bound: writes to the database

Resource == {"leases", "dashboard", "tenants", "properties"}
Key == ListKey \cup ItemKey
Version == 0 .. MaxVersion

ASSUME OrgCacheAssumption ==
  /\ TTL \in Nat \ {0}
  /\ RegTTL \in Nat \ {0}
  /\ Latency \in Nat
  /\ MaxVersion \in Nat
  /\ ListKey \cap ItemKey = {}
  /\ LeaseKey \subseteq ItemKey /\ PropertyKey \subseteq ItemKey /\ PrefsKey \subseteq ItemKey
  /\ ResourceOf \in [ListKey -> Resource]

VARIABLES
  version,   \* the organization's data in the database: how often it was written
  age,       \* history: ticks since a version was superseded (up to TTL + Latency + 1)
  entry,     \* per key, the version cached and the ticks it has left (0: no entry)
  registry,  \* per resource, the entry ...:listKeys
  task,      \* what each request is doing
  handler    \* what each event handler is doing

vars == <<version, age, entry, registry, task, handler>>

Stalest == TTL + Latency + 1

NoEntry == [version |-> 0, left |-> 0]
NoRegistry == [keys |-> {}, left |-> 0]
Free == [step |-> "free"]

Event == {"property", "propertyChange", "lease", "tenant", "onboarding"}

\* A request between two of its awaits.
Filling == [step : {"fill"}, key : Key, version : Version, waited : 0 .. Latency]
Registering == [step : {"register"}, key : ListKey]
Refreshing == [step : {"invalidate", "invalidateRead", "read"}, key : LeaseKey]

\* An invalidation: the rounds it has left, the first one under way; the keys this round is
\* to delete, so far; whether a registry of this round was not there.
Invalidating == [event : Event, rounds : Seq(Seq(Resource)) \ {<<>>},
                 keys : SUBSET Key, missing : BOOLEAN]

TypeOK ==
  /\ version \in Version
  /\ age \in [Version -> 0 .. Stalest]
  /\ entry \in [Key -> [version : Version, left : 0 .. TTL]]
  /\ registry \in [Resource -> [keys : SUBSET ListKey, left : 0 .. RegTTL]]
  /\ task \in [Task -> {Free} \cup Filling \cup Registering \cup Refreshing]
  /\ handler \in [Handler -> {Free} \cup Invalidating]

Init ==
  /\ version = 0
  /\ age = [v \in Version |-> 0]
  /\ entry = [k \in Key |-> NoEntry]
  /\ registry = [s \in Resource |-> NoRegistry]
  /\ task = [t \in Task |-> Free]
  /\ handler = [h \in Handler |-> Free]

Cached(k) == entry[k].left > 0

-----------------------------------------------------------------------------
(* Cached reads: get the key; on a miss query the database, set the key    *)
(* and, for lists and metrics, register it.                                *)

\* A hit answers at once and changes nothing; only a miss is a step.  What several queries
\* answer is as old as the first of them.
Query(t, k) ==
  /\ ~ Cached(k)
  /\ task' = [task EXCEPT ![t] = [step |-> "fill", key |-> k, version |-> version, waited |-> 0]]
  /\ UNCHANGED <<version, age, entry, registry, handler>>

Read(t, k) == task[t] = Free /\ Query(t, k)

\* Details of a lease or a property, its units, preferences, the organization.
ReadItem(t) == \E k \in ItemKey : Read(t, k)

\* Lists of leases, properties and tenants, and the metrics.
ReadList(t) == \E k \in ListKey : Read(t, k)

SetEntry(t) ==
  /\ task[t].step = "fill"
  /\ LET k == task[t].key
     IN  /\ entry' = [entry EXCEPT ![k] = [version |-> task[t].version, left |-> TTL]]
         /\ task' = [task EXCEPT ![t] = IF k \in ListKey THEN [step |-> "register", key |-> k]
                                                         ELSE Free]
  /\ UNCHANGED <<version, age, registry, handler>>

\* What the registry update starts from is read under the key of the resource, and
\* the result is written under the key with the suffix listKeys: nothing is ever
\* found, and the registry holds just the key registered last.
KeysFound(s) == {}

Register(t) ==
  /\ task[t].step = "register"
  /\ LET s == ResourceOf[task[t].key]
     IN  registry' = [registry EXCEPT ![s] = [keys |-> KeysFound(s) \cup {task[t].key},
                                              left |-> RegTTL]]
  /\ task' = [task EXCEPT ![t] = Free]
  /\ UNCHANGED <<version, age, entry, handler>>

-----------------------------------------------------------------------------
(* Writes to the database.                                                 *)

Write ==
  /\ version < MaxVersion
  /\ version' = version + 1

\* Payments, the midnight job and updates of the organization invalidate nothing here.
SilentWrite ==
  /\ Write
  /\ UNCHANGED <<age, entry, registry, task, handler>>

\* terminate and renew write and delete the entry of the lease; PATCH reads it again.
WriteItem(t, k, next) ==
  /\ task[t] = Free
  /\ Write
  /\ task' = [task EXCEPT ![t] = [step |-> next, key |-> k]]
  /\ UNCHANGED <<age, entry, registry, handler>>

DeleteItem(t) ==
  /\ task[t].step \in {"invalidate", "invalidateRead"}
  /\ entry' = [entry EXCEPT ![task[t].key] = NoEntry]
  /\ task' = [task EXCEPT ![t] = IF task[t].step = "invalidate"
                                 THEN Free
                                 ELSE [step |-> "read", key |-> task[t].key]]
  /\ UNCHANGED <<version, age, registry, handler>>

ReadAgain(t) ==
  /\ task[t].step = "read"
  /\ \/ Query(t, task[t].key)
     \/ /\ Cached(task[t].key)
        /\ task' = [task EXCEPT ![t] = Free]
        /\ UNCHANGED <<version, age, entry, registry, handler>>

\* Preferences are merged into what the cache holds of them, saved, and set.
WriteThrough(t, k) ==
  /\ task[t] = Free
  /\ Write
  /\ task' = [task EXCEPT ![t] = [step |-> "fill", key |-> k, version |-> version + 1,
                                  waited |-> 0]]
  /\ UNCHANGED <<age, entry, registry, handler>>

\* The cache server refuses a call: the request ends with an error.
CallFails(t) ==
  /\ task[t] # Free
  /\ task' = [task EXCEPT ![t] = Free]
  /\ UNCHANGED <<version, age, entry, registry, handler>>

-----------------------------------------------------------------------------
(* Invalidations of lists.  They go in rounds: the registries of a round   *)
(* are read one by one, and all the keys they name deleted in one call.    *)
(* The property service deletes what its own registry names before it      *)
(* answers; the other services emit an event after their write and do not  *)
(* wait for its handler.                                                   *)

\* A property that is changed, or archived, tells nobody outside its service.
RoundsOf(event) ==
  CASE event = "property" -> << <<"properties">>, <<"dashboard">> >>
    [] event = "propertyChange" -> << <<"properties">> >>
    [] event = "lease" -> << <<"leases", "dashboard">> >>
    [] event = "tenant" -> << <<"dashboard", "leases", "tenants">>, <<"dashboard">> >>
    [] event = "onboarding" -> << <<"dashboard", "leases", "tenants">>, <<"dashboard">>,
                                  <<"leases", "dashboard">> >>

\* The details that go with the lists: those of the property, unless it is new.
DetailsOf(event) ==
  IF event \in {"property", "propertyChange"} THEN {{}} \cup {{k} : k \in PropertyKey} ELSE {{}}

WriteAndEmit(h, event, details) ==
  /\ handler[h] = Free
  /\ Write
  /\ handler' = [handler EXCEPT ![h] =
       [event |-> event, rounds |-> RoundsOf(event), keys |-> details, missing |-> FALSE]]
  /\ UNCHANGED <<age, entry, registry, task>>

ReadRegistry(h) ==
  /\ handler[h] # Free
  /\ handler[h].rounds[1] # <<>>
  /\ LET s == handler[h].rounds[1][1]
     IN  handler' = [handler EXCEPT ![h].rounds[1] = Tail(@),
                                    ![h].keys = @ \cup registry[s].keys,
                                    ![h].missing = @ \/ (s # "properties" /\ registry[s].left = 0)]
  /\ UNCHANGED <<version, age, entry, registry, task>>

\* A registry that is not there reads as null.  The handlers spread it: the round throws,
\* deletes nothing and ends the handler.  The property service looks before it does.
DeleteKeys(h) ==
  /\ handler[h] # Free
  /\ handler[h].rounds[1] = <<>>
  /\ entry' = IF handler[h].missing
              THEN entry
              ELSE [k \in Key |-> IF k \in handler[h].keys THEN NoEntry ELSE entry[k]]
  /\ handler' = [handler EXCEPT ![h] =
       IF handler[h].missing \/ Len(handler[h].rounds) = 1
       THEN Free
       ELSE [handler[h] EXCEPT !.rounds = Tail(@), !.keys = {}]]
  /\ UNCHANGED <<version, age, registry, task>>

\* The cache server refuses a call.
InvalidationFails(h) ==
  /\ handler[h] # Free
  /\ handler' = [handler EXCEPT ![h] = Free]
  /\ UNCHANGED <<version, age, entry, registry, task>>

-----------------------------------------------------------------------------

Older(v) == IF v < version /\ age[v] < Stalest THEN age[v] + 1 ELSE age[v]

\* Mutant: entries are set without a time to live.
NeverExpire(e, none) == e

\* Mutant: the clock goes on below zero.
CountDown(e, none) == [e EXCEPT !.left = @ - 1]

Expire(e, none) == IF e.left <= 1 THEN none ELSE [e EXCEPT !.left = @ - 1]

\* Time passes; no request takes longer than Latency to fill the cache.
Tick ==
  /\ \A t \in Task : task[t].step = "fill" => task[t].waited < Latency
  /\ age' = [v \in Version |-> Older(v)]
  /\ entry' = [k \in Key |-> Expire(entry[k], NoEntry)]
  /\ registry' = [s \in Resource |-> Expire(registry[s], NoRegistry)]
  /\ task' = [t \in Task |-> IF task[t].step = "fill"
                             THEN [task[t] EXCEPT !.waited = @ + 1]
                             ELSE task[t]]
  /\ UNCHANGED <<version, handler>>

TaskGoesOn(t) == SetEntry(t) \/ Register(t) \/ DeleteItem(t) \/ ReadAgain(t)

HandlerGoesOn(h) == ReadRegistry(h) \/ DeleteKeys(h)

Next ==
  \/ Tick
  \/ SilentWrite
  \/ \E t \in Task :
       \/ ReadItem(t) \/ ReadList(t)
       \/ \E k \in PrefsKey : WriteThrough(t, k)
       \/ \E k \in LeaseKey : \E next \in {"invalidate", "invalidateRead"} : WriteItem(t, k, next)
       \/ TaskGoesOn(t)
       \/ CallFails(t)
  \/ \E h \in Handler :
       \/ \E event \in Event : \E details \in DetailsOf(event) : WriteAndEmit(h, event, details)
       \/ HandlerGoesOn(h)
       \/ InvalidationFails(h)

Spec == Init /\ [][Next]_vars

FairSpec ==
  /\ Spec
  /\ WF_vars(Tick)
  /\ \A t \in Task : WF_vars(TaskGoesOn(t))
  /\ \A h \in Handler : WF_vars(HandlerGoesOn(h))

-----------------------------------------------------------------------------
(* What the cached reads should guarantee.                                 *)

\* Whatever fills race with whatever writes, and although most writes invalidate
\* little or nothing, an answer from the cache was superseded at most TTL + Latency
\* ago: a hit does not prolong an entry and a fill does not cache what it read long
\* before.
BoundedStaleness ==
  \A k \in Key :
    (Cached(k) /\ entry[k].version # version) => age[entry[k].version] <= TTL + Latency

\* When writes cease, every cached answer becomes and stays current.
CacheSettles == <>[](\A k \in Key : Cached(k) => entry[k].version = version)

=============================================================================
