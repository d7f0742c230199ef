------------------------------ MODULE CacheProofs ------------------------------
(* Proofs about the two kinds of caches: about OrgCache, for every set of    *)
(* keys, requests and handlers and all times to live and latencies, and      *)
(* about CachedLists, for every set of services, requests, rows and values.  *)
EXTENDS OrgCache, CachedLists, SequenceTheorems, TLAPS

USE DEF Cached

-----------------------------------------------------------------------------
(* Types.                                                                   *)

Doing == {Free} \cup Filling \cup Registering \cup Refreshing

\* What a request that is not free is doing, told by its step.
LEMMA TaskType ==
  ASSUME TypeOK, NEW t \in Task
  PROVE  /\ task[t] # Free => task[t] \in Filling \cup Registering \cup Refreshing
         /\ task[t].step = "fill" => task[t] \in Filling
         /\ task[t].step = "register" => task[t] \in Registering
         /\ task[t].step \in {"invalidate", "invalidateRead", "read"} => task[t] \in Refreshing
BY DEF TypeOK, Free, Filling, Registering, Refreshing

\* The rounds of an event are there and name resources.
LEMMA RoundsType ==
  ASSUME NEW event \in Event
  PROVE  RoundsOf(event) \in Seq(Seq(Resource)) \ {<<>>}
<1> DEFINE d == <<"dashboard">>  p == <<"properties">>
           ld == <<"leases", "dashboard">>  all == <<"dashboard", "leases", "tenants">>
<1>1. /\ d \in Seq(Resource) /\ p \in Seq(Resource)
      /\ ld \in Seq(Resource) /\ all \in Seq(Resource)
  BY DEF Resource
<1> HIDE DEF d, p, ld, all
<1>2. /\ <<p, d>> \in Seq(Seq(Resource)) \ {<<>>}
      /\ <<p>> \in Seq(Seq(Resource)) \ {<<>>}
      /\ <<ld>> \in Seq(Seq(Resource)) \ {<<>>}
      /\ <<all, d>> \in Seq(Seq(Resource)) \ {<<>>}
      /\ <<all, d, ld>> \in Seq(Seq(Resource)) \ {<<>>}
  BY <1>1
<1> QED
  BY <1>2 DEF RoundsOf, Event, d, p, ld, all

\* What is left of several rounds after the first one.
LEMMA TailNotEmpty ==
  ASSUME NEW S, NEW s \in Seq(S), s # <<>>, Len(s) # 1
  PROVE  Tail(s) \in Seq(S) \ {<<>>}
<1>1. Len(s) \in Nat /\ Len(s) # 0
  BY EmptySeq, LenProperties
<1>2. Tail(s) \in Seq(S) /\ Len(Tail(s)) = Len(s) - 1
  BY <1>1, HeadTailProperties
<1>3. Len(Tail(s)) # 0
  BY <1>1, <1>2
<1> QED
  BY <1>2, <1>3, EmptySeq

\* A miss makes the request fill the cache with the version it reads.
LEMMA QueryType ==
  ASSUME TypeOK, NEW t \in Task, NEW k \in Key, Query(t, k)
  PROVE  TypeOK'
<1>1. [step |-> "fill", key |-> k, version |-> version, waited |-> 0] \in Filling
  BY OrgCacheAssumption DEF TypeOK, Filling
<1> QED
  BY <1>1 DEF Query, TypeOK

\* Every step keeps the cache, the requests and the handlers well formed.
LEMMA TypingStep ==
  ASSUME TypeOK, [Next]_vars
  PROVE  TypeOK'
<1> USE OrgCacheAssumption
<1>1. CASE Tick
  <2>1. age' \in [Version -> 0 .. Stalest]
    BY <1>1 DEF Tick, Older, TypeOK, Stalest
  <2>2. entry' \in [Key -> [version : Version, left : 0 .. TTL]]
    <3> SUFFICES ASSUME NEW k \in Key
                 PROVE  Expire(entry[k], NoEntry) \in [version : Version, left : 0 .. TTL]
      BY <1>1 DEF Tick
    <3>1. entry[k] \in [version : Version, left : 0 .. TTL] /\ 0 \in Version
      BY DEF TypeOK, Version
    <3> QED
      BY <3>1 DEF Expire, NoEntry
  <2>3. registry' \in [Resource -> [keys : SUBSET ListKey, left : 0 .. RegTTL]]
    <3> SUFFICES ASSUME NEW s \in Resource
                 PROVE  Expire(registry[s], NoRegistry)
                          \in [keys : SUBSET ListKey, left : 0 .. RegTTL]
      BY <1>1 DEF Tick
    <3>1. registry[s] \in [keys : SUBSET ListKey, left : 0 .. RegTTL]
      BY DEF TypeOK
    <3> QED
      BY <3>1 DEF Expire, NoRegistry
  <2>4. task' \in [Task -> Doing]
    <3> SUFFICES ASSUME NEW t \in Task
                 PROVE  task'[t] \in Doing
      BY <1>1 DEF Tick
    <3>1. CASE task[t].step = "fill"
      <4>1. task[t] \in Filling /\ task[t].waited < Latency
        BY <1>1, <3>1, TaskType DEF Tick
      <4>2. [task[t] EXCEPT !.waited = @ + 1] \in Filling
        BY <4>1 DEF Filling
      <4> QED
        BY <1>1, <3>1, <4>2 DEF Tick, Doing
    <3>2. CASE task[t].step # "fill"
      BY <1>1, <3>2 DEF Tick, TypeOK, Doing
    <3> QED
      BY <3>1, <3>2
  <2> QED
    BY <1>1, <2>1, <2>2, <2>3, <2>4 DEF Tick, TypeOK, Doing
<1>2. CASE SilentWrite
  BY <1>2 DEF SilentWrite, Write, TypeOK, Version
<1>3. ASSUME NEW t \in Task, NEW k \in Key, Read(t, k)
      PROVE  TypeOK'
  BY <1>3, QueryType DEF Read
<1>4. ASSUME NEW t \in Task, NEW k \in LeaseKey, NEW next \in {"invalidate", "invalidateRead"},
             WriteItem(t, k, next)
      PROVE  TypeOK'
  <2>1. version' \in Version
    BY <1>4 DEF WriteItem, Write, TypeOK, Version
  <2>2. [step |-> next, key |-> k] \in Refreshing
    BY DEF Refreshing
  <2> QED
    BY <1>4, <2>1, <2>2 DEF WriteItem, TypeOK
<1>5. ASSUME NEW t \in Task, SetEntry(t)
      PROVE  TypeOK'
  <2>1. task[t] \in Filling
    BY <1>5, TaskType DEF SetEntry
  <2>2. [version |-> task[t].version, left |-> TTL] \in [version : Version, left : 0 .. TTL]
    BY <2>1 DEF Filling
  <2>3. entry' \in [Key -> [version : Version, left : 0 .. TTL]]
    BY <1>5, <2>2 DEF SetEntry, TypeOK
  <2>4. task[t].key \in ListKey => [step |-> "register", key |-> task[t].key] \in Registering
    BY DEF Registering
  <2>5. task' \in [Task -> Doing]
    BY <1>5, <2>4 DEF SetEntry, TypeOK, Doing
  <2> QED
    BY <1>5, <2>3, <2>5 DEF SetEntry, TypeOK, Doing
<1>6. ASSUME NEW t \in Task, Register(t)
      PROVE  TypeOK'
  <2>1. task[t].key \in ListKey
    BY <1>6, TaskType DEF Register, Registering
  <2>2. registry' \in [Resource -> [keys : SUBSET ListKey, left : 0 .. RegTTL]]
    BY <1>6, <2>1 DEF Register, KeysFound, TypeOK
  <2> QED
    BY <1>6, <2>2 DEF Register, TypeOK
<1>7. ASSUME NEW t \in Task, DeleteItem(t)
      PROVE  TypeOK'
  <2>1. task[t].key \in LeaseKey
    BY <1>7, TaskType DEF DeleteItem, Refreshing
  <2>2. [step |-> "read", key |-> task[t].key] \in Refreshing
    BY <2>1 DEF Refreshing
  <2>3. NoEntry \in [version : Version, left : 0 .. TTL]
    BY DEF NoEntry, Version
  <2> QED
    BY <1>7, <2>2, <2>3 DEF DeleteItem, TypeOK
<1>8. ASSUME NEW t \in Task, ReadAgain(t)
      PROVE  TypeOK'
  <2>1. task[t].key \in Key
    BY <1>8, TaskType, OrgCacheAssumption DEF ReadAgain, Refreshing, Key
  <2>2. CASE Query(t, task[t].key)
    BY <2>1, <2>2, QueryType
  <2>3. CASE ~ Query(t, task[t].key)
    BY <1>8, <2>3 DEF ReadAgain, TypeOK
  <2> QED
    BY <2>2, <2>3
<1>9. ASSUME NEW t \in Task, CallFails(t)
      PROVE  TypeOK'
  BY <1>9 DEF CallFails, TypeOK
<1>10. ASSUME NEW h \in Handler, NEW event \in Event, NEW details \in DetailsOf(event),
              WriteAndEmit(h, event, details)
       PROVE  TypeOK'
  <2>1. version' \in Version
    BY <1>10 DEF WriteAndEmit, Write, TypeOK, Version
  <2>2. details \in SUBSET Key
    BY DEF DetailsOf, Key
  <2>3. [event |-> event, rounds |-> RoundsOf(event), keys |-> details, missing |-> FALSE]
          \in Invalidating
    BY <2>2, RoundsType DEF Invalidating
  <2> QED
    BY <1>10, <2>1, <2>3 DEF WriteAndEmit, TypeOK
<1>11. ASSUME NEW h \in Handler, ReadRegistry(h)
       PROVE  TypeOK'
  <2> DEFINE rounds == handler[h].rounds  s == rounds[1][1]
  <2>1. handler[h] \in Invalidating /\ rounds[1] # <<>>
    BY <1>11 DEF ReadRegistry, TypeOK
  <2>2. rounds[1] \in Seq(Resource) /\ s \in Resource /\ Tail(rounds[1]) \in Seq(Resource)
    BY <2>1 DEF Invalidating
  <2>3. registry[s].keys \in SUBSET Key
    BY <2>2 DEF TypeOK, Key
  <2>4. [rounds EXCEPT ![1] = Tail(@)] \in Seq(Seq(Resource)) \ {<<>>}
    BY <2>1, <2>2 DEF Invalidating
  <2>5. handler'[h] = [handler[h] EXCEPT !.rounds = [rounds EXCEPT ![1] = Tail(@)],
                                         !.keys = @ \cup registry[s].keys,
                                         !.missing = @ \/ (s # "properties"
                                                            /\ registry[s].left = 0)]
    BY <1>11, <2>1 DEF ReadRegistry, TypeOK, Invalidating
  <2>6. handler'[h] \in Invalidating
    BY <2>1, <2>3, <2>4, <2>5 DEF Invalidating
  <2>7. handler' \in [Handler -> {Free} \cup Invalidating]
    BY <1>11, <2>6 DEF ReadRegistry, TypeOK
  <2> QED
    BY <1>11, <2>7 DEF ReadRegistry, TypeOK
<1>12. ASSUME NEW h \in Handler, DeleteKeys(h)
       PROVE  TypeOK'
  <2>1. handler[h] \in Invalidating
    BY <1>12 DEF DeleteKeys, TypeOK
  <2>2. NoEntry \in [version : Version, left : 0 .. TTL]
    BY DEF NoEntry, Version
  <2>3. entry' \in [Key -> [version : Version, left : 0 .. TTL]]
    BY <1>12, <2>2 DEF DeleteKeys, TypeOK
  <2>4. ASSUME Len(handler[h].rounds) # 1
        PROVE  [handler[h] EXCEPT !.rounds = Tail(@), !.keys = {}] \in Invalidating
    <3>1. handler[h].rounds \in Seq(Seq(Resource)) /\ handler[h].rounds # <<>>
      BY <2>1 DEF Invalidating
    <3>2. Tail(handler[h].rounds) \in Seq(Seq(Resource)) \ {<<>>}
      BY <2>4, <3>1, TailNotEmpty
    <3> QED
      BY <2>1, <3>2 DEF Invalidating
  <2>5. handler'[h] \in {Free} \cup Invalidating
    <3> DEFINE last == handler[h].missing \/ Len(handler[h].rounds) = 1
               rest == [handler[h] EXCEPT !.rounds = Tail(@), !.keys = {}]
    <3>1. handler' = [handler EXCEPT ![h] = IF last THEN Free ELSE rest]
      BY <1>12 DEF DeleteKeys
    <3>2. ~ last => rest \in Invalidating
      BY <2>4
    <3> HIDE DEF last, rest
    <3> QED
      BY <3>1, <3>2 DEF TypeOK
  <2>6. handler' \in [Handler -> {Free} \cup Invalidating]
    BY <1>12, <2>5 DEF DeleteKeys, TypeOK
  <2> QED
    BY <1>12, <2>3, <2>6 DEF DeleteKeys, TypeOK
<1>13. ASSUME NEW h \in Handler, InvalidationFails(h)
       PROVE  TypeOK'
  BY <1>13 DEF InvalidationFails, TypeOK
<1>14. ASSUME NEW t \in Task, NEW k \in PrefsKey, WriteThrough(t, k)
       PROVE  TypeOK'
  <2>1. version' \in Version /\ version' = version + 1
    BY <1>14 DEF WriteThrough, Write, TypeOK, Version
  <2>2. [step |-> "fill", key |-> k, version |-> version + 1, waited |-> 0] \in Filling
    BY <2>1 DEF Filling, Key
  <2> QED
    BY <1>14, <2>1, <2>2 DEF WriteThrough, TypeOK
<1>15. CASE UNCHANGED vars
  BY <1>15 DEF vars, TypeOK
<1>16. \A t \in Task : ReadItem(t) \/ ReadList(t) => \E k \in Key : Read(t, k)
  BY DEF ReadItem, ReadList, Key
<1> QED
  BY <1>1, <1>2, <1>3, <1>4, <1>5, <1>6, <1>7, <1>8, <1>9, <1>10, <1>11, <1>12, <1>13, <1>14,
     <1>15, <1>16
     DEF Next, TaskGoesOn, HandlerGoesOn

\* The cache, its registries, the requests and the handlers stay well formed.
THEOREM Typing == Spec => []TypeOK
<1>1. Init => TypeOK
  BY OrgCacheAssumption DEF Init, TypeOK, Version, Stalest, NoEntry, NoRegistry
<1> QED
  BY <1>1, TypingStep, PTL DEF Spec

-----------------------------------------------------------------------------
(* Staleness.  An entry gets older as its time to live runs out, so the sum *)
(* of the two is what an invariant can bound.                               *)

\* A version that has not been superseded has no age.
CurrentIsNew == \A v \in Version : v >= version => age[v] = 0

EntriesYoung ==
  \A k \in Key : Cached(k) => age[entry[k].version] + entry[k].left <= TTL + Latency

\* A request that is filling the cache holds nothing older than its own wait.
FillsYoung == \A t \in Task : task[t].step = "fill" => age[task[t].version] <= task[t].waited

AgeInv == CurrentIsNew /\ EntriesYoung /\ FillsYoung

\* Steps other than the clock: the database may be written, entries deleted, requests
\* moved on, as long as no fill is begun and no entry set.
LEMMA AgeQuietStep ==
  ASSUME TypeOK, TypeOK', AgeInv, UNCHANGED age, version <= version',
         \A k \in Key : entry'[k] \in {entry[k], NoEntry},
         \A t \in Task : task'[t] = task[t] \/ task'[t].step # "fill"
  PROVE  AgeInv'
<1>1. CurrentIsNew'
  BY DEF AgeInv, CurrentIsNew, TypeOK, Version
<1>2. EntriesYoung'
  BY DEF AgeInv, EntriesYoung, NoEntry
<1>3. FillsYoung'
  BY DEF AgeInv, FillsYoung
<1> QED
  BY <1>1, <1>2, <1>3 DEF AgeInv

\* A request that misses reads the current version.
LEMMA AgeQueryStep ==
  ASSUME TypeOK, AgeInv, NEW t \in Task, NEW k \in Key, Query(t, k)
  PROVE  AgeInv'
<1>1. UNCHANGED <<version, age, entry>>
  BY DEF Query
<1>2. age[version] = 0
  BY DEF TypeOK, Version, AgeInv, CurrentIsNew
<1>3. FillsYoung'
  <2> SUFFICES ASSUME NEW q \in Task, task'[q].step = "fill"
               PROVE  age[task'[q].version] <= task'[q].waited
    BY <1>1 DEF FillsYoung
  <2>1. CASE q = t
    BY <1>2, <2>1 DEF Query, TypeOK
  <2>2. CASE q # t
    BY <2>2 DEF Query, AgeInv, FillsYoung, TypeOK
  <2> QED
    BY <2>1, <2>2
<1> QED
  BY <1>1, <1>3 DEF AgeInv, CurrentIsNew, EntriesYoung

\* A request that writes through sets what it wrote, which nothing has superseded.
LEMMA AgeWriteStep ==
  ASSUME TypeOK, TypeOK', AgeInv, NEW t \in Task, NEW k \in PrefsKey, WriteThrough(t, k)
  PROVE  AgeInv'
<1>1. UNCHANGED <<age, entry>> /\ version' = version + 1 /\ version' \in Version
  BY DEF WriteThrough, Write, TypeOK
<1>2. age[version + 1] = 0
  BY <1>1 DEF TypeOK, Version, AgeInv, CurrentIsNew
<1>3. CurrentIsNew'
  BY <1>1 DEF TypeOK, Version, AgeInv, CurrentIsNew
<1>4. FillsYoung'
  <2> SUFFICES ASSUME NEW q \in Task, task'[q].step = "fill"
               PROVE  age[task'[q].version] <= task'[q].waited
    BY <1>1 DEF FillsYoung
  <2>1. CASE q = t
    BY <1>2, <2>1 DEF WriteThrough, TypeOK
  <2>2. CASE q # t
    BY <2>2 DEF WriteThrough, AgeInv, FillsYoung, TypeOK
  <2> QED
    BY <2>1, <2>2
<1> QED
  BY <1>1, <1>3, <1>4 DEF AgeInv, EntriesYoung

\* A tick adds one to the age of a superseded version, takes one from the time to live
\* of an entry and adds one to the wait of a request.
LEMMA AgeTickStep ==
  ASSUME TypeOK, TypeOK', AgeInv, Tick
  PROVE  AgeInv'
<1>1. \A v \in Version : /\ age[v] \in Nat /\ age'[v] \in Nat /\ age'[v] <= age[v] + 1
                         /\ v >= version => age'[v] = age[v]
  BY OrgCacheAssumption DEF Tick, Older, TypeOK, Version, Stalest
<1>2. CurrentIsNew'
  BY <1>1 DEF Tick, AgeInv, CurrentIsNew
<1>3. EntriesYoung'
  <2> SUFFICES ASSUME NEW k \in Key, entry'[k].left > 0
               PROVE  age'[entry'[k].version] + entry'[k].left <= TTL + Latency
    BY DEF EntriesYoung
  <2>1. entry'[k] = Expire(entry[k], NoEntry) /\ entry[k] \in [version : Version, left : 0 .. TTL]
    BY DEF Tick, TypeOK
  <2>2. /\ entry[k].left > 0 /\ entry'[k].version = entry[k].version
        /\ entry'[k].left = entry[k].left - 1 /\ entry[k].left \in Nat
    BY <2>1, OrgCacheAssumption DEF Expire, NoEntry
  <2>3. age[entry[k].version] + entry[k].left <= TTL + Latency
    BY <2>2 DEF AgeInv, EntriesYoung
  <2>4. entry[k].version \in Version
    BY <2>1
  <2> QED
    BY <1>1, <2>2, <2>3, <2>4, OrgCacheAssumption
<1>4. FillsYoung'
  <2> SUFFICES ASSUME NEW t \in Task, task'[t].step = "fill"
               PROVE  age'[task'[t].version] <= task'[t].waited
    BY DEF FillsYoung
  <2>1. task[t].step = "fill" /\ task[t] \in Filling
    <3>1. task[t].step = "fill"
      BY DEF Tick
    <3> QED
      BY <3>1, TaskType
  <2>2. task'[t].version = task[t].version /\ task'[t].waited = task[t].waited + 1
    BY <2>1 DEF Tick, Filling
  <2>3. /\ age[task[t].version] <= task[t].waited
        /\ task[t].waited \in Nat /\ task[t].version \in Version
    BY <2>1, OrgCacheAssumption DEF AgeInv, FillsYoung, Filling
  <2> QED
    BY <1>1, <2>2, <2>3
<1> QED
  BY <1>2, <1>3, <1>4 DEF AgeInv

\* Every step keeps the bound on the ages.
LEMMA AgeStep ==
  ASSUME TypeOK, TypeOK', AgeInv, [Next]_vars
  PROVE  AgeInv'
<1> USE DEF TypeOK
<1>1. CASE Tick
  BY <1>1, AgeTickStep
<1>2. ASSUME NEW t \in Task, NEW k \in Key, Read(t, k)
      PROVE  AgeInv'
  BY <1>2, AgeQueryStep DEF Read
<1>3. ASSUME NEW t \in Task, SetEntry(t)
      PROVE  AgeInv'
  <2>1. task[t] \in Filling
    BY <1>3, TaskType DEF SetEntry
  <2>2. /\ UNCHANGED <<version, age>>
        /\ entry' = [entry EXCEPT ![task[t].key] = [version |-> task[t].version, left |-> TTL]]
        /\ \A q \in Task : task'[q] = task[q] \/ task'[q].step # "fill"
    BY <1>3 DEF SetEntry, Free
  <2>3. age[task[t].version] \in Nat /\ age[task[t].version] <= Latency
    BY <1>3, <2>1, OrgCacheAssumption DEF SetEntry, AgeInv, FillsYoung, Filling, Stalest
  <2>4. EntriesYoung'
    BY <2>1, <2>2, <2>3, OrgCacheAssumption DEF AgeInv, EntriesYoung, Filling
  <2>5. CurrentIsNew' /\ FillsYoung'
    BY <2>2 DEF AgeInv, CurrentIsNew, FillsYoung
  <2> QED
    BY <2>4, <2>5 DEF AgeInv
<1>4. ASSUME NEW t \in Task, ReadAgain(t)
      PROVE  AgeInv'
  <2>1. task[t].key \in Key
    BY <1>4, TaskType, OrgCacheAssumption DEF ReadAgain, Refreshing, Key
  <2>2. CASE Query(t, task[t].key)
    BY <2>1, <2>2, AgeQueryStep
  <2>3. CASE ~ Query(t, task[t].key)
    <3> /\ UNCHANGED <<version, age, entry>>
        /\ \A q \in Task : task'[q] = task[q] \/ task'[q].step # "fill"
      BY <1>4, <2>3 DEF ReadAgain, Free
    <3> QED
      BY AgeQuietStep DEF Version
  <2> QED
    BY <2>2, <2>3
<1>5. ASSUME NEW t \in Task, Register(t) \/ DeleteItem(t) \/ CallFails(t)
      PROVE  AgeInv'
  <2>1. UNCHANGED <<version, age>> /\ \A k \in Key : entry'[k] \in {entry[k], NoEntry}
    BY <1>5 DEF Register, DeleteItem, CallFails
  <2>2. \A q \in Task : task'[q] = task[q] \/ task'[q].step # "fill"
    BY <1>5 DEF Register, DeleteItem, CallFails, Free
  <2> QED
    BY <2>1, <2>2, AgeQuietStep DEF Version
<1>6. ASSUME Write, UNCHANGED <<age, entry>>,
             \A q \in Task : task'[q] = task[q] \/ task'[q].step # "fill"
      PROVE  AgeInv'
  BY <1>6, AgeQuietStep DEF Write, Version
<1>7. CASE SilentWrite
  BY <1>6, <1>7 DEF SilentWrite
<1>8. ASSUME NEW t \in Task, NEW k \in LeaseKey, NEW next \in {"invalidate", "invalidateRead"},
             WriteItem(t, k, next)
      PROVE  AgeInv'
  <2> \A q \in Task : task'[q] = task[q] \/ task'[q].step # "fill"
    BY <1>8 DEF WriteItem
  <2> QED
    BY <1>6, <1>8 DEF WriteItem
<1>9. ASSUME NEW h \in Handler, NEW event \in Event, NEW details \in DetailsOf(event),
             WriteAndEmit(h, event, details)
      PROVE  AgeInv'
  BY <1>6, <1>9 DEF WriteAndEmit
<1>10. ASSUME NEW h \in Handler, HandlerGoesOn(h) \/ InvalidationFails(h)
       PROVE  AgeInv'
  <2> UNCHANGED <<version, age, task>> /\ \A k \in Key : entry'[k] \in {entry[k], NoEntry}
    BY <1>10 DEF HandlerGoesOn, ReadRegistry, DeleteKeys, InvalidationFails
  <2> QED
    BY AgeQuietStep DEF Version
<1>11. CASE UNCHANGED vars
  BY <1>11, AgeQuietStep DEF vars, Version
<1>12. ASSUME NEW t \in Task, NEW k \in PrefsKey, WriteThrough(t, k)
       PROVE  AgeInv'
  BY <1>12, AgeWriteStep
<1>13. \A t \in Task : ReadItem(t) \/ ReadList(t) => \E k \in Key : Read(t, k)
  BY DEF ReadItem, ReadList, Key
<1> QED
  BY <1>1, <1>2, <1>3, <1>4, <1>5, <1>7, <1>8, <1>9, <1>10, <1>11, <1>12, <1>13
     DEF Next, TaskGoesOn

\* Whatever races with whatever, no answer from the cache was superseded longer than
\* TTL + Latency ago.
THEOREM BoundedStalenessAlways == Spec => []BoundedStaleness
<1>1. Init => AgeInv
  BY OrgCacheAssumption DEF Init, AgeInv, CurrentIsNew, EntriesYoung, FillsYoung, NoEntry, Free
<1>2. TypeOK /\ AgeInv => BoundedStaleness
  <2> SUFFICES ASSUME TypeOK, AgeInv, NEW k \in Key, entry[k].left > 0
               PROVE  age[entry[k].version] <= TTL + Latency
    BY DEF BoundedStaleness
  <2>1. entry[k].version \in Version /\ entry[k].left \in Nat
    BY OrgCacheAssumption DEF TypeOK
  <2>2. age[entry[k].version] \in Nat
    BY <2>1, OrgCacheAssumption DEF TypeOK, Stalest
  <2> QED
    BY <2>1, <2>2, OrgCacheAssumption DEF AgeInv, EntriesYoung
<1> QED
  BY <1>1, <1>2, AgeStep, Typing, PTL DEF Spec

-----------------------------------------------------------------------------
(* Types of the cached lists.                                               *)

\* A request that has ended is well formed where there is a row to choose.
LEMMA IdleType ==
  ASSUME CLTypeOK, NEW q \in Request
  PROVE  Idle \in Work /\ Nothing \in Entry /\ Idle.at = "idle"
<1>1. \E r \in Row : TRUE
  BY DEF CLTypeOK, Work
<1>2. (CHOOSE r \in Row : TRUE) \in Row
  BY <1>1
<1> QED
  BY <1>2 DEF Idle, Work, All, At, Entry

\* A value is cached with the time it has to live.
LEMMA StoredType ==
  ASSUME NEW k \in {"list", "row"}, NEW rows \in Content
  PROVE  Stored(k, rows) \in Entry
BY CachedListsAssumption DEF Stored, Entry

\* Time leaves an entry as it is or takes it away.
LEMMA EntryType ==
  ASSUME NEW e \in Entry
  PROVE  /\ e.kind \in {"none", "list", "row"} /\ e.rows \in Content
         /\ Aged(e) \in Entry
         /\ Aged(e).kind # "none" => Aged(e).kind = e.kind /\ Aged(e).rows = e.rows
<1>1. Empty \in Content
  BY DEF Empty, Content
<1>2. CASE e = Nothing
  BY <1>1, <1>2 DEF Nothing, Aged, Entry
<1>3. CASE e \in [kind : {"list", "row"}, rows : Content, left : 1..ListTTL]
  <2>1. e.left \in Nat /\ 1 <= e.left /\ e.left <= ListTTL
    BY <1>3, CachedListsAssumption
  <2>2. CASE e.left <= 1
    BY <1>3, <2>2 DEF Aged, Nothing, Entry
  <2>3. CASE e.left > 1
    <3>1. [e EXCEPT !.left = @ - 1] \in [kind : {"list", "row"}, rows : Content, left : 1..ListTTL]
      BY <1>3, <2>1, <2>3, CachedListsAssumption
    <3> QED
      BY <1>3, <2>1, <2>3, <3>1 DEF Aged, Entry
  <2> QED
    BY <2>1, <2>2, <2>3
<1> QED
  BY <1>2, <1>3 DEF Entry

\* A request that begins is well formed, and the bound on writes holds.
LEMMA StartType ==
  ASSUME CLTypeOK, NEW q \in Request, NEW t \in Work, Start(q, t),
         t.op \notin {"list", "get"} => MayWrite
  PROVE  work' \in [Request -> Work] /\ writes' \in 0..MaxWrites /\ blamed' \in BOOLEAN
<1>1. work' \in [Request -> Work] /\ blamed' \in BOOLEAN
  BY DEF Start, CLTypeOK
<1>2. writes' \in 0..MaxWrites
  BY CachedListsAssumption DEF Start, CLTypeOK, MayWrite
<1> QED
  BY <1>1, <1>2

\* A request that goes on changes nothing but what it is doing.
LEMMA GoType ==
  ASSUME CLTypeOK, NEW q \in Request, NEW t \in Work, Go(q, t)
  PROVE  work' \in [Request -> Work] /\ writes' \in 0..MaxWrites /\ blamed' \in BOOLEAN
BY DEF Go, CLTypeOK

\* A request that only moves to another step keeps its row and value.
LEMMA ToType ==
  ASSUME CLTypeOK, NEW q \in Request, NEW at \in At
  PROVE  /\ To(q, at) \in Work /\ To(q, at).at = at
         /\ To(q, at).op = work[q].op /\ To(q, at).row = work[q].row
         /\ To(q, at).value = work[q].value
BY DEF To, Work, CLTypeOK

\* What an edit makes of a list are rows again.
LEMMA EditedType ==
  ASSUME CLTypeOK, NEW q \in Request
  PROVE  Edited(work[q]) \in Content
<1> DEFINE t == work[q]
<1>1. t \in Work /\ t.seen.rows \in Content
  BY EntryType DEF CLTypeOK, Work
<1>2. t.row \in Row /\ t.value \in Value \cup {NoRow}
  BY <1>1 DEF Work
<1>3. /\ AfterCreate(t.seen.rows, t.row, t.value) \in Content
      /\ AfterUpsert(t.seen.rows, t.row, t.value) \in Content
      /\ AfterDelete(t.seen.rows, t.row) \in Content
      /\ AfterDeleteKin(t.seen.rows, t.row) \in Content
  BY <1>1, <1>2 DEF AfterCreate, AfterUpsert, AfterDelete, AfterDeleteKin, Content, Empty
<1> QED
  BY <1>3 DEF Edited

\* Every step keeps the table, the cache and the requests well formed.
LEMMA CLTypingStep ==
  ASSUME CLTypeOK, [CLNext]_clVars
  PROVE  CLTypeOK'
<1>1. ASSUME NEW q \in Request, ListMiss(q)
      PROVE  CLTypeOK'
  <2>1. [Idle EXCEPT !.at = "load"] \in Work
    BY IdleType DEF Work, At
  <2>2. [Idle EXCEPT !.at = "load"].op = "list"
    BY DEF Idle
  <2> QED
    BY <1>1, <2>1, <2>2, StartType DEF ListMiss, CLTypeOK
<1>2. ASSUME NEW q \in Request, LoadList(q)
      PROVE  CLTypeOK'
  <2>1. Stored("list", table) \in Entry
    BY StoredType DEF CLTypeOK
  <2>2. [work[q] EXCEPT !.at = "store", !.seen = Stored("list", table)] \in Work
    BY <2>1 DEF Work, At, CLTypeOK
  <2> QED
    BY <1>2, <2>2, GoType DEF LoadList, CLTypeOK
<1>3. ASSUME NEW q \in Request, StoreList(q)
      PROVE  CLTypeOK'
  <2>1. work[q].seen \in Entry
    BY DEF CLTypeOK, Work
  <2> QED
    BY <1>3, <2>1, IdleType, GoType DEF StoreList, CLTypeOK
<1>4. ASSUME NEW q \in Request, NEW r \in Row, GetMiss(q, r)
      PROVE  CLTypeOK'
  <2>1. [Idle EXCEPT !.op = "get", !.row = r, !.at = "row"] \in Work
    BY IdleType DEF Work, At, All
  <2>2. [Idle EXCEPT !.op = "get", !.row = r, !.at = "row"].op = "get"
    BY DEF Idle
  <2> QED
    BY <1>4, <2>1, <2>2, StartType DEF GetMiss, CLTypeOK
<1>5. ASSUME NEW q \in Request, GetRow(q)
      PROVE  CLTypeOK'
  <2> DEFINE v == table[work[q].row]
             next == [work[q] EXCEPT !.value = v,
                                     !.at = IF style.get = "rewrite" THEN "read" ELSE "storeRow"]
  <2>1. v \in Value \cup {NoRow}
    BY DEF CLTypeOK, Work, Content
  <2>2. next \in Work
    BY <2>1 DEF Work, At, CLTypeOK
  <2>3. Go(q, IF v = NoRow /\ style.get # "replace" THEN Idle ELSE next)
    BY <1>5 DEF GetRow
  <2> HIDE DEF next
  <2> QED
    BY <1>5, <2>2, <2>3, IdleType, GoType DEF GetRow, CLTypeOK
<1>6. ASSUME NEW q \in Request, StoreRow(q)
      PROVE  CLTypeOK'
  <2> DEFINE one == [Empty EXCEPT ![work[q].row] = work[q].value]
             e == IF work[q].value = NoRow THEN Nothing ELSE Stored("row", one)
             next == IF work[q].op = "delete" THEN To(q, "remove") ELSE Idle
  <2>1. one \in Content
    BY DEF CLTypeOK, Work, Content, Empty
  <2>2. e \in Entry
    BY <2>1, StoredType, IdleType
  <2>3. next \in Work
    BY ToType, IdleType DEF At
  <2>4. /\ Go(q, next)
        /\ IF style.get = "own" THEN own' = [own EXCEPT ![work[q].row] = e] /\ UNCHANGED list
           ELSE list' = e /\ UNCHANGED own
    BY <1>6 DEF StoreRow
  <2> HIDE DEF e, next
  <2>5. list' \in Entry /\ own' \in [Row -> Entry]
    BY <2>2, <2>4 DEF CLTypeOK
  <2> QED
    BY <1>6, <2>3, <2>4, <2>5, GoType DEF StoreRow, CLTypeOK
<1>7. ASSUME NEW q \in Request, NEW r \in Row, NEW v \in Value, Create(q, r, v)
      PROVE  CLTypeOK'
  <2> DEFINE next == [Idle EXCEPT !.op = "create", !.row = r, !.value = v, !.at = "read"]
  <2>1. next \in Work
    BY IdleType DEF Work, At, All
  <2>2. table' \in Content /\ born' \in SUBSET Row /\ MayWrite /\ Start(q, next)
    BY <1>7 DEF Create, CLTypeOK, Content
  <2> HIDE DEF next
  <2> QED
    BY <1>7, <2>1, <2>2, StartType DEF Create, CLTypeOK
<1>8. ASSUME NEW q \in Request, NEW r \in Row, NEW v \in Value, Update(q, r, v)
      PROVE  CLTypeOK'
  <2> DEFINE next == [Idle EXCEPT !.op = "update", !.row = r, !.value = v, !.at = "write"]
  <2>1. next \in Work
    BY IdleType DEF Work, At, All
  <2>2. MayWrite /\ Start(q, next)
    BY <1>8 DEF Update
  <2> HIDE DEF next
  <2> QED
    BY <1>8, <2>1, <2>2, StartType DEF Update, CLTypeOK
<1>9. ASSUME NEW q \in Request, UpdateWrite(q)
      PROVE  CLTypeOK'
  <2>1. work[q].row \in Row /\ work[q].value \in Value \cup {NoRow}
    BY DEF CLTypeOK, Work
  <2>2. table' \in Content
    BY <1>9, <2>1 DEF UpdateWrite, CLTypeOK, Content
  <2>3. To(q, "read") \in Work
    BY ToType DEF At
  <2> QED
    BY <1>9, <2>2, <2>3, IdleType, GoType DEF UpdateWrite, CLTypeOK
<1>10. ASSUME NEW q \in Request, NEW r \in Row, Delete(q, r)
       PROVE  CLTypeOK'
  <2>1. PICK at \in {"row", "remove", "read"} :
          Start(q, [Idle EXCEPT !.op = "delete", !.row = r, !.at = at])
    BY <1>10 DEF Delete
  <2>2. [Idle EXCEPT !.op = "delete", !.row = r, !.at = at] \in Work
    BY IdleType DEF Work, At, All
  <2> QED
    BY <1>10, <2>1, <2>2, StartType DEF Delete, CLTypeOK
<1>11. ASSUME NEW q \in Request, Remove(q)
       PROVE  CLTypeOK'
  <2>1. table' \in Content
    BY <1>11 DEF Remove, CLTypeOK, Work, Content
  <2>2. To(q, "read") \in Work
    BY ToType DEF At
  <2> QED
    BY <1>11, <2>1, <2>2, IdleType, GoType DEF Remove, CLTypeOK
<1>12. ASSUME NEW q \in Request, EditRead(q)
       PROVE  CLTypeOK'
  <2>1. [work[q] EXCEPT !.at = "edit", !.seen = list] \in Work
    BY DEF Work, At, CLTypeOK
  <2> QED
    BY <1>12, <2>1, GoType DEF EditRead, CLTypeOK
<1>13. ASSUME NEW q \in Request, EditStore(q)
       PROVE  CLTypeOK'
  <2>1. Stored("list", Edited(work[q])) \in Entry
    BY EditedType, StoredType
  <2>2. list' \in Entry
    BY <1>13, <2>1 DEF EditStore, CLTypeOK
  <2>3. To(q, "remove") \in Work
    BY ToType DEF At
  <2> QED
    BY <1>13, <2>2, <2>3, IdleType, GoType DEF EditStore, CLTypeOK
<1>14. ASSUME NEW q \in Request, Fail(q)
       PROVE  CLTypeOK'
  BY <1>14, IdleType DEF Fail, CLTypeOK
<1>15. CASE Hour
  <2>1. list' \in Entry /\ own' \in [Row -> Entry]
    BY <1>15, EntryType DEF Hour, CLTypeOK
  <2>2. blamed' \in BOOLEAN
    BY <1>15 DEF Hour, Excused, CLTypeOK
  <2> QED
    BY <1>15, <2>1, <2>2 DEF Hour, CLTypeOK
<1>16. CASE ResetCache
  BY <1>16 DEF ResetCache, Excused, CLTypeOK, Entry
<1>17. CASE UNCHANGED clVars
  BY <1>17 DEF clVars, CLTypeOK
<1> QED
  BY <1>1, <1>2, <1>3, <1>4, <1>5, <1>6, <1>7, <1>8, <1>9, <1>10, <1>11, <1>12, <1>13, <1>14,
     <1>15, <1>16, <1>17 DEF CLNext, GoesOn

\* The table, the cached list, the rows cached singly and the requests of every service are
\* always well formed: an entry has at most ListTTL left and holds rows of the table's kind.
THEOREM CLTyping == CLSpec => []CLTypeOK
<1>1. CLInit => CLTypeOK
  <2> SUFFICES ASSUME CLInit PROVE CLTypeOK
    OBVIOUS
  <2>1. (CHOOSE r \in Row : TRUE) \in Row
    BY DEF CLInit
  <2>2. Idle \in Work /\ Empty \in Content
    BY <2>1 DEF Idle, Work, All, At, Entry, Empty, Content
  <2>3. table \in Content
    <3>1. PICK r \in Row, v \in Value : table = [Empty EXCEPT ![r] = v]
      BY DEF CLInit
    <3>2. [Empty EXCEPT ![r] = v] \in Content
      BY <2>2 DEF Content
    <3> QED
      BY <3>1, <3>2
  <2>4. writes \in 0..MaxWrites
    <3>1. MaxWrites \in Nat
      BY CachedListsAssumption
    <3> QED
      BY <3>1 DEF CLInit
  <2>5. list \in Entry /\ own \in [Row -> Entry] /\ work \in [Request -> Work]
    BY <2>2 DEF CLInit, Entry
  <2>6. style \in Styles /\ born \in SUBSET Row /\ blamed \in BOOLEAN
    BY DEF CLInit
  <2> QED
    BY <2>3, <2>4, <2>5, <2>6 DEF CLTypeOK
<1> QED
  BY <1>1, CLTypingStep, PTL DEF CLSpec

-----------------------------------------------------------------------------
(* What a cached list shows.                                                *)

\* The services whose edits are carried to the list and take away no other row.
Sane == style.carries /\ ~style.kin /\ ("get" \in style.routes => style.get # "replace")

\* At most one request is under way.
Alone == \A q, r \in InFlight : q = r

\* What becomes of the rows of the table, once the request t has ended.
Left(t, rows) ==
  IF t.op = "delete" /\ ~style.rowFirst THEN [rows EXCEPT ![t.row] = NoRow] ELSE rows

\* An entry that t has still to edit becomes what t leaves.
Owed(e, t, rows) ==
  e.kind # "none" =>
    /\ e.kind = "list"
    /\ Edited([t EXCEPT !.seen = e]) = Left(t, rows)
    /\ t.op # "create" /\ e.rows = Empty => Left(t, rows) = Empty

\* An entry is absent or the list of these rows.
Shows(e, rows) == e.kind # "none" => e.kind = "list" /\ e.rows = rows

\* What the request t, that nobody disturbs, has made of the list e and the rows so far.
Served(t, e, rows) ==
  /\ t.at \in {"idle", "load", "row", "storeRow", "write"} => Shows(e, rows)
  /\ t.at = "store" => Shows(e, rows) /\ t.seen.kind = "list" /\ t.seen.rows = rows
  /\ t.at \in {"row", "storeRow"} => style.get = "own" \/ (style.get = "rewrite" /\ t.op = "get")
  /\ t.at = "storeRow" => style.get = "own"
  /\ t.at = "write" => t.op = "update" /\ (style.save # "no" => rows[t.row] # NoRow)
  /\ t.at = "read" => Owed(e, t, rows)
  /\ t.at = "edit" => /\ Owed(t.seen, t, rows)
                      /\ e.kind # "none" => t.seen.kind = "list" /\ e.rows = t.seen.rows
                      /\ e.kind \in {"none", "list"}
  /\ t.at = "remove" => t.op = "delete" /\ Shows(e, Left(t, rows))

\* The inductive invariant: while nobody is to blame, at most one request is under way and it
\* has done to the list just what its steps so far do.
Undisturbed ==
  Sane /\ ~blamed =>
    /\ Alone
    /\ InFlight = {} => Shows(list, table)
    /\ \A q \in InFlight : Served(work[q], list, table)

USE DEF Shows

\* What the assumption on the services says of the one at work.
LEMMA StyleType ==
  ASSUME CLTypeOK
  PROVE  /\ style.get = "own" => style.rowFirst
         /\ style.get \in {"uncached", "replace", "rewrite", "own"}
         /\ style.save \in {"no", "row", "listed"}
         /\ style.rowFirst \in BOOLEAN /\ style.kin \in BOOLEAN
         /\ \A q \in Request : work[q] \in Work /\ work[q].seen \in Entry
<1>1. style \in Styles /\ style \in Style
  BY CachedListsAssumption DEF CLTypeOK
<1>2. style.get = "own" => style.rowFirst
  BY <1>1, CachedListsAssumption
<1>3. \A q \in Request : work[q] \in Work /\ work[q].seen \in Entry
  BY DEF CLTypeOK, Work
<1> QED
  BY <1>1, <1>2, <1>3 DEF Style

\* What a request makes of an entry, told by its operation.
LEMMA EditedBy ==
  ASSUME NEW t \in Work, NEW e \in Entry, ~style.kin, NEW rows, e.rows = rows
  PROVE  LET edited == Edited([t EXCEPT !.seen = e]) IN
         /\ t.op = "create" => edited = [rows EXCEPT ![t.row] = t.value]
         /\ t.op = "delete" => edited = [rows EXCEPT ![t.row] = NoRow]
         /\ t.op \notin {"create", "delete"} =>
              edited = [rows EXCEPT ![t.row] = IF @ = NoRow THEN NoRow ELSE t.value]
<1> DEFINE u == [t EXCEPT !.seen = e]
<1>1. u.op = t.op /\ u.row = t.row /\ u.value = t.value /\ u.seen = e
  BY DEF Work
<1> HIDE DEF u
<1>2. u.seen.rows = rows
  BY <1>1
<1>3. CASE t.op = "create"
  BY <1>1, <1>2, <1>3 DEF Edited, AfterCreate, u
<1>4. CASE t.op = "delete"
  BY <1>1, <1>2, <1>4 DEF Edited, AfterDelete, u
<1>5. CASE t.op \notin {"create", "delete"}
  <2>1. Edited(u) = AfterUpsert(rows, t.row, t.value)
    BY <1>1, <1>2, <1>5 DEF Edited
  <2> QED
    BY <1>5, <2>1 DEF AfterUpsert, u
<1> QED
  BY <1>3, <1>4, <1>5

\* An entry that shows the table is owed what the operation makes of it.
LEMMA OwedBy ==
  ASSUME CLTypeOK, NEW t \in Work, Sane, NEW rows, Shows(list, table),
         t.op = "create" => Left(t, rows) = [table EXCEPT ![t.row] = t.value],
         t.op = "delete" => Left(t, rows) = [table EXCEPT ![t.row] = NoRow],
         t.op \notin {"create", "delete"} =>
           Left(t, rows) = [table EXCEPT ![t.row] = IF @ = NoRow THEN NoRow ELSE t.value]
  PROVE  Owed(list, t, rows)
<1> DEFINE before == table  after == Left(t, rows)
<1>1. ASSUME list.kind # "none"
      PROVE  list.kind = "list" /\ Edited([t EXCEPT !.seen = list]) = after
  <2>1. list.kind = "list" /\ list.rows = before /\ ~style.kin /\ list \in Entry
    BY <1>1 DEF Sane, CLTypeOK
  <2> DEFINE edited == Edited([t EXCEPT !.seen = list])
  <2>2. /\ t.op = "create" => edited = [before EXCEPT ![t.row] = t.value]
        /\ t.op = "delete" => edited = [before EXCEPT ![t.row] = NoRow]
        /\ t.op \notin {"create", "delete"} =>
             edited = [before EXCEPT ![t.row] = IF @ = NoRow THEN NoRow ELSE t.value]
    BY <2>1, EditedBy
  <2> HIDE DEF edited
  <2>3. edited = after
    BY <2>2
  <2> QED
    BY <2>1, <2>3 DEF edited
<1>2. t.op # "create" /\ before = Empty => after = Empty
  <2>1. t.row \in Row
    BY DEF Work
  <2>2. [Empty EXCEPT ![t.row] = NoRow] = Empty
    BY <2>1 DEF Empty
  <2>3. [Empty EXCEPT ![t.row] = IF @ = NoRow THEN NoRow ELSE t.value] = Empty
    BY <2>1 DEF Empty
  <2> QED
    BY <2>2, <2>3
<1> QED
  BY <1>1, <1>2 DEF Owed

\* Served depends on the service only, which never changes.
LEMMA ServedLater ==
  ASSUME UNCHANGED style, NEW q, Served(work'[q], list', table')
  PROVE  Served(work[q], list, table)'
BY DEF Served, Owed, Left, Edited

\* A request begins, with nobody disturbing it.
LEMMA StartServed ==
  ASSUME CLTypeOK, Undisturbed, Sane, ~blamed', NEW q \in Request, NEW t \in Work, Start(q, t),
         UNCHANGED style, t.at # "idle", Shows(list, table) => Served(t, list', table')
  PROVE  Undisturbed'
<1>1. ~blamed /\ InFlight = {}
  BY DEF Start
<1>2. Shows(list, table)
  BY <1>1 DEF Undisturbed
<1>3. work'[q] = t /\ \A r \in Request \ {q} : work'[r] = work[r]
  BY DEF Start, CLTypeOK
<1>4. InFlight' = {q}
  BY <1>1, <1>3 DEF InFlight
<1>5. Served(work[q], list, table)'
  BY <1>2, <1>3, ServedLater
<1> QED
  BY <1>4, <1>5 DEF Undisturbed, Alone

\* A request goes on, and so does only it.
LEMMA GoServed ==
  ASSUME CLTypeOK, Undisturbed, Sane, ~blamed, NEW q \in Request, q \in InFlight, NEW t, Go(q, t),
         UNCHANGED style,
         Served(work[q], list, table) =>
           IF t.at = "idle" THEN Shows(list', table') ELSE Served(t, list', table')
  PROVE  Undisturbed'
<1>1. Served(work[q], list, table) /\ \A r \in Request \ {q} : work[r].at = "idle"
  BY DEF Undisturbed, Alone, InFlight
<1>2. work'[q] = t /\ \A r \in Request \ {q} : work'[r] = work[r]
  BY DEF Go, CLTypeOK
<1>3. InFlight' = IF t.at = "idle" THEN {} ELSE {q}
  BY <1>1, <1>2 DEF InFlight
<1>4. t.at # "idle" => Served(work[q], list, table)'
  BY <1>1, <1>2, ServedLater
<1> QED
  BY <1>1, <1>3, <1>4 DEF Undisturbed, Alone

\* Time takes an entry away or leaves what it shows.
LEMMA AgedServed ==
  ASSUME CLTypeOK, Undisturbed, UNCHANGED <<style, table, work>>,
         list'.kind # "none" => list'.kind = list.kind /\ list'.rows = list.rows,
         blamed' = Excused(list')
  PROVE  Undisturbed'
<1> SUFFICES ASSUME Sane, ~blamed'
             PROVE  Undisturbed'
  BY DEF Undisturbed, Sane
<1>1. InFlight' = InFlight
  BY DEF InFlight
<1>2. CASE blamed
  <2>1. list'.kind = "none" /\ InFlight = {}
    BY <1>2 DEF Excused
  <2> QED
    BY <1>1, <2>1 DEF Undisturbed, Alone
<1>3. CASE ~blamed
  <2>1. ASSUME NEW q \in InFlight
        PROVE  Served(work[q], list', table)
    <3>1. Served(work[q], list, table) /\ work[q] \in Work
      BY <1>3, StyleType DEF Undisturbed, InFlight
    <3>2. Owed(list, work[q], table) => Owed(list', work[q], table)
      <4>1. list'.kind # "none" =>
              Edited([work[q] EXCEPT !.seen = list']) = Edited([work[q] EXCEPT !.seen = list])
        BY <3>1 DEF Edited, Work, AfterCreate, AfterDelete, AfterDeleteKin, AfterUpsert
      <4> QED
        BY <4>1 DEF Owed
    <3> QED
      BY <3>1, <3>2 DEF Served
  <2>2. \A q \in InFlight' : Served(work[q], list, table)'
    BY <1>1, <2>1, ServedLater
  <2> QED
    BY <1>1, <1>3, <2>2 DEF Undisturbed, Alone
<1> QED
  BY <1>2, <1>3

\* No step disturbs a request that is served alone.
LEMMA UndisturbedStep ==
  ASSUME CLTypeOK, Undisturbed, [CLNext]_clVars
  PROVE  Undisturbed'
<1> SUFFICES ASSUME Sane, ~blamed'
             PROVE  Undisturbed'
  <2>1. style' = style
    BY DEF CLNext, GoesOn, ListMiss, LoadList, StoreList, GetMiss, GetRow, StoreRow, Create, Update,
           UpdateWrite, Delete, Remove, EditRead, EditStore, Fail, Hour, ResetCache, clVars
  <2> QED
    BY <2>1 DEF Undisturbed, Sane
<1> USE StyleType
<1>1. ASSUME NEW q \in Request, ListMiss(q)
      PROVE  Undisturbed'
  <2> DEFINE t == [Idle EXCEPT !.at = "load"]
  <2>1. t \in Work /\ t.at = "load"
    BY IdleType DEF Work, At
  <2>2. Start(q, t) /\ UNCHANGED <<style, table, list>>
    BY <1>1 DEF ListMiss
  <2> HIDE DEF t
  <2>3. Shows(list, table) => Served(t, list', table')
    BY <2>1, <2>2 DEF Served
  <2> QED
    BY <2>1, <2>2, <2>3, StartServed
<1>2. ASSUME NEW q \in Request, LoadList(q)
      PROVE  Undisturbed'
  <2> DEFINE t == [work[q] EXCEPT !.at = "store", !.seen = Stored("list", table)]
  <2>1. t.at = "store" /\ t.seen.kind = "list" /\ t.seen.rows = table
    BY DEF Stored, Work
  <2>2. Go(q, t) /\ work[q].at = "load" /\ UNCHANGED <<style, table, list>>
    BY <1>2 DEF LoadList
  <2>3. ~blamed /\ q \in InFlight
    BY <2>2 DEF Go, InFlight
  <2> HIDE DEF t
  <2>4. Served(work[q], list, table) => Served(t, list', table')
    BY <2>1, <2>2 DEF Served
  <2> QED
    BY <2>1, <2>2, <2>3, <2>4, GoServed
<1>3. ASSUME NEW q \in Request, StoreList(q)
      PROVE  Undisturbed'
  <2>1. /\ Go(q, Idle) /\ work[q].at = "store" /\ list' = work[q].seen
        /\ UNCHANGED <<style, table>>
    BY <1>3 DEF StoreList
  <2>2. ~blamed /\ q \in InFlight
    BY <2>1 DEF Go, InFlight
  <2>3. Served(work[q], list, table) =>
          IF Idle.at = "idle" THEN Shows(list', table') ELSE Served(Idle, list', table')
    BY <2>1, IdleType DEF Served
  <2> QED
    BY <2>1, <2>2, <2>3, GoServed
<1>4. ASSUME NEW q \in Request, NEW r \in Row, GetMiss(q, r)
      PROVE  Undisturbed'
  <2> DEFINE t == [Idle EXCEPT !.op = "get", !.row = r, !.at = "row"]
  <2>1. t \in Work /\ t.at = "row" /\ t.op = "get"
    BY IdleType DEF Work, At, All
  <2>2. Start(q, t) /\ style.get # "uncached" /\ UNCHANGED <<style, table, list>>
    BY <1>4 DEF GetMiss
  <2>3. style.get \in {"own", "rewrite"}
    BY <2>1, <2>2 DEF Sane, Style, Start
  <2> HIDE DEF t
  <2>4. Shows(list, table) => Served(t, list', table')
    BY <2>1, <2>2, <2>3 DEF Served
  <2> QED
    BY <2>1, <2>2, <2>4, StartServed
<1>5. ASSUME NEW q \in Request, GetRow(q)
      PROVE  Undisturbed'
  <2> DEFINE v == table[work[q].row]
             on == [work[q] EXCEPT !.value = v,
                                   !.at = IF style.get = "rewrite" THEN "read" ELSE "storeRow"]
             t == IF v = NoRow /\ style.get # "replace" THEN Idle ELSE on
  <2>1. Go(q, t) /\ work[q].at = "row" /\ UNCHANGED <<style, table, list>>
    BY <1>5 DEF GetRow
  <2>2. ~blamed /\ q \in InFlight
    BY <2>1 DEF Go, InFlight
  <2>3. ASSUME Served(work[q], list, table)
        PROVE  IF t.at = "idle" THEN Shows(list', table') ELSE Served(t, list', table')
    <3>1. Shows(list, table) /\ (style.get = "own" \/ (style.get = "rewrite" /\ work[q].op = "get"))
      BY <2>1, <2>3 DEF Served
    <3>2. CASE t = Idle
      BY <2>1, <3>1, <3>2, IdleType
    <3>3. CASE t # Idle /\ style.get = "own"
      <4>1. t.at = "storeRow"
        BY <3>3 DEF Work
      <4> HIDE DEF t, on
      <4> QED
        BY <2>1, <3>1, <3>3, <4>1 DEF Served
    <3>4. CASE t # Idle /\ style.get = "rewrite" /\ work[q].op = "get"
      <4>1. /\ t.at = "read" /\ t.op = "get" /\ t.row = work[q].row /\ t.value = v
            /\ t \in Work /\ v # NoRow
        <5>1. v \in Value \cup {NoRow}
          BY DEF CLTypeOK, Work, Content
        <5> QED
          BY <3>4, <5>1 DEF Work, At
      <4> HIDE DEF t, on
      <4>2. table \in Content /\ list \in Entry /\ t.row \in Row
        BY <4>1 DEF CLTypeOK, Work
      <4>3. [table EXCEPT ![t.row] = IF @ = NoRow THEN NoRow ELSE t.value] = table
        BY <4>1, <4>2 DEF Content
      <4>4. Owed(list, t, table)
        BY <3>1, <4>1, <4>2, <4>3, OwedBy DEF Left
      <4> QED
        BY <2>1, <4>1, <4>4 DEF Served
    <3> QED
      BY <3>1, <3>2, <3>3, <3>4
  <2> HIDE DEF t, on
  <2> QED
    BY <2>1, <2>2, <2>3, GoServed
<1>6. ASSUME NEW q \in Request, StoreRow(q)
      PROVE  Undisturbed'
  <2> DEFINE t == IF work[q].op = "delete" THEN To(q, "remove") ELSE Idle
  <2>1. /\ Go(q, t) /\ work[q].at = "storeRow" /\ UNCHANGED <<style, table>>
        /\ style.get = "own" => UNCHANGED list
    BY <1>6 DEF StoreRow
  <2>2. ~blamed /\ q \in InFlight
    BY <2>1 DEF Go, InFlight
  <2>3. ASSUME Served(work[q], list, table)
        PROVE  IF t.at = "idle" THEN Shows(list', table') ELSE Served(t, list', table')
    <3>1. Shows(list, table) /\ style.rowFirst /\ UNCHANGED list
      BY <2>1, <2>3 DEF Served
    <3>2. CASE work[q].op = "delete"
      <4>1. t.at = "remove" /\ t.op = "delete"
        BY <3>2 DEF To, Work
      <4> HIDE DEF t
      <4> QED
        BY <2>1, <3>1, <4>1 DEF Served, Left
    <3>3. CASE work[q].op # "delete"
      BY <2>1, <3>1, <3>3, IdleType
    <3> QED
      BY <3>2, <3>3
  <2> HIDE DEF t
  <2> QED
    BY <2>1, <2>2, <2>3, GoServed
<1>7. ASSUME NEW q \in Request, NEW r \in Row, NEW v \in Value, Create(q, r, v)
      PROVE  Undisturbed'
  <2> DEFINE t == [Idle EXCEPT !.op = "create", !.row = r, !.value = v, !.at = "read"]
  <2>1. t \in Work /\ t.at = "read" /\ t.op = "create" /\ t.row = r /\ t.value = v
    BY IdleType DEF Work, At, All
  <2>2. Start(q, t) /\ table' = [table EXCEPT ![r] = v] /\ UNCHANGED <<style, list>>
    BY <1>7 DEF Create
  <2> HIDE DEF t
  <2>3. Shows(list, table) => Owed(list, t, table')
    BY <2>1, <2>2, OwedBy DEF Left
  <2>4. Shows(list, table) => Served(t, list', table')
    BY <2>1, <2>2, <2>3 DEF Served
  <2> QED
    BY <2>1, <2>2, <2>4, StartServed
<1>8. ASSUME NEW q \in Request, NEW r \in Row, NEW v \in Value, Update(q, r, v)
      PROVE  Undisturbed'
  <2> DEFINE t == [Idle EXCEPT !.op = "update", !.row = r, !.value = v, !.at = "write"]
  <2>1. t \in Work /\ t.at = "write" /\ t.op = "update" /\ t.row = r
    BY IdleType DEF Work, At, All
  <2>2. Start(q, t) /\ (style.save # "no" => Found(r)) /\ UNCHANGED <<style, table, list>>
    BY <1>8 DEF Update
  <2> HIDE DEF t
  <2>3. Shows(list, table) /\ Found(r) => table[r] # NoRow
    BY DEF Shows, Found, Find
  <2>4. Shows(list, table) => Served(t, list', table')
    BY <2>1, <2>2, <2>3 DEF Served
  <2> QED
    BY <2>1, <2>2, <2>4, StartServed
<1>9. ASSUME NEW q \in Request, UpdateWrite(q)
      PROVE  Undisturbed'
  <2> DEFINE t == To(q, "read")
  <2>1. /\ t \in Work /\ t.at = "read" /\ t.op = work[q].op
        /\ t.row = work[q].row /\ t.value = work[q].value
    BY ToType DEF At
  <2>2. /\ Go(q, t) /\ work[q].at = "write" /\ UNCHANGED <<style, list>>
        /\ table' = [table EXCEPT ![t.row] = IF style.save # "no" \/ @ # NoRow THEN t.value ELSE @]
    BY <1>9, <2>1 DEF UpdateWrite, Sane
  <2> HIDE DEF t
  <2>3. ~blamed /\ q \in InFlight
    BY <2>2 DEF Go, InFlight
  <2>4. ASSUME Served(work[q], list, table)
        PROVE  Owed(list, t, table')
    <3>1. Shows(list, table) /\ t.op = "update" /\ (style.save # "no" => table[t.row] # NoRow)
      BY <2>1, <2>2, <2>4 DEF Served
    <3>2. table' = [table EXCEPT ![t.row] = IF @ = NoRow THEN NoRow ELSE t.value]
      BY <2>1, <2>2, <3>1 DEF CLTypeOK, Content, Work
    <3> QED
      BY <2>1, <3>1, <3>2, OwedBy DEF Left
  <2>5. Served(work[q], list, table) => Served(t, list', table')
    BY <2>1, <2>2, <2>4 DEF Served
  <2> QED
    BY <2>1, <2>2, <2>3, <2>5, GoServed
<1>10. ASSUME NEW q \in Request, NEW r \in Row, Delete(q, r)
       PROVE  Undisturbed'
  <2>1. PICK at \in {"row", "remove", "read"} :
          /\ Start(q, [Idle EXCEPT !.op = "delete", !.row = r, !.at = at])
          /\ at = "row" => style.get = "own"
          /\ at = "remove" => style.rowFirst
          /\ at = "read" => ~style.rowFirst
    BY <1>10 DEF Delete
  <2> DEFINE t == [Idle EXCEPT !.op = "delete", !.row = r, !.at = at]
  <2>2. t \in Work /\ t.at = at /\ t.op = "delete" /\ t.row = r
    BY IdleType DEF Work, At, All
  <2>3. Start(q, t) /\ UNCHANGED <<style, table, list>>
    BY <1>10, <2>1 DEF Delete
  <2> HIDE DEF t
  <2>4. ASSUME at = "read", Shows(list, table)
        PROVE  Owed(list, t, table)
    <3>1. Left(t, table) = [table EXCEPT ![t.row] = NoRow]
      BY <2>1, <2>2, <2>4 DEF Left
    <3> QED
      BY <2>2, <2>4, <3>1, OwedBy
  <2>5. Shows(list, table) => Served(t, list', table')
    BY <2>1, <2>2, <2>3, <2>4 DEF Served, Left
  <2> QED
    BY <2>2, <2>3, <2>5, StartServed
<1>11. ASSUME NEW q \in Request, Remove(q)
       PROVE  Undisturbed'
  <2> DEFINE t == IF style.rowFirst THEN To(q, "read") ELSE Idle
  <2>1. /\ Go(q, t) /\ work[q].at = "remove" /\ UNCHANGED <<style, list>>
        /\ table' = [table EXCEPT ![work[q].row] = NoRow]
    BY <1>11 DEF Remove
  <2>2. ~blamed /\ q \in InFlight
    BY <2>1 DEF Go, InFlight
  <2>3. ASSUME Served(work[q], list, table)
        PROVE  IF t.at = "idle" THEN Shows(list', table') ELSE Served(t, list', table')
    <3>1. work[q].op = "delete" /\ Shows(list, Left(work[q], table))
      BY <2>1, <2>3 DEF Served
    <3>2. CASE style.rowFirst
      <4>1. t \in Work /\ t.at = "read" /\ t.op = "delete" /\ t.row = work[q].row
        BY <3>1, <3>2, ToType DEF At
      <4> HIDE DEF t
      <4>2. Shows(list, table)
        BY <3>1, <3>2 DEF Left
      <4>3. Owed(list, t, table')
        BY <2>1, <3>2, <4>1, <4>2, OwedBy DEF Left
      <4> QED
        BY <2>1, <4>1, <4>3 DEF Served
    <3>3. CASE ~style.rowFirst
      BY <2>1, <3>1, <3>3, IdleType DEF Left
    <3> QED
      BY <3>2, <3>3
  <2> HIDE DEF t
  <2> QED
    BY <2>1, <2>2, <2>3, GoServed
<1>12. ASSUME NEW q \in Request, EditRead(q)
       PROVE  Undisturbed'
  <2> DEFINE t == [work[q] EXCEPT !.at = "edit", !.seen = list]
  <2>1. /\ t.at = "edit" /\ t.seen = list /\ t.op = work[q].op /\ t.row = work[q].row
        /\ [t EXCEPT !.seen = list].op = work[q].op
        /\ Edited([t EXCEPT !.seen = list]) = Edited([work[q] EXCEPT !.seen = list])
    BY DEF Work, Edited
  <2>2. Go(q, t) /\ work[q].at = "read" /\ UNCHANGED <<style, table, list>>
    BY <1>12 DEF EditRead
  <2> HIDE DEF t
  <2>3. ~blamed /\ q \in InFlight
    BY <2>2 DEF Go, InFlight
  <2>4. list.kind \in {"none", "list", "row"}
    BY EntryType DEF CLTypeOK
  <2>5. Owed(list, work[q], table) => Owed(t.seen, t, table)
    BY <2>1 DEF Owed, Left
  <2>6. Served(work[q], list, table) => Served(t, list', table')
    BY <2>1, <2>2, <2>4, <2>5 DEF Served, Owed
  <2> QED
    BY <2>1, <2>2, <2>3, <2>6, GoServed
<1>13. ASSUME NEW q \in Request, EditStore(q)
       PROVE  Undisturbed'
  <2> DEFINE t == work[q]
             next == IF t.op = "delete" /\ ~style.rowFirst THEN To(q, "remove") ELSE Idle
  <2>1. /\ Go(q, next) /\ t.at = "edit" /\ UNCHANGED <<style, table>>
        /\ list' = IF Edits(t) THEN Stored("list", Edited(t)) ELSE list
    BY <1>13 DEF EditStore
  <2>2. ~blamed /\ q \in InFlight
    BY <2>1 DEF Go, InFlight
  <2>3. ASSUME Served(t, list, table)
        PROVE  Shows(list', Left(t, table))
    <3>1. /\ Owed(t.seen, t, table) /\ [t EXCEPT !.seen = t.seen] = t
          /\ list.kind # "none" => t.seen.kind = "list" /\ list.rows = t.seen.rows
          /\ list.kind \in {"none", "list"}
      BY <2>1, <2>3 DEF Served, Work
    <3>2. CASE Edits(t)
      BY <2>1, <3>1, <3>2 DEF Owed, Edits, Stored
    <3>3. CASE ~Edits(t)
      BY <2>1, <3>1, <3>3 DEF Owed, Edits
    <3> QED
      BY <3>2, <3>3
  <2>4. CASE t.op = "delete" /\ ~style.rowFirst
    <3>1. next.at = "remove" /\ next.op = "delete" /\ next.row = t.row
      BY <2>4 DEF To, Work
    <3> HIDE DEF next
    <3>2. Served(t, list, table) => Served(next, list', table')
      BY <2>1, <2>3, <2>4, <3>1 DEF Served, Left
    <3> QED
      BY <2>1, <2>2, <3>1, <3>2, GoServed
  <2>5. CASE ~(t.op = "delete" /\ ~style.rowFirst)
    <3>1. Served(t, list, table) =>
            IF Idle.at = "idle" THEN Shows(list', table') ELSE Served(Idle, list', table')
      BY <2>1, <2>3, <2>5, IdleType DEF Left
    <3>2. Go(q, Idle)
      BY <2>1, <2>5
    <3> QED
      BY <2>1, <2>2, <3>1, <3>2, GoServed
  <2> QED
    BY <2>4, <2>5
<1>14. ASSUME NEW q \in Request, Fail(q)
       PROVE  Undisturbed'
  BY <1>14 DEF Fail
<1>15. CASE Hour
  <2>1. list'.kind # "none" => list'.kind = list.kind /\ list'.rows = list.rows
    BY <1>15, EntryType DEF Hour, CLTypeOK
  <2> QED
    BY <1>15, <2>1, AgedServed DEF Hour
<1>16. CASE ResetCache
  <2>1. list'.kind = "none" /\ blamed' = Excused(list')
    BY <1>16 DEF ResetCache, Nothing, Excused, InFlight
  <2> QED
    BY <1>16, <2>1, AgedServed DEF ResetCache
<1>17. CASE UNCHANGED clVars
  <2>1. /\ UNCHANGED <<style, table, list>> /\ InFlight' = InFlight
        /\ work' = work /\ blamed' = blamed
    BY <1>17 DEF clVars, InFlight
  <2>2. \A q \in InFlight : Served(work[q], list, table) => Served(work[q], list, table)'
    BY <2>1, ServedLater
  <2> QED
    BY <2>1, <2>2 DEF Undisturbed, Alone, Sane
<1> QED
  BY <1>1, <1>2, <1>3, <1>4, <1>5, <1>6, <1>7, <1>8, <1>9, <1>10, <1>11, <1>12, <1>13, <1>14,
     <1>15, <1>16, <1>17 DEF CLNext, GoesOn

\* Editing a cached list in place is sound for one request at a time: at each of its steps the
\* list is what the table was, or what the table will be, once the request has ended; so it
\* differs from its table only after requests have overlapped or one has failed half-way.
THEOREM Exactness == CLSpec => []ExactUnlessBlamed
<1>1. CLInit => Undisturbed
  BY DEF CLInit, Undisturbed, Alone, InFlight, Idle, Nothing
<1>2. CLSpec => []Undisturbed
  BY <1>1, UndisturbedStep, CLTyping, PTL DEF CLSpec
<1>3. Undisturbed => ExactUnlessBlamed
  BY DEF Undisturbed, ExactUnlessBlamed, Sane, Exact
<1> QED
  BY <1>2, <1>3, PTL
================================================================================
