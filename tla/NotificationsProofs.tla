--------------------------- MODULE NotificationsProofs ---------------------------
(* Proofs about Notifications, for any events and users of one organization,   *)
(* and any numbers of crashes and of runs of a stalled job.                     *)
EXTENDS Notifications, TLAPS

-----------------------------------------------------------------------------
(* Queues.                                                                      *)

In(s) == {s[i] : i \in 1 .. Len(s)}
Distinct(s) == \A i, j \in 1 .. Len(s) : s[i] = s[j] => i = j

LEMMA InEvents ==
  ASSUME NEW s \in Seq(Event)
  PROVE  In(s) \subseteq Event
BY DEF In

LEMMA Appended ==
  ASSUME NEW s \in Seq(Event), NEW e \in Event
  PROVE  /\ Append(s, e) \in Seq(Event)
         /\ In(Append(s, e)) = In(s) \cup {e}
         /\ Distinct(s) /\ e \notin In(s) => Distinct(Append(s, e))
<1>1. /\ Append(s, e) \in Seq(Event)
      /\ Len(Append(s, e)) = Len(s) + 1 /\ Len(s) \in Nat
      /\ \A i \in 1 .. Len(s) : Append(s, e)[i] = s[i]
      /\ Append(s, e)[Len(s) + 1] = e
  OBVIOUS
<1>2. 1 .. (Len(s) + 1) = (1 .. Len(s)) \cup {Len(s) + 1}
  BY <1>1
<1>3. In(Append(s, e)) = In(s) \cup {e}
  BY <1>1, <1>2 DEF In
<1>4. Distinct(s) /\ e \notin In(s) => Distinct(Append(s, e))
  BY <1>1, <1>2 DEF In, Distinct
<1> QED
  BY <1>1, <1>3, <1>4

LEMMA Shifted ==
  ASSUME NEW s \in Seq(Event), s # <<>>
  PROVE  /\ Head(s) \in Event /\ Head(s) \in In(s)
         /\ Tail(s) \in Seq(Event)
         /\ In(Tail(s)) \subseteq In(s)
         /\ In(s) \subseteq In(Tail(s)) \cup {Head(s)}
         /\ Distinct(s) => Distinct(Tail(s)) /\ Head(s) \notin In(Tail(s))
<1>1. /\ Len(s) \in Nat /\ Len(s) >= 1
      /\ Head(s) = s[1] /\ Head(s) \in Event
      /\ Tail(s) \in Seq(Event)
      /\ Len(Tail(s)) = Len(s) - 1
      /\ \A i \in 1 .. (Len(s) - 1) : Tail(s)[i] = s[i + 1]
  OBVIOUS
<1>2. In(Tail(s)) \subseteq In(s)
  BY <1>1 DEF In
<1>3. In(s) \subseteq In(Tail(s)) \cup {Head(s)}
  <2>1. ASSUME NEW i \in 1 .. Len(s), i # 1 PROVE s[i] \in In(Tail(s))
    <3>1. i - 1 \in 1 .. (Len(s) - 1) /\ Tail(s)[i - 1] = s[i]
      BY <1>1, <2>1
    <3> QED
      BY <1>1, <3>1 DEF In
  <2> QED
    BY <1>1, <2>1 DEF In
<1>4. Distinct(s) => Distinct(Tail(s)) /\ Head(s) \notin In(Tail(s))
  BY <1>1 DEF In, Distinct
<1> QED
  BY <1>1, <1>2, <1>3, <1>4 DEF In

LEMMA PutFirst ==
  ASSUME NEW s \in Seq(Event), NEW e \in Event
  PROVE  /\ <<e>> \o s \in Seq(Event)
         /\ In(<<e>> \o s) = In(s) \cup {e}
         /\ Distinct(s) /\ e \notin In(s) => Distinct(<<e>> \o s)
<1> DEFINE t == <<e>> \o s
<1>1. /\ t \in Seq(Event)
      /\ Len(t) = Len(s) + 1 /\ Len(s) \in Nat
      /\ t[1] = e
      /\ \A i \in 2 .. Len(s) + 1 : t[i] = s[i - 1]
  OBVIOUS
<1> HIDE DEF t
<1>2. \A i \in 1 .. Len(s) : t[i + 1] = s[i]
  BY <1>1
<1>3. In(t) = In(s) \cup {e}
  <2>1. In(t) \subseteq In(s) \cup {e}
    BY <1>1 DEF In
  <2>2. In(s) \subseteq In(t)
    BY <1>1, <1>2 DEF In
  <2>3. e \in In(t)
    BY <1>1 DEF In
  <2> QED
    BY <2>1, <2>2, <2>3
<1>4. Distinct(s) /\ e \notin In(s) => Distinct(t)
  <2> SUFFICES ASSUME Distinct(s), e \notin In(s), NEW i \in 1 .. Len(t), NEW j \in 1 .. Len(t),
                      t[i] = t[j]
               PROVE  i = j
    BY DEF Distinct
  <2>1. CASE i = 1 /\ j = 1
    BY <2>1
  <2>2. CASE i = 1 /\ j # 1
    BY <1>1, <2>2 DEF In
  <2>3. CASE i # 1 /\ j = 1
    BY <1>1, <2>3 DEF In
  <2>4. CASE i # 1 /\ j # 1
    <3>1. i - 1 \in 1 .. Len(s) /\ j - 1 \in 1 .. Len(s) /\ s[i - 1] = s[j - 1]
      BY <1>1, <2>4
    <3> QED
      BY <1>1, <3>1 DEF Distinct
  <2> QED
    BY <2>1, <2>2, <2>3, <2>4
<1> QED
  BY <1>1, <1>3, <1>4 DEF t

-----------------------------------------------------------------------------
(* Types.                                                                       *)

LEMMA ListeningStep ==
  ASSUME TypeOK, NEW e \in Event
  PROVE  /\ listener[e].step # "idle" <=> listener[e] \in Listening
         /\ listener[e].step = "idle" <=> listener[e] = Idle
         /\ listener[e].step \in {"idle", "invalidate", "recipients", "add", "done"}
BY DEF TypeOK, Listening, Idle

LEMMA InitTypes == Init => TypeOK
<1> SUFFICES ASSUME Init PROVE TypeOK
  OBVIOUS
<1>1. stalls \in [Event \X Queue -> 0 .. MaxStall + 1] /\ crashes \in 0 .. MaxCrashes
  BY NotificationsAssumption DEF Init
<1>2. notify \in Seq(Event)
  BY DEF Init
<1> QED
  BY <1>1, <1>2 DEF Init, TypeOK, Row, NoRow

\* A listener goes on and touches nothing else.
LEMMA StepOfListener ==
  ASSUME TypeOK, NEW e \in Event, listener[e] \in Listening,
         NEW s \in {"invalidate", "recipients", "add", "done"},
         listener' = [listener EXCEPT ![e].step = s]
  PROVE  /\ listener' \in [Event -> {Idle} \cup Listening]
         /\ listener'[e].step = s
         /\ \A f \in Event : f # e => listener'[f] = listener[f]
BY DEF TypeOK, Listening

LEMMA RecipientsAreUsers ==
  ASSUME NEW k, NEW m \in User
  PROVE  Recipients(k, m) \subseteq User \X {"role", "manager"}
BY NotificationsAssumption DEF Recipients, PropertyRecipients, LeaseRecipients

LEMMA RowTypes ==
  ASSUME TypeOK, NEW n \in Note
  PROVE  /\ row[n] \in Row
         /\ \A b \in BOOLEAN : /\ [row[n] EXCEPT !.read = b] \in Row
                               /\ [row[n] EXCEPT !.read = b].st = row[n].st
BY DEF TypeOK, Row

LEMMA EmitTypes ==
  ASSUME TypeOK, NEW e \in Event, NEW k \in Kind, NEW m \in User, NEW told \in BOOLEAN,
         Emit(e, k, m, told)
  PROVE  /\ TypeOK'
         /\ listener[e] = Idle
         /\ listener'[e].step = "invalidate"
         /\ \A f \in Event : f # e => listener'[f] = listener[f]
         /\ UNCHANGED <<row, notify, queueVars, updates, crashes>>
<1> DEFINE x == [step |-> "invalidate", kind |-> k, manager |-> m, told |-> told]
<1>1. x \in Listening /\ x.step = "invalidate"
  BY DEF Listening
<1>2. listener' = [listener EXCEPT ![e] = x] /\ listener[e] = Idle
  BY DEF Emit
<1>3. UNCHANGED <<row, notify, queueVars, updates, crashes>>
  BY DEF Emit
<1> HIDE DEF x
<1>4. /\ listener' \in [Event -> {Idle} \cup Listening]
      /\ listener'[e] = x
      /\ \A f \in Event : f # e => listener'[f] = listener[f]
  BY <1>1, <1>2 DEF TypeOK
<1> QED
  BY <1>1, <1>2, <1>3, <1>4 DEF TypeOK, queueVars

\* An event is emitted, for whichever reason.
Emits(e) ==
  \E m \in User : \/ EmitCreated(e, m) \/ EmitDeleted(e, m) \/ EmitUpdated(e, m)
                  \/ EmitLeaseEvent(e, m) \/ EmitTenantEvent(e, m)

LEMMA EmitsTypes ==
  ASSUME TypeOK, NEW e \in Event, Emits(e)
  PROVE  /\ TypeOK'
         /\ listener[e] = Idle
         /\ listener'[e].step = "invalidate"
         /\ \A f \in Event : f # e => listener'[f] = listener[f]
         /\ UNCHANGED <<row, notify, queueVars, updates, crashes>>
<1>1. PICK m \in User, k \in Kind, told \in BOOLEAN : Emit(e, k, m, told)
  BY DEF Emits, EmitCreated, EmitDeleted, EmitUpdated, EmitLeaseEvent, EmitTenantEvent, Kind
<1> QED
  BY <1>1, EmitTypes

LEMMA InvalidateTypes ==
  ASSUME TypeOK, NEW e \in Event, Invalidate(e)
  PROVE  /\ TypeOK'
         /\ listener[e].step = "invalidate"
         /\ listener'[e].step \in {"recipients", "done"}
         /\ \A f \in Event : f # e => listener'[f] = listener[f]
         /\ UNCHANGED <<row, notify, queueVars, updates, crashes>>
<1>1. /\ listener[e].step = "invalidate"
      /\ Invalidated(e) \/ NotInvalidated(e)
      /\ UNCHANGED <<row, notify, queueVars, updates, crashes>>
  BY DEF Invalidate, InvalidateForProperty, InvalidateForLease, InvalidateForTenant
<1>2. listener[e] \in Listening
  BY <1>1, ListeningStep
<1>3. PICK s \in {"recipients", "done"} : listener' = [listener EXCEPT ![e].step = s]
  BY <1>1 DEF Invalidated, NotInvalidated
<1>4. /\ listener' \in [Event -> {Idle} \cup Listening]
      /\ listener'[e].step = s
      /\ \A f \in Event : f # e => listener'[f] = listener[f]
  BY <1>2, <1>3, StepOfListener
<1> QED
  BY <1>1, <1>4 DEF TypeOK, queueVars

LEMMA SaveRowsTypes ==
  ASSUME TypeOK, NEW e \in Event, SaveRows(e)
  PROVE  /\ TypeOK'
         /\ listener[e].step = "recipients" /\ listener[e] \in Listening
         /\ listener'[e].step = "add"
         /\ \A f \in Event : f # e => listener'[f] = listener[f]
<1>1. listener[e].step = "recipients" /\ listener[e] \in Listening
  BY ListeningStep DEF SaveRows
<1>2. listener' = [listener EXCEPT ![e].step = "add"]
  BY DEF SaveRows
<1>3. /\ listener' \in [Event -> {Idle} \cup Listening]
      /\ listener'[e].step = "add"
      /\ \A f \in Event : f # e => listener'[f] = listener[f]
  BY <1>1, <1>2, StepOfListener
<1>4. row' \in [Note -> Row]
  BY DEF SaveRows, TypeOK, FreshRow, Row
<1> QED
  BY <1>1, <1>3, <1>4 DEF SaveRows, TypeOK, queueVars

LEMMA AddJobTypes ==
  ASSUME TypeOK, NEW e \in Event, AddJob(e)
  PROVE  /\ TypeOK'
         /\ listener[e].step = "add"
         /\ listener'[e].step = "done"
         /\ \A f \in Event : f # e => listener'[f] = listener[f]
<1>1. listener[e].step = "add" /\ listener[e] \in Listening
  BY ListeningStep DEF AddJob
<1>2. listener' = [listener EXCEPT ![e].step = "done"]
  BY DEF AddJob
<1>3. /\ listener' \in [Event -> {Idle} \cup Listening]
      /\ listener'[e].step = "done"
      /\ \A f \in Event : f # e => listener'[f] = listener[f]
  BY <1>1, <1>2, StepOfListener
<1>4. notify' \in Seq(Event)
  BY Appended DEF AddJob, TypeOK
<1> QED
  BY <1>1, <1>3, <1>4 DEF AddJob, TypeOK, queueVars

LEMMA UpdateTypes ==
  \A n \in Note, b \in BOOLEAN : /\ [note |-> n, read |-> b] \in Update
                                /\ [note |-> n, read |-> b].read = b
BY DEF Update

LEMMA QueuedTypes ==
  ASSUME TypeOK, NEW e \in Event, Queued(e)
  PROVE  TypeOK'
<1>1. CASE SendMail(e)
  BY <1>1 DEF SendMail, TypeOK
<1>2. CASE Report(e)
  BY <1>2 DEF Report, TypeOK
<1>3. CASE StartMarking(e)
  BY <1>3 DEF StartMarking, TypeOK
<1>4. CASE MarkAsDelivered(e)
  <2>1. updates' \in SUBSET Update
    BY <1>4, UpdateTypes DEF MarkAsDelivered, TypeOK
  <2> QED
    BY <1>4, <2>1 DEF MarkAsDelivered, TypeOK
<1>5. CASE MarkingLost(e)
  BY <1>5 DEF MarkingLost, TypeOK
<1> QED
  BY <1>1, <1>2, <1>3, <1>4, <1>5 DEF Queued

\* What readers, statements and time do to the rows.
RowStep ==
  \/ \E x \in updates : Execute(x)
  \/ \E u \in User : MarkRead(u) \/ Remove(u)
  \/ \E n \in Note : Age(n)

LEMMA RowStepTypes ==
  ASSUME TypeOK, RowStep
  PROVE  /\ TypeOK'
         /\ \A n \in Note : row'[n].st = "none" <=> row[n].st = "none"
         /\ \A x \in updates' : x \in updates \/ x.read
         /\ UNCHANGED <<listener, notify, queueVars, crashes>>
<1>1. ASSUME NEW x \in updates, Execute(x)
      PROVE  /\ row' \in [Note -> Row]
             /\ \A n \in Note : row'[n].st = "none" <=> row[n].st = "none"
             /\ updates' \in SUBSET Update
             /\ \A y \in updates' : y \in updates \/ y.read
  <2>1. x.read \in BOOLEAN
    BY DEF TypeOK, Update
  <2>2. \A n \in Note : row'[n] = IF n = x.note /\ row[n].st = "live"
                                  THEN [row[n] EXCEPT !.read = x.read] ELSE row[n]
    BY <1>1 DEF Execute
  <2>3. row' \in [Note -> Row]
    BY <1>1, <2>1, RowTypes DEF Execute
  <2> QED
    BY <1>1, <2>1, <2>2, <2>3, RowTypes DEF Execute, TypeOK
<1>2. ASSUME NEW u \in User, MarkRead(u)
      PROVE  /\ row' = row
             /\ updates' \in SUBSET Update
             /\ \A y \in updates' : y \in updates \/ y.read
  <2>1. PICK n \in Note : updates' = updates \cup {[note |-> n, read |-> TRUE]}
    BY <1>2 DEF MarkRead, Listed
  <2>2. row' = row
    BY <1>2 DEF MarkRead
  <2> QED
    BY <2>1, <2>2, UpdateTypes DEF TypeOK
<1>3. ASSUME NEW u \in User, Remove(u)
      PROVE  /\ row' \in [Note -> Row]
             /\ \A n \in Note : row'[n].st = "none" <=> row[n].st = "none"
             /\ updates' = updates
  BY <1>3 DEF Remove, Listed, TypeOK, Row
<1>4. ASSUME NEW m \in Note, Age(m)
      PROVE  /\ row' \in [Note -> Row]
             /\ \A n \in Note : row'[n].st = "none" <=> row[n].st = "none"
             /\ updates' = updates
  BY <1>4 DEF Age, TypeOK, Row
<1>5. UNCHANGED <<listener, notify, queueVars, crashes>>
  BY DEF RowStep, Execute, MarkRead, Remove, Age
<1>6. /\ row' \in [Note -> Row]
      /\ \A n \in Note : row'[n].st = "none" <=> row[n].st = "none"
      /\ updates' \in SUBSET Update
      /\ \A y \in updates' : y \in updates \/ y.read
  BY <1>1, <1>2, <1>3, <1>4 DEF RowStep, TypeOK
<1> QED
  BY <1>5, <1>6 DEF TypeOK, queueVars

LEMMA ProcessTypes == TypeOK /\ Process => TypeOK'
<1> SUFFICES ASSUME TypeOK, Process PROVE TypeOK'
  OBVIOUS
<1>1. notify # <<>> /\ notify \in Seq(Event)
  BY DEF Process, TypeOK
<1>2. Head(notify) \in Event /\ Tail(notify) \in Seq(Event)
  BY <1>1, Shifted
<1> QED
  BY <1>2 DEF Process, TypeOK

LEMMA ApiCrashTypes ==
  ASSUME TypeOK, ApiCrash
  PROVE  /\ TypeOK'
         /\ \A e \in Event : listener'[e].step = IF listener[e] = Idle THEN "idle" ELSE "done"
<1>1. \A e \in Event : listener[e] # Idle => /\ [listener[e] EXCEPT !.step = "done"] \in Listening
                                             /\ [listener[e] EXCEPT !.step = "done"].step = "done"
  BY DEF TypeOK, Listening
<1>2. listener' = [e \in Event |-> IF listener[e] = Idle THEN Idle
                                   ELSE [listener[e] EXCEPT !.step = "done"]]
  BY DEF ApiCrash
<1>3. /\ listener' \in [Event -> {Idle} \cup Listening]
      /\ \A e \in Event : listener'[e].step = IF listener[e] = Idle THEN "idle" ELSE "done"
  BY <1>1, <1>2 DEF Idle
<1>4. crashes' \in 0 .. MaxCrashes
  BY NotificationsAssumption DEF ApiCrash, TypeOK
<1> QED
  BY <1>3, <1>4 DEF ApiCrash, TypeOK, queueVars

\* Where a crash of the queue application leaves the jobs.
LEMMA QueueCrashTypes ==
  ASSUME TypeOK, QueueCrash
  PROVE  /\ TypeOK'
         /\ \A e \in Event : mail'[e] = "none"
         /\ \/ notify' = notify
            \/ /\ active \in Event /\ stalls[<<active, "notification">>] < MaxStall
               /\ notify' = <<active>> \o notify
         /\ results' = results \/ (marking \in Event /\ results' = results \cup {marking})
         /\ active' = NoEvent /\ marking' = NoEvent
         /\ \A e \in Event : stalls'[<<e, "notification">>] =
              IF e = active /\ stalls[<<e, "notification">>] <= MaxStall
              THEN stalls[<<e, "notification">>] + 1 ELSE stalls[<<e, "notification">>]
         /\ UNCHANGED <<listener, row, mails, updates>>
<1> DEFINE n == <<active, "notification">>
           r == <<marking, "notification-results">>
<1>1. /\ crashes < MaxCrashes /\ crashes' = crashes + 1
      /\ mail' = [e \in Event |-> "none"]
      /\ notify' = IF RunAgain(n) THEN <<active>> \o notify ELSE notify
      /\ active' = NoEvent
      /\ results' = IF RunAgain(r) THEN results \cup {marking} ELSE results
      /\ marking' = NoEvent
      /\ stalls' = [j \in Event \X Queue |->
           IF j \in {n, r} /\ stalls[j] <= MaxStall THEN stalls[j] + 1 ELSE stalls[j]]
      /\ UNCHANGED <<listener, row, mails, updates>>
  BY DEF QueueCrash
<1>2. \/ notify' = notify
      \/ /\ active \in Event /\ stalls[<<active, "notification">>] < MaxStall
         /\ notify' = <<active>> \o notify
  BY <1>1 DEF RunAgain, TypeOK
<1>3. results' = results \/ (marking \in Event /\ results' = results \cup {marking})
  BY <1>1 DEF RunAgain, TypeOK
<1>4. \A e \in Event : stalls'[<<e, "notification">>] =
        IF e = active /\ stalls[<<e, "notification">>] <= MaxStall
        THEN stalls[<<e, "notification">>] + 1 ELSE stalls[<<e, "notification">>]
  <2> SUFFICES ASSUME NEW e \in Event
               PROVE  stalls'[<<e, "notification">>] =
                        IF e = active /\ stalls[<<e, "notification">>] <= MaxStall
                        THEN stalls[<<e, "notification">>] + 1 ELSE stalls[<<e, "notification">>]
    OBVIOUS
  <2>1. <<e, "notification">> \in Event \X Queue
    BY DEF Queue
  <2>2. <<e, "notification">> \in {n, r} <=> e = active
    OBVIOUS
  <2> QED
    BY <1>1, <2>1, <2>2
<1>5. stalls' \in [Event \X Queue -> 0 .. MaxStall + 1]
  BY <1>1, NotificationsAssumption DEF TypeOK
<1>6. crashes' \in 0 .. MaxCrashes
  BY <1>1, NotificationsAssumption DEF TypeOK
<1>7. notify' \in Seq(Event)
  BY <1>2, PutFirst DEF TypeOK
<1>8. results' \in SUBSET Event
  BY <1>3 DEF TypeOK
<1>9. TypeOK'
  BY <1>1, <1>5, <1>6, <1>7, <1>8 DEF TypeOK
<1> QED
  BY <1>1, <1>2, <1>3, <1>4, <1>9

LEMMA NextSteps ==
  ASSUME Next
  PROVE  \/ \E e \in Event : \/ Emits(e) \/ Invalidate(e) \/ SaveRows(e) \/ AddJob(e)
                             \/ Queued(e)
         \/ Process \/ Complete \/ RowStep \/ ApiCrash \/ QueueCrash
BY DEF Next, Listener, Emits, RowStep

LEMMA StepTypes == TypeOK /\ [Next]_vars => TypeOK'
<1> SUFFICES ASSUME TypeOK, [Next]_vars PROVE TypeOK'
  OBVIOUS
<1>1. CASE UNCHANGED vars
  BY <1>1 DEF vars, TypeOK
<1>2. CASE Complete
  BY <1>2 DEF Complete, TypeOK
<1> QED
  BY <1>1, <1>2, NextSteps, EmitsTypes, InvalidateTypes, SaveRowsTypes, AddJobTypes, QueuedTypes,
     ProcessTypes, RowStepTypes, ApiCrashTypes, QueueCrashTypes

\* Rows, jobs, callbacks and statements stay well formed.
THEOREM Typing == Spec => []TypeOK
BY InitTypes, StepTypes, PTL DEF Spec

-----------------------------------------------------------------------------
(* Order.                                                                       *)

AdminsTold(e) == \A u \in Admins : row[<<e, u, "role">>].st # "none"
NobodyTold(e) == \A n \in Note : EventOf(n) = e => row[n].st = "none"
Begun(e) == e \in In(notify) \/ active = e \/ mail[e] # "none" \/ mails[e] > 0

\* Rows are there before the job is, and the job before its mail.
RowsFirst ==
  \A e \in Event :
    /\ listener[e].step \in {"idle", "invalidate", "recipients"} => NobodyTold(e)
    /\ listener[e].step = "add" => AdminsTold(e)
    /\ Begun(e) => listener[e].step = "done" /\ AdminsTold(e)

\* The mail is there before anything sets out to mark rows that are there.
MailFirst ==
  /\ \A e \in Event : mail[e] = "sent" \/ e \in results \/ marking = e => mails[e] > 0
  /\ \A x \in updates : x.read \/ (mails[EventOf(x.note)] > 0 /\ row[x.note].st # "none")

Order == RowsFirst /\ MailFirst /\ ToldOnce

LEMMA NoteParts ==
  /\ \A e \in Event, u \in User, why \in {"role", "manager"} :
       <<e, u, why>> \in Note /\ EventOf(<<e, u, why>>) = e
  /\ \A e \in Event, u \in Admins :
       <<e, u, "role">> \in Note /\ EventOf(<<e, u, "role">>) = e
  /\ \A n \in Note : EventOf(n) \in Event
BY NotificationsAssumption DEF Note, EventOf

\* A step of a listener before it saves anything.
LEMMA EarlyOrder ==
  ASSUME TypeOK, Order, NEW e \in Event,
         listener[e].step \in {"idle", "invalidate"},
         listener'[e].step \in {"invalidate", "recipients", "done"},
         \A f \in Event : f # e => listener'[f] = listener[f],
         UNCHANGED <<row, notify, queueVars, updates, crashes>>
  PROVE  Order'
<1>1. \A f \in Event : NobodyTold(f)' = NobodyTold(f) /\ AdminsTold(f)' = AdminsTold(f)
                       /\ Begun(f)' = Begun(f)
  BY DEF NobodyTold, AdminsTold, Begun, In, queueVars
<1>2. RowsFirst'
  BY <1>1 DEF Order, RowsFirst
<1>3. MailFirst' /\ ToldOnce'
  BY DEF Order, MailFirst, ToldOnce, queueVars
<1> QED
  BY <1>2, <1>3 DEF Order

\* Nobody is told as a manager who is told by role.
LEMMA OneReason ==
  ASSUME NEW k, NEW m, NEW u
  PROVE  ~(<<u, "role">> \in Recipients(k, m) /\ <<u, "manager">> \in Recipients(k, m))
BY DEF Recipients, PropertyRecipients, LeaseRecipients

LEMMA AdminsAreRecipients ==
  ASSUME NEW k, NEW m, NEW u \in Admins
  PROVE  <<u, "role">> \in Recipients(k, m)
BY DEF Recipients, PropertyRecipients, LeaseRecipients

LEMMA SaveRowsOrder ==
  ASSUME TypeOK, Order, NEW e \in Event, SaveRows(e)
  PROVE  Order'
<1> DEFINE k == listener[e].kind
           m == listener[e].manager
<1>1. /\ listener[e].step = "recipients" /\ listener'[e].step = "add"
      /\ \A f \in Event : f # e => listener'[f] = listener[f]
  BY SaveRowsTypes
<1>2. \A n \in Note : row'[n] = IF EventOf(n) = e /\ <<n[2], n[3]>> \in Recipients(k, m)
                                THEN FreshRow ELSE row[n]
  BY DEF SaveRows
<1>3. UNCHANGED <<notify, active, mail, mails, results, marking, updates>>
  BY DEF SaveRows, queueVars
<1>4. NobodyTold(e)
  BY <1>1 DEF Order, RowsFirst
<1> HIDE DEF k, m
<1>5. FreshRow.st # "none"
  BY DEF FreshRow
<1>6. AdminsTold(e)'
  <2> SUFFICES ASSUME NEW u \in Admins PROVE row'[<<e, u, "role">>].st # "none"
    BY DEF AdminsTold
  <2>1. <<e, u, "role">> \in Note /\ EventOf(<<e, u, "role">>) = e
    BY NoteParts DEF EventOf
  <2>2. <<u, "role">> \in Recipients(k, m)
    BY AdminsAreRecipients
  <2> QED
    BY <1>2, <1>5, <2>1, <2>2
<1>7. \A n \in Note : EventOf(n) # e => row'[n] = row[n]
  BY <1>2
<1>8. \A f \in Event : f # e => /\ NobodyTold(f) => NobodyTold(f)'
                                /\ AdminsTold(f) => AdminsTold(f)'
  BY <1>7, NoteParts DEF NobodyTold, AdminsTold
<1>9. \A f \in Event : Begun(f)' => Begun(f)
  BY <1>3 DEF Begun, In
<1>10. RowsFirst'
  <2>1. ~Begun(e)
    BY <1>1 DEF Order, RowsFirst
  <2>2. \A f \in Event : f # e =>
          /\ listener'[f].step \in {"idle", "invalidate", "recipients"} => NobodyTold(f)'
          /\ listener'[f].step = "add" => AdminsTold(f)'
          /\ Begun(f)' => listener'[f].step = "done" /\ AdminsTold(f)'
    BY <1>1, <1>8, <1>9 DEF Order, RowsFirst
  <2>3. /\ listener'[e].step = "add" /\ AdminsTold(e)'
        /\ ~Begun(e)'
    BY <1>1, <1>6, <1>9, <2>1
  <2> QED
    BY <2>2, <2>3 DEF RowsFirst
<1>11. \A n \in Note : row[n].st # "none" => row'[n].st # "none"
  BY <1>2, <1>5
<1>12. MailFirst'
  <2>1. \A x \in updates : x.note \in Note
    BY DEF TypeOK, Update
  <2> QED
    BY <1>3, <1>11, <2>1 DEF Order, MailFirst
<1>13. ToldOnce'
  <2> SUFFICES ASSUME NEW f \in Event, NEW u \in User
               PROVE  row'[<<f, u, "role">>].st = "none" \/ row'[<<f, u, "manager">>].st = "none"
    BY DEF ToldOnce
  <2> DEFINE a == <<f, u, "role">>
             b == <<f, u, "manager">>
  <2>1. /\ a \in Note /\ EventOf(a) = f /\ <<a[2], a[3]>> = <<u, "role">>
        /\ b \in Note /\ EventOf(b) = f /\ <<b[2], b[3]>> = <<u, "manager">>
    BY NoteParts
  <2>2. row[a].st = "none" \/ row[b].st = "none"
    BY DEF Order, ToldOnce
  <2>3. f = e => row[a].st = "none" /\ row[b].st = "none"
    BY <1>4, <2>1 DEF NobodyTold
  <2> HIDE DEF a, b
  <2>4. row'[a].st = "none" \/ row'[b].st = "none"
    BY <1>2, <2>1, <2>2, <2>3, OneReason
  <2> QED
    BY <2>4 DEF a, b
<1> QED
  BY <1>10, <1>12, <1>13 DEF Order

LEMMA AddJobOrder ==
  ASSUME TypeOK, Order, NEW e \in Event, AddJob(e)
  PROVE  Order'
<1>1. /\ listener[e].step = "add" /\ listener'[e].step = "done"
      /\ \A f \in Event : f # e => listener'[f] = listener[f]
  BY AddJobTypes
<1>2. UNCHANGED <<row, queueVars, updates>> /\ In(notify') = In(notify) \cup {e}
  BY Appended DEF AddJob, TypeOK
<1>3. \A f \in Event : f # e => Begun(f)' = Begun(f)
  BY <1>2 DEF Begun, queueVars
<1>4. \A f \in Event : AdminsTold(f)' = AdminsTold(f) /\ NobodyTold(f)' = NobodyTold(f)
  BY <1>2 DEF AdminsTold, NobodyTold
<1>5. RowsFirst'
  BY <1>1, <1>3, <1>4 DEF Order, RowsFirst
<1>6. MailFirst' /\ ToldOnce'
  BY <1>2 DEF Order, MailFirst, ToldOnce, queueVars
<1> QED
  BY <1>5, <1>6 DEF Order

\* A step of the queue application or of its jobs.
LEMMA JobOrder ==
  ASSUME TypeOK, Order, UNCHANGED <<listener, row>>,
         \A e \in Event : Begun(e)' => Begun(e),
         \A e \in Event : mail'[e] = "sent" \/ e \in results' \/ marking' = e => mails'[e] > 0,
         \A x \in updates' : x.read \/ (mails'[EventOf(x.note)] > 0 /\ row[x.note].st # "none")
  PROVE  Order'
<1>1. \A e \in Event : NobodyTold(e)' = NobodyTold(e) /\ AdminsTold(e)' = AdminsTold(e)
  BY DEF NobodyTold, AdminsTold
<1>2. RowsFirst'
  BY <1>1 DEF Order, RowsFirst
<1>3. MailFirst' /\ ToldOnce'
  BY DEF Order, MailFirst, ToldOnce
<1> QED
  BY <1>2, <1>3 DEF Order

LEMMA QueuedOrder ==
  ASSUME TypeOK, Order, NEW e \in Event, Queued(e)
  PROVE  Order'
<1>0. MailFirst
  BY DEF Order
<1>t. \A x \in updates : x.note \in Note
  BY DEF TypeOK, Update
<1>1. CASE SendMail(e)
  <2>1. \A f \in Event : mails'[f] = IF f = e THEN mails[f] + 1 ELSE mails[f]
    BY <1>1 DEF SendMail, TypeOK
  <2>2. \A f \in Event : mails[f] \in Nat
    BY DEF TypeOK
  <2>3. \A f \in Event : f # e => mail'[f] = mail[f]
    BY <1>1 DEF SendMail, TypeOK
  <2>4. /\ UNCHANGED <<listener, row, notify, active, results, marking, updates>>
        /\ mail[e] = "sending"
    BY <1>1 DEF SendMail
  <2>5. \A f \in Event : Begun(f)' => Begun(f)
    BY <2>1, <2>3, <2>4 DEF Begun, In
  <2>6. \A f \in Event : mail'[f] = "sent" \/ f \in results' \/ marking' = f => mails'[f] > 0
    BY <1>0, <2>1, <2>2, <2>3, <2>4 DEF MailFirst
  <2>7. \A x \in updates' : x.read \/ (mails'[EventOf(x.note)] > 0 /\ row[x.note].st # "none")
    BY <1>0, <1>t, <2>1, <2>2, <2>4, NoteParts DEF MailFirst
  <2> QED
    BY <2>4, <2>5, <2>6, <2>7, JobOrder
<1>2. CASE Report(e)
  <2>1. /\ mail[e] = "sent" /\ UNCHANGED <<listener, row, notify, active, mails, marking, updates>>
        /\ results' = results \cup {e}
        /\ \A f \in Event : mail'[f] = IF f = e THEN "none" ELSE mail[f]
    BY <1>2 DEF Report, TypeOK
  <2>2. \A f \in Event : Begun(f)' => Begun(f)
    BY <2>1 DEF Begun, In
  <2>3. \A f \in Event : mail'[f] = "sent" \/ f \in results' \/ marking' = f => mails'[f] > 0
    BY <1>0, <2>1 DEF MailFirst
  <2>4. \A x \in updates' : x.read \/ (mails'[EventOf(x.note)] > 0 /\ row[x.note].st # "none")
    BY <1>0, <2>1 DEF MailFirst
  <2> QED
    BY <2>1, <2>2, <2>3, <2>4, JobOrder
<1>3. CASE StartMarking(e) \/ MarkingLost(e)
  <2>1. /\ UNCHANGED <<listener, row, notify, active, mail, mails, updates>>
        /\ \A f \in Event : f \in results' \/ marking' = f => f \in results \/ marking = f
    BY <1>3, NotificationsAssumption DEF StartMarking, MarkingLost
  <2>2. \A f \in Event : Begun(f)' => Begun(f)
    BY <2>1 DEF Begun, In
  <2>3. \A f \in Event : mail'[f] = "sent" \/ f \in results' \/ marking' = f => mails'[f] > 0
    BY <1>0, <2>1 DEF MailFirst
  <2>4. \A x \in updates' : x.read \/ (mails'[EventOf(x.note)] > 0 /\ row[x.note].st # "none")
    BY <1>0, <2>1 DEF MailFirst
  <2> QED
    BY <2>1, <2>2, <2>3, <2>4, JobOrder
<1>4. CASE MarkAsDelivered(e)
  <2>1. /\ UNCHANGED <<listener, row, notify, active, mail, mails, results>>
        /\ marking = e /\ marking' = NoEvent
        /\ \A x \in updates' : \/ x \in updates
                               \/ EventOf(x.note) = e /\ row[x.note].st # "none"
    BY <1>4 DEF MarkAsDelivered
  <2>2. \A f \in Event : Begun(f)' => Begun(f)
    BY <2>1 DEF Begun, In
  <2>3. \A f \in Event : mail'[f] = "sent" \/ f \in results' \/ marking' = f => mails'[f] > 0
    BY <1>0, <2>1, NotificationsAssumption DEF MailFirst
  <2>4. \A x \in updates' : x.read \/ (mails'[EventOf(x.note)] > 0 /\ row[x.note].st # "none")
    BY <1>0, <2>1 DEF MailFirst
  <2> QED
    BY <2>1, <2>2, <2>3, <2>4, JobOrder
<1> QED
  BY <1>1, <1>2, <1>3, <1>4 DEF Queued

LEMMA ProcessOrder ==
  ASSUME TypeOK, Order, Process
  PROVE  Order'
<1>1. notify # <<>> /\ notify \in Seq(Event)
  BY DEF Process, TypeOK
<1>2. /\ Head(notify) \in In(notify) /\ Head(notify) \in Event
      /\ In(notify') \subseteq In(notify)
  BY <1>1, Shifted DEF Process
<1>3. /\ active' = Head(notify) /\ UNCHANGED <<listener, row, mails, results, marking, updates>>
      /\ \A f \in Event : mail'[f] = IF f = Head(notify) THEN "sending" ELSE mail[f]
  BY DEF Process, TypeOK
<1>4. \A f \in Event : Begun(f)' => Begun(f)
  BY <1>2, <1>3 DEF Begun
<1>5. \A f \in Event : mail'[f] = "sent" \/ f \in results' \/ marking' = f => mails'[f] > 0
  BY <1>3 DEF Order, MailFirst
<1>6. \A x \in updates' : x.read \/ (mails'[EventOf(x.note)] > 0 /\ row[x.note].st # "none")
  BY <1>3 DEF Order, MailFirst
<1> QED
  BY <1>3, <1>4, <1>5, <1>6, JobOrder

LEMMA CompleteOrder ==
  ASSUME TypeOK, Order, Complete
  PROVE  Order'
<1>1. /\ active' = NoEvent
      /\ UNCHANGED <<listener, row, notify, mail, mails, results, marking, updates>>
  BY DEF Complete
<1>2. \A f \in Event : Begun(f)' => Begun(f)
  BY <1>1, NotificationsAssumption DEF Begun, In
<1>3. \A f \in Event : mail'[f] = "sent" \/ f \in results' \/ marking' = f => mails'[f] > 0
  BY <1>1 DEF Order, MailFirst
<1>4. \A x \in updates' : x.read \/ (mails'[EventOf(x.note)] > 0 /\ row[x.note].st # "none")
  BY <1>1 DEF Order, MailFirst
<1>5. UNCHANGED <<listener, row>>
  BY <1>1
<1> QED
  BY <1>2, <1>3, <1>4, <1>5, JobOrder

LEMMA QueueCrashOrder ==
  ASSUME TypeOK, Order, QueueCrash
  PROVE  Order'
<1>0. In(notify') \subseteq In(notify) \cup {active}
  <2>1. CASE notify' = notify
    BY <2>1
  <2>2. CASE active \in Event /\ notify' = <<active>> \o notify
    BY <2>2, PutFirst DEF TypeOK
  <2> QED
    BY <2>1, <2>2, QueueCrashTypes
<1>1. /\ \A f \in Event : f \in In(notify') => f \in In(notify) \/ f = active
      /\ active' = NoEvent /\ marking' = NoEvent
      /\ \A f \in Event : mail'[f] = "none"
      /\ \A f \in Event : f \in results' => f \in results \/ f = marking
      /\ UNCHANGED <<listener, row, mails, updates>>
  BY <1>0, QueueCrashTypes
<1>2. \A f \in Event : Begun(f)' => Begun(f)
  BY <1>1, NotificationsAssumption DEF Begun
<1>3. \A f \in Event : mail'[f] = "sent" \/ f \in results' \/ marking' = f => mails'[f] > 0
  BY <1>1, NotificationsAssumption DEF Order, MailFirst
<1>4. \A x \in updates' : x.read \/ (mails'[EventOf(x.note)] > 0 /\ row[x.note].st # "none")
  BY <1>1 DEF Order, MailFirst
<1> QED
  BY <1>1, <1>2, <1>3, <1>4, JobOrder

LEMMA RowStepOrder ==
  ASSUME TypeOK, Order, RowStep
  PROVE  Order'
<1>1. /\ \A n \in Note : row'[n].st = "none" <=> row[n].st = "none"
      /\ \A x \in updates' : x \in updates \/ x.read
      /\ UNCHANGED <<listener, notify, queueVars, crashes>>
  BY RowStepTypes
<1>2. \A e \in Event : /\ NobodyTold(e) => NobodyTold(e)'
                       /\ AdminsTold(e) => AdminsTold(e)'
                       /\ Begun(e)' = Begun(e)
  BY <1>1, NoteParts DEF NobodyTold, AdminsTold, Begun, In, queueVars
<1>3. RowsFirst'
  BY <1>1, <1>2 DEF Order, RowsFirst
<1>4. MailFirst'
  <2>1. \A x \in updates : x.note \in Note
    BY DEF TypeOK, Update
  <2> QED
    BY <1>1, <2>1 DEF Order, MailFirst, queueVars
<1>5. ToldOnce'
  BY <1>1, NoteParts DEF Order, ToldOnce
<1> QED
  BY <1>3, <1>4, <1>5 DEF Order

LEMMA ApiCrashOrder ==
  ASSUME TypeOK, Order, ApiCrash
  PROVE  Order'
<1>1. /\ \A e \in Event : listener'[e].step = IF listener[e] = Idle THEN "idle" ELSE "done"
      /\ updates' = {} /\ UNCHANGED <<row, notify, queueVars>>
  BY ApiCrashTypes DEF ApiCrash
<1>2. \A e \in Event : /\ NobodyTold(e)' = NobodyTold(e) /\ AdminsTold(e)' = AdminsTold(e)
                       /\ Begun(e)' = Begun(e)
  BY <1>1 DEF NobodyTold, AdminsTold, Begun, In, queueVars
<1>3. RowsFirst'
  BY <1>1, <1>2, ListeningStep DEF Order, RowsFirst
<1>4. MailFirst' /\ ToldOnce'
  BY <1>1 DEF Order, MailFirst, ToldOnce, queueVars
<1> QED
  BY <1>3, <1>4 DEF Order

LEMMA InitOrder == Init => Order
<1> SUFFICES ASSUME Init PROVE Order
  OBVIOUS
<1>1. \A e \in Event : listener[e].step = "idle" /\ NobodyTold(e) /\ ~Begun(e)
  <2>1. In(notify) = {}
    <3>1. notify = <<>> /\ Len(notify) = 0
      BY DEF Init
    <3> QED
      BY <3>1 DEF In
  <2>2. \A e \in Event : ~Begun(e)
    <3>1. \A e \in Event : active # e /\ mail[e] = "none" /\ mails[e] = 0
      BY NotificationsAssumption DEF Init
    <3>2. \A e \in Event : ~(mails[e] > 0)
      <4>1. mails = [e \in Event |-> 0] /\ ~(0 > 0)
        BY DEF Init
      <4> QED
        BY <4>1
    <3>3. \A e \in Event : e \notin In(notify)
      BY <2>1
    <3> QED
      BY <3>1, <3>2, <3>3 DEF Begun
  <2> QED
    BY <2>2 DEF Init, Idle, NobodyTold, NoRow
<1>2. RowsFirst
  BY <1>1 DEF RowsFirst
<1>3. MailFirst
  BY NotificationsAssumption DEF Init, MailFirst
<1>4. ToldOnce
  BY NoteParts DEF Init, ToldOnce, NoRow
<1> QED
  BY <1>2, <1>3, <1>4 DEF Order

LEMMA StepOrder == TypeOK /\ Order /\ [Next]_vars => Order'
<1> SUFFICES ASSUME TypeOK, Order, [Next]_vars PROVE Order'
  OBVIOUS
<1>1. CASE UNCHANGED vars
  BY <1>1 DEF vars, Order, RowsFirst, MailFirst, ToldOnce, NobodyTold, AdminsTold, Begun, In
<1>2. ASSUME NEW e \in Event, Emits(e) PROVE Order'
  BY <1>2, EmitsTypes, EarlyOrder DEF Idle
<1>3. ASSUME NEW e \in Event, Invalidate(e) PROVE Order'
  BY <1>3, InvalidateTypes, EarlyOrder
<1> QED
  BY <1>1, <1>2, <1>3, NextSteps, SaveRowsOrder, AddJobOrder, QueuedOrder, ProcessOrder,
     CompleteOrder, RowStepOrder, ApiCrashOrder, QueueCrashOrder

LEMMA OrderAlways == Spec => [](TypeOK /\ Order)
BY InitTypes, StepTypes, InitOrder, StepOrder, PTL DEF Spec

\* A user is told of an event once, whatever makes the user a recipient of it.
THEOREM ToldOnceAlways == Spec => []ToldOnce
<1>1. Order => ToldOnce
  BY DEF Order
<1> QED
  BY <1>1, OrderAlways, PTL

\* Rows, mail and the mark of delivery never overtake each other, however handlers, jobs,
\* callbacks, delayed jobs, requests and statements interleave with crashes of either process.
THEOREM DeliveryInOrderAlways == Spec => []DeliveryInOrder
<1>1. ASSUME TypeOK, Order PROVE DeliveryInOrder
  <2>1. \A e \in Event : Mailed(e) => listener[e].step = "done" /\ AdminsTold(e)
    BY <1>1 DEF Order, RowsFirst, Begun, Mailed
  <2>2. \A e \in Event : listener[e].step = "done" => listener[e] # Idle
    BY DEF Idle
  <2>3. \A e \in Event : Reporting(e) => Mailed(e)
    BY <1>1 DEF Order, MailFirst, Reporting, Mailed
  <2>4. \A n \in Note : Marking(n) => Mailed(EventOf(n)) /\ row[n].st # "none"
    BY <1>1 DEF Order, MailFirst, Marking, Mailed
  <2> QED
    BY <2>1, <2>2, <2>3, <2>4 DEF DeliveryInOrder, AdminsTold
<1> QED
  BY <1>1, OrderAlways, PTL

-----------------------------------------------------------------------------
(* How often a mail is sent.                                                    *)

Sending(e) == IF mail[e] = "sending" THEN 1 ELSE 0
Stalls(e) == stalls[<<e, "notification">>]

\* A job is in one place, and has been run once more than it was cut off if a worker holds
\* it, as often as it was cut off if it waits.
RunsOf(e) ==
  /\ mails[e] + Sending(e) <= 1 + MaxStall
  /\ e \in In(notify) => mail[e] = "none" /\ mails[e] <= Stalls(e)
  /\ e \in In(notify) \/ active = e \/ listener[e].step # "done" => Stalls(e) <= MaxStall
  /\ active = e => mails[e] + Sending(e) <= Stalls(e) + 1

Runs == Distinct(notify) /\ active \notin In(notify) /\ \A e \in Event : RunsOf(e)

LEMMA RunNumbers ==
  ASSUME TypeOK, NEW e \in Event
  PROVE  /\ mails[e] \in Nat /\ Stalls(e) \in Nat /\ MaxStall \in Nat
         /\ Sending(e) \in {0, 1}
BY NotificationsAssumption DEF TypeOK, Stalls, Sending, Queue

\* A step that runs no job.
LEMMA SameRuns ==
  ASSUME TypeOK, Runs, UNCHANGED <<notify, active, mail, mails, stalls>>,
         \A e \in Event : listener'[e].step # "done" => listener[e].step # "done"
  PROVE  Runs'
BY DEF Runs, RunsOf, Sending, Stalls, Distinct, In

LEMMA AddJobRuns ==
  ASSUME TypeOK, Order, Runs, NEW e \in Event, AddJob(e)
  PROVE  Runs'
<1>1. /\ listener[e].step = "add" /\ listener'[e].step = "done"
      /\ \A f \in Event : f # e => listener'[f] = listener[f]
  BY AddJobTypes
<1>2. ~Begun(e)
  BY <1>1 DEF Order, RowsFirst
<1>3. e \notin In(notify) /\ active # e /\ mail[e] = "none" /\ mails[e] = 0
  BY <1>2 DEF Begun, TypeOK
<1>4. /\ In(notify') = In(notify) \cup {e} /\ Distinct(notify')
      /\ UNCHANGED <<active, mail, mails, stalls>>
  BY <1>3, Appended DEF AddJob, TypeOK, queueVars, Runs
<1>5. \A f \in Event : f # e => RunsOf(f)'
  BY <1>1, <1>4 DEF Runs, RunsOf, Sending, Stalls
<1>6. RunsOf(e)'
  <2>1. RunsOf(e)
    BY DEF Runs
  <2>2. Stalls(e) \in Nat /\ MaxStall \in Nat /\ Stalls(e) <= MaxStall
    BY <1>1, <2>1, RunNumbers DEF RunsOf
  <2> QED
    BY <1>3, <1>4, <2>1, <2>2 DEF RunsOf, Sending, Stalls
<1> QED
  BY <1>3, <1>4, <1>5, <1>6 DEF Runs

LEMMA ProcessRuns ==
  ASSUME TypeOK, Order, Runs, Process
  PROVE  Runs'
<1>1. notify # <<>> /\ notify \in Seq(Event)
  BY DEF Process, TypeOK
<1>a. PICK e \in Event : e = Head(notify)
  BY <1>1, Shifted
<1>2. /\ e \in In(notify) /\ e \in Event
      /\ In(notify') \subseteq In(notify) /\ Distinct(notify') /\ e \notin In(notify')
  BY <1>1, <1>a, Shifted DEF Process, Runs
<1>3. /\ active' = e /\ UNCHANGED <<listener, mails, stalls>>
      /\ \A f \in Event : mail'[f] = IF f = e THEN "sending" ELSE mail[f]
  BY <1>a DEF Process, TypeOK
<1>4. \A f \in Event : f # e => RunsOf(f)'
  BY <1>2, <1>3 DEF Runs, RunsOf, Sending, Stalls
<1>5. RunsOf(e)'
  <2>1. mails[e] <= Stalls(e) /\ Stalls(e) <= MaxStall
    BY <1>2 DEF Runs, RunsOf
  <2>2. mails[e] + 1 <= Stalls(e) + 1 /\ mails[e] + 1 <= 1 + MaxStall
    BY <1>2, <2>1, RunNumbers
  <2>3. mails'[e] = mails[e] /\ Stalls(e)' = Stalls(e) /\ Sending(e)' = 1
    BY <1>2, <1>3 DEF Stalls, Sending
  <2> QED
    BY <1>2, <1>3, <2>1, <2>2, <2>3 DEF RunsOf
<1> QED
  BY <1>2, <1>3, <1>4, <1>5 DEF Runs

LEMMA CompleteRuns ==
  ASSUME TypeOK, Runs, Complete
  PROVE  Runs'
<1>1. active' = NoEvent /\ UNCHANGED <<listener, notify, mail, mails, stalls>>
  BY DEF Complete
<1>2. In(notify) \subseteq Event
  BY InEvents DEF TypeOK
<1> QED
  <2>1. \A e \in Event : active' # e
    BY <1>1, NotificationsAssumption
  <2>2. \A e \in Event : /\ RunsOf(e)
                         /\ Sending(e)' = Sending(e) /\ Stalls(e)' = Stalls(e)
    BY <1>1 DEF Runs, Sending, Stalls
  <2>3. In(notify') = In(notify) /\ (Distinct(notify) => Distinct(notify'))
    BY <1>1
  <2>4. \A e \in Event : RunsOf(e)'
    BY <1>1, <2>1, <2>2, <2>3 DEF RunsOf
  <2>5. active' \notin In(notify')
    BY <1>1, <1>2, <2>3, NotificationsAssumption
  <2> QED
    BY <2>3, <2>4, <2>5 DEF Runs

LEMMA QueuedRuns ==
  ASSUME TypeOK, Runs, NEW e \in Event, Queued(e)
  PROVE  Runs'
<1>1. CASE SendMail(e)
  <2>1. /\ mail[e] = "sending" /\ UNCHANGED <<listener, notify, active, stalls>>
        /\ \A f \in Event : f # e => mail'[f] = mail[f] /\ mails'[f] = mails[f]
        /\ mail'[e] = "sent" /\ mails'[e] = mails[e] + 1
    BY <1>1 DEF SendMail, TypeOK
  <2>2. \A f \in Event : f # e => RunsOf(f)'
    BY <2>1 DEF Runs, RunsOf, Sending, Stalls, In
  <2>3. RunsOf(e)'
    <3>1. RunsOf(e) /\ e \notin In(notify)
      BY <2>1 DEF Runs, RunsOf
    <3>2. Sending(e) = 1 /\ Sending(e)' = 0 /\ Stalls(e)' = Stalls(e)
      BY <2>1 DEF Sending, Stalls
    <3>3. mails[e] \in Nat /\ Stalls(e) \in Nat /\ MaxStall \in Nat
      BY RunNumbers
    <3>4. mails'[e] + Sending(e)' = mails[e] + Sending(e)
      BY <2>1, <3>2, <3>3
    <3> QED
      BY <2>1, <3>1, <3>2, <3>4 DEF RunsOf, In
  <2> QED
    BY <2>1, <2>2, <2>3 DEF Runs, Distinct, In
<1>2. CASE Report(e)
  <2>1. /\ mail[e] = "sent" /\ UNCHANGED <<listener, notify, active, mails, stalls>>
        /\ \A f \in Event : mail'[f] = IF f = e THEN "none" ELSE mail[f]
    BY <1>2 DEF Report, TypeOK
  <2> QED
    BY <2>1 DEF Runs, RunsOf, Sending, Stalls, Distinct, In
<1>3. CASE StartMarking(e) \/ MarkAsDelivered(e) \/ MarkingLost(e)
  BY <1>3, SameRuns DEF StartMarking, MarkAsDelivered, MarkingLost
<1> QED
  BY <1>1, <1>2, <1>3 DEF Queued

LEMMA QueueCrashRuns ==
  ASSUME TypeOK, Order, Runs, QueueCrash
  PROVE  Runs'
<1>1. /\ \A f \in Event : mail'[f] = "none" /\ Sending(f)' = 0
      /\ active' = NoEvent
      /\ UNCHANGED <<listener, mails>>
      /\ \A f \in Event : f # active => Stalls(f)' = Stalls(f)
  BY QueueCrashTypes DEF Stalls, Sending
<1>2. In(notify) \subseteq Event /\ In(notify') \subseteq Event
  <2>1. notify \in Seq(Event) /\ notify' \in Seq(Event)
    BY QueueCrashTypes DEF TypeOK
  <2> QED
    BY <2>1, InEvents
<1>3. \/ notify' = notify
      \/ /\ active \in Event /\ Stalls(active) < MaxStall
         /\ notify' = <<active>> \o notify
  BY QueueCrashTypes DEF Stalls
<1>4. active \notin In(notify) /\ Distinct(notify) /\ \A f \in Event : RunsOf(f)
  BY DEF Runs
<1>5. Distinct(notify')
  <2>1. CASE notify' = notify
    BY <1>4, <2>1
  <2>2. CASE active \in Event /\ notify' = <<active>> \o notify
    BY <1>4, <2>2, PutFirst DEF TypeOK
  <2> QED
    BY <1>3, <2>1, <2>2
<1>6. \A f \in In(notify') : \/ f \in In(notify)
                             \/ f = active /\ Stalls(active) < MaxStall
  <2>1. CASE notify' = notify
    BY <2>1
  <2>2. CASE active \in Event /\ Stalls(active) < MaxStall /\ notify' = <<active>> \o notify
    BY <2>2, PutFirst DEF TypeOK
  <2> QED
    BY <1>3, <2>1, <2>2
<1>7. \A f \in Event : f # active => RunsOf(f)'
  <2> SUFFICES ASSUME NEW f \in Event, f # active PROVE RunsOf(f)'
    OBVIOUS
  <2>1. /\ mails[f] \in Nat /\ Stalls(f) \in Nat /\ MaxStall \in Nat
        /\ Sending(f) \in {0, 1} /\ RunsOf(f)
    BY <1>4, RunNumbers
  <2>2. mails[f] <= 1 + MaxStall
    BY <2>1 DEF RunsOf
  <2>3. mails'[f] + Sending(f)' <= 1 + MaxStall
    BY <1>1, <2>1, <2>2
  <2>4. f \in In(notify') => f \in In(notify)
    BY <1>6
  <2>5. Stalls(f)' = Stalls(f) /\ active' # f /\ mail'[f] = "none"
    BY <1>1, NotificationsAssumption
  <2> QED
    BY <1>1, <2>1, <2>3, <2>4, <2>5 DEF RunsOf
<1>8. ASSUME NEW e \in Event, e = active PROVE RunsOf(e)'
  <2>1. /\ mails[e] \in Nat /\ Stalls(e) \in Nat /\ MaxStall \in Nat
        /\ Sending(e) \in {0, 1} /\ RunsOf(e)
    BY <1>4, RunNumbers
  <2>2. /\ mails[e] <= 1 + MaxStall
        /\ mails[e] <= Stalls(e) + 1
        /\ Stalls(e) <= MaxStall
    BY <1>8, <2>1 DEF RunsOf
  <2>3. Stalls(e)' = Stalls(e) + 1
    BY <1>8, <2>2, QueueCrashTypes DEF Stalls
  <2>4. listener'[e].step = "done"
    BY <1>1, <1>8 DEF Order, RowsFirst, Begun
  <2>5. active' # e
    BY <1>1, NotificationsAssumption
  <2>6. e \in In(notify') => Stalls(e) < MaxStall
    BY <1>4, <1>6, <1>8
  <2>7. mails'[e] + Sending(e)' <= 1 + MaxStall
    BY <1>1, <2>1, <2>2
  <2>8. e \in In(notify') => mails'[e] <= Stalls(e)' /\ Stalls(e)' <= MaxStall
    BY <1>1, <2>1, <2>2, <2>3, <2>6
  <2> QED
    BY <1>1, <2>4, <2>5, <2>7, <2>8 DEF RunsOf
<1>9. active' \notin In(notify')
  BY <1>1, <1>2, NotificationsAssumption
<1> QED
  BY <1>5, <1>7, <1>8, <1>9 DEF Runs

LEMMA StepRuns == TypeOK /\ Order /\ Runs /\ [Next]_vars => Runs'
<1> SUFFICES ASSUME TypeOK, Order, Runs, [Next]_vars PROVE Runs'
  OBVIOUS
<1>1. CASE UNCHANGED vars
  BY <1>1, SameRuns DEF vars
<1>2. ASSUME NEW e \in Event, Emits(e) PROVE Runs'
  <2>1. listener[e].step # "done"
    BY <1>2, EmitsTypes DEF Idle
  <2> QED
    BY <1>2, <2>1, EmitsTypes, SameRuns DEF queueVars
<1>3. ASSUME NEW e \in Event, Invalidate(e) PROVE Runs'
  <2>1. listener[e].step # "done"
    BY <1>3, InvalidateTypes
  <2> QED
    BY <1>3, <2>1, InvalidateTypes, SameRuns DEF queueVars
<1>4. ASSUME NEW e \in Event, SaveRows(e) PROVE Runs'
  <2>1. listener[e].step # "done"
    BY <1>4, SaveRowsTypes
  <2>2. UNCHANGED <<notify, active, mail, mails, stalls>>
    BY <1>4 DEF SaveRows, queueVars
  <2> QED
    BY <1>4, <2>1, <2>2, SaveRowsTypes, SameRuns
<1>5. CASE RowStep
  BY <1>5, RowStepTypes, SameRuns DEF queueVars
<1>6. CASE ApiCrash
  <2>1. \A e \in Event : listener'[e].step # "done" => listener[e].step # "done"
    BY <1>6, ApiCrashTypes DEF Idle
  <2> QED
    BY <1>6, <2>1, SameRuns DEF ApiCrash, queueVars
<1> QED
  BY <1>1, <1>2, <1>3, <1>4, <1>5, <1>6, NextSteps, AddJobRuns, ProcessRuns, CompleteRuns,
     QueuedRuns, QueueCrashRuns

\* However often the queue application dies, an event is mailed at most once more than the
\* queue runs a stalled job again.
THEOREM MailedBoundedlyAlways == Spec => []MailedBoundedly
<1>1. Init => Runs
  <2> SUFFICES ASSUME Init PROVE Runs
    OBVIOUS
  <2>1. notify = <<>> /\ Len(notify) = 0
    BY DEF Init
  <2>2. In(notify) = {} /\ Distinct(notify)
    BY <2>1 DEF In, Distinct
  <2>3. \A e \in Event : /\ mails[e] = 0 /\ Sending(e) = 0 /\ active # e
                         /\ Stalls(e) = 0 /\ MaxStall \in Nat
    BY NotificationsAssumption DEF Init, Sending, Stalls, Queue
  <2> QED
    BY <2>2, <2>3 DEF Runs, RunsOf
<1>2. TypeOK /\ Runs => MailedBoundedly
  <2> SUFFICES ASSUME TypeOK, Runs, NEW e \in Event PROVE mails[e] <= 1 + MaxStall
    BY DEF MailedBoundedly
  <2>1. mails[e] + Sending(e) <= 1 + MaxStall
    BY DEF Runs, RunsOf
  <2> QED
    BY <2>1, RunNumbers
<1> QED
  BY <1>1, <1>2, StepRuns, OrderAlways, PTL DEF Spec

-----------------------------------------------------------------------------
(* What has been read stays read.                                               *)

\* What a step must leave alone for a settled event to stay settled.
LEMMA StaysSettled ==
  ASSUME TypeOK, NEW n \in Note, Settled(n),
         listener'[EventOf(n)] = listener[EventOf(n)],
         EventOf(n) \in In(notify') => EventOf(n) \in In(notify),
         active' = EventOf(n) => active = EventOf(n),
         mail'[EventOf(n)] = "none",
         EventOf(n) \in results' => EventOf(n) \in results,
         marking' = EventOf(n) => marking = EventOf(n),
         \A x \in updates' : x \in updates \/ x.note # n \/ x.read
  PROVE  Settled(n)'
BY DEF Settled, Pending, Marking, In

\* A settled event has nothing under way.
LEMMA SettledRests ==
  ASSUME TypeOK, NEW n \in Note, Settled(n)
  PROVE  /\ EventOf(n) \in Event
         /\ listener[EventOf(n)].step = "done"
         /\ EventOf(n) \notin In(notify) /\ active # EventOf(n)
         /\ mail[EventOf(n)] = "none"
         /\ EventOf(n) \notin results /\ marking # EventOf(n)
         /\ \A x \in updates : x.note # n \/ x.read
<1>1. EventOf(n) \in Event
  BY NoteParts
<1> QED
  BY <1>1 DEF Settled, Pending, Marking, In, TypeOK

\* Rows of settled events are only removed, aged or read.
LEMMA NotUnreadAgain ==
  ASSUME TypeOK, NEW n \in Note, NEW u \in User, row'[n] = row[n]
  PROVE  n \in Unread(u)' => n \in Unread(u)
BY DEF Unread

LEMMA StepSticks ==
  ASSUME TypeOK, Next, NEW n \in Note, Settled(n)
  PROVE  Settled(n)' /\ \A u \in User : n \in Unread(u)' => n \in Unread(u)
<1> DEFINE e == EventOf(n)
<1>1. /\ e \in Event /\ e # NoEvent /\ listener[e].step = "done"
      /\ e \notin In(notify) /\ active # e /\ mail[e] = "none"
      /\ e \notin results /\ marking # e
      /\ \A x \in updates : x.note # n \/ x.read
  BY SettledRests, NotificationsAssumption
<1> HIDE DEF e
<1>2. ASSUME NEW f \in Event, Emits(f) \/ Invalidate(f)
      PROVE  Settled(n)' /\ \A u \in User : n \in Unread(u)' => n \in Unread(u)
  <2>1. /\ f # e /\ listener'[e] = listener[e]
        /\ UNCHANGED <<row, notify, queueVars, updates, crashes>>
    BY <1>1, <1>2, EmitsTypes, InvalidateTypes DEF Idle
  <2>2. Settled(n)'
    BY <1>1, <2>1, StaysSettled DEF queueVars, e
  <2> QED
    BY <2>1, <2>2, NotUnreadAgain
<1>3. ASSUME NEW f \in Event, SaveRows(f)
      PROVE  Settled(n)' /\ \A u \in User : n \in Unread(u)' => n \in Unread(u)
  <2>1. f # e /\ listener'[e] = listener[e]
    BY <1>1, <1>3, SaveRowsTypes
  <2>2. row'[n] = row[n] /\ UNCHANGED <<notify, queueVars, updates>>
    BY <1>3, <2>1 DEF SaveRows, e
  <2>3. Settled(n)'
    BY <1>1, <2>1, <2>2, StaysSettled DEF queueVars, e
  <2> QED
    BY <2>2, <2>3, NotUnreadAgain
<1>4. ASSUME NEW f \in Event, AddJob(f)
      PROVE  Settled(n)' /\ \A u \in User : n \in Unread(u)' => n \in Unread(u)
  <2>1. f # e /\ listener'[e] = listener[e]
    BY <1>1, <1>4, AddJobTypes
  <2>2. In(notify') = In(notify) \cup {f} /\ UNCHANGED <<row, queueVars, updates>>
    BY <1>4, Appended DEF AddJob, TypeOK
  <2>3. Settled(n)'
    BY <1>1, <2>1, <2>2, StaysSettled DEF queueVars, e
  <2> QED
    BY <2>2, <2>3, NotUnreadAgain
<1>5. ASSUME NEW f \in Event, Queued(f)
      PROVE  Settled(n)' /\ \A u \in User : n \in Unread(u)' => n \in Unread(u)
  <2>1. f # e
    BY <1>1, <1>5 DEF Queued, SendMail, Report, StartMarking, MarkAsDelivered, MarkingLost
  <2>2. UNCHANGED <<listener, row, notify, active>>
    BY <1>5 DEF Queued, SendMail, Report, StartMarking, MarkAsDelivered, MarkingLost
  <2>3. mail'[e] = "none"
    BY <1>1, <1>5, <2>1
       DEF Queued, SendMail, Report, StartMarking, MarkAsDelivered, MarkingLost, TypeOK
  <2>4. e \in results' => e \in results
    BY <1>5, <2>1 DEF Queued, SendMail, Report, StartMarking, MarkAsDelivered, MarkingLost
  <2>5. marking' = e => marking = e
    BY <1>1, <1>5, <2>1 DEF Queued, SendMail, Report, StartMarking, MarkAsDelivered, MarkingLost
  <2>6. \A x \in updates' : x \in updates \/ x.note # n \/ x.read
    <3>1. CASE MarkAsDelivered(f)
      BY <2>1, <3>1 DEF MarkAsDelivered, e
    <3>2. CASE ~MarkAsDelivered(f)
      BY <1>5, <3>2 DEF Queued, SendMail, Report, StartMarking, MarkingLost
    <3> QED
      BY <3>1, <3>2
  <2>7. In(notify') = In(notify)
    BY <2>2
  <2>8. Settled(n)'
    BY <2>2, <2>3, <2>4, <2>5, <2>6, <2>7, StaysSettled DEF e
  <2> QED
    BY <2>2, <2>8, NotUnreadAgain
<1>6. ASSUME Process
      PROVE  Settled(n)' /\ \A u \in User : n \in Unread(u)' => n \in Unread(u)
  <2>1. notify # <<>> /\ notify \in Seq(Event)
    BY <1>6 DEF Process, TypeOK
  <2>2. Head(notify) \in In(notify) /\ In(notify') \subseteq In(notify)
    BY <1>6, <2>1, Shifted DEF Process
  <2>3. /\ active' = Head(notify) /\ mail' = [mail EXCEPT ![Head(notify)] = "sending"]
        /\ UNCHANGED <<listener, row, results, marking, updates>>
    BY <1>6 DEF Process
  <2>4. active' # e /\ mail'[e] = "none"
    BY <1>1, <2>2, <2>3 DEF TypeOK
  <2>5. Settled(n)'
    BY <1>1, <2>2, <2>3, <2>4, StaysSettled DEF e
  <2> QED
    BY <2>3, <2>5, NotUnreadAgain
<1>7. ASSUME Complete
      PROVE  Settled(n)' /\ \A u \in User : n \in Unread(u)' => n \in Unread(u)
  <2>1. active' = NoEvent /\ UNCHANGED <<listener, row, notify, mail, results, marking, updates>>
    BY <1>7 DEF Complete
  <2>2. Settled(n)'
    BY <1>1, <2>1, StaysSettled DEF e, In
  <2> QED
    BY <2>1, <2>2, NotUnreadAgain
<1>8. ASSUME RowStep
      PROVE  Settled(n)' /\ \A u \in User : n \in Unread(u)' => n \in Unread(u)
  <2>1. /\ \A x \in updates' : x \in updates \/ x.read
        /\ UNCHANGED <<listener, notify, queueVars, crashes>>
    BY <1>8, RowStepTypes
  <2>2. Settled(n)'
    BY <1>1, <2>1, StaysSettled DEF queueVars, e
  <2>3. row[n] \in Row
    BY RowTypes
  <2>4. ASSUME NEW x \in updates, Execute(x) PROVE row'[n] = row[n] \/ row'[n].read
    <3>1. row'[n] = IF n = x.note /\ row[n].st = "live"
                    THEN [row[n] EXCEPT !.read = x.read] ELSE row[n]
      BY <2>4 DEF Execute
    <3>2. [row[n] EXCEPT !.read = x.read].read = x.read
      BY <2>3 DEF Row
    <3> QED
      BY <1>1, <3>1, <3>2
  <2>5. ASSUME NEW u \in User, MarkRead(u) PROVE row' = row
    BY <2>5 DEF MarkRead
  <2>6. ASSUME NEW u \in User, Remove(u) PROVE row'[n] = row[n] \/ row'[n].st # "live"
    BY <2>6 DEF Remove, Listed, TypeOK, Row
  <2>7. ASSUME NEW m \in Note, Age(m) PROVE row'[n] = row[n] \/ ~row'[n].recent
    BY <2>7 DEF Age, TypeOK, Row
  <2>8. row'[n] = row[n] \/ row'[n].read \/ row'[n].st # "live" \/ ~row'[n].recent
    BY <1>8, <2>4, <2>5, <2>6, <2>7 DEF RowStep
  <2>9. \A u \in User : n \in Unread(u)' => n \in Unread(u)
    BY <2>8 DEF Unread
  <2> QED
    BY <2>2, <2>9
<1>9. ASSUME ApiCrash
      PROVE  Settled(n)' /\ \A u \in User : n \in Unread(u)' => n \in Unread(u)
  <2>1. /\ listener' = [f \in Event |-> IF listener[f] = Idle THEN Idle
                                        ELSE [listener[f] EXCEPT !.step = "done"]]
        /\ updates' = {} /\ UNCHANGED <<row, notify, queueVars>>
    BY <1>9 DEF ApiCrash
  <2>2. listener[e] \in Listening
    BY <1>1, ListeningStep
  <2>3. listener[e] # Idle /\ [listener[e] EXCEPT !.step = "done"] = listener[e]
    BY <1>1, <2>2 DEF Listening, Idle
  <2>4. listener'[e] = listener[e]
    BY <1>1, <2>1, <2>3
  <2>5. Settled(n)'
    BY <1>1, <2>1, <2>4, StaysSettled DEF queueVars, e
  <2> QED
    BY <2>1, <2>5, NotUnreadAgain
<1>10. ASSUME QueueCrash
       PROVE  Settled(n)' /\ \A u \in User : n \in Unread(u)' => n \in Unread(u)
  <2>1. /\ mail'[e] = "none" /\ active' # e /\ marking' # e
        /\ e \in results' => e \in results
        /\ UNCHANGED <<listener, row, updates>>
    BY <1>1, <1>10, QueueCrashTypes
  <2>2. e \in In(notify') => e \in In(notify)
    <3>1. CASE notify' = notify
      BY <3>1
    <3>2. CASE active \in Event /\ notify' = <<active>> \o notify
      BY <1>1, <3>2, PutFirst DEF TypeOK
    <3> QED
      BY <1>10, <3>1, <3>2, QueueCrashTypes
  <2>3. Settled(n)'
    BY <1>1, <2>1, <2>2, StaysSettled DEF e
  <2> QED
    BY <2>1, <2>3, NotUnreadAgain
<1> QED
  BY <1>2, <1>3, <1>4, <1>5, <1>6, <1>7, <1>8, <1>9, <1>10, NextSteps

\* Once the delivery of a notification is over, it stays over, and the notification never
\* comes back into its reader's count of unread ones.
THEOREM ReadSticksAlways == Spec => ReadSticks
<1>1. TypeOK /\ [Next]_vars => [SettledStays]_vars
  BY StepSticks DEF SettledStays
<1> QED
  BY <1>1, Typing, PTL DEF Spec, ReadSticks

-----------------------------------------------------------------------------
(* What Inbox promises.                                                         *)

Item == Event \X User
RoleNote(i) == <<i[1], i[2], "role">>
ManagerNote(i) == <<i[1], i[2], "manager">>
ItemFor(n) == <<n[1], n[2]>>

\* A user's item of an event stands for two notes, and a note for one item.
LEMMA ItemNotes ==
  /\ \A i \in Item : /\ i[1] \in Event /\ i[2] \in User /\ i = <<i[1], i[2]>>
                     /\ RoleNote(i) \in Note /\ EventOf(RoleNote(i)) = i[1]
                     /\ ManagerNote(i) \in Note /\ EventOf(ManagerNote(i)) = i[1]
                     /\ RoleNote(i) # ManagerNote(i)
  /\ \A n \in Note : /\ ItemFor(n) \in Item /\ ItemFor(n)[1] = EventOf(n)
                     /\ n \in {RoleNote(ItemFor(n)), ManagerNote(ItemFor(n))}
                     /\ \A i \in Item : n \in {RoleNote(i), ManagerNote(i)} => i = ItemFor(n)
BY DEF Item, RoleNote, ManagerNote, ItemFor, Note, EventOf

\* Items and deliveries, told by rows and notes.
LEMMA ItemStates ==
  ASSUME NEW i \in Item
  PROVE  /\ RowOf(i) = IF row[RoleNote(i)].st # "none" THEN row[RoleNote(i)]
                       ELSE row[ManagerNote(i)]
         /\ Items[i] = ItemOf(i) /\ Deliveries[i] = DeliveryOf(i)
         /\ Items'[i] = ItemOf(i)' /\ Deliveries'[i] = DeliveryOf(i)'
         /\ DeliveryOf(i) = IF listener[i[1]] = Idle THEN "before"
                            ELSE IF Settled(RoleNote(i)) /\ Settled(ManagerNote(i))
                            THEN "over" ELSE "open"
BY DEF Item, RoleNote, ManagerNote, RowOf, Items, Deliveries, DeliveryOf

\* Only an emission wakes a listener, and none goes back to sleep.
LEMMA Awake ==
  ASSUME TypeOK, TypeOK', Next, \A f \in Event : ~Emits(f), NEW e \in Event
  PROVE  listener'[e] = Idle <=> listener[e] = Idle
<1>1. /\ listener[e].step = "idle" <=> listener[e] = Idle
      /\ listener'[e].step = "idle" <=> listener'[e] = Idle
  <2>1. listener[e].step = "idle" <=> listener[e] = Idle
    BY ListeningStep
  <2>2. listener'[e].step = "idle" <=> listener'[e] = Idle
    <3>1. listener'[e] = Idle \/ listener'[e] \in Listening
      BY DEF TypeOK
    <3> QED
      BY <3>1 DEF Listening, Idle
  <2> QED
    BY <2>1, <2>2
<1>2. ASSUME NEW f \in Event, Invalidate(f) \/ SaveRows(f) \/ AddJob(f)
      PROVE  listener'[e].step = "idle" <=> listener[e].step = "idle"
  BY <1>2, InvalidateTypes, SaveRowsTypes, AddJobTypes
<1>3. ASSUME NEW f \in Event, Queued(f)
      PROVE  listener' = listener
  BY <1>3 DEF Queued, SendMail, Report, StartMarking, MarkAsDelivered, MarkingLost
<1>4. Process \/ Complete \/ RowStep \/ QueueCrash => listener' = listener
  BY RowStepTypes, QueueCrashTypes DEF Process, Complete
<1>5. ApiCrash => (listener'[e].step = "idle" <=> listener[e] = Idle)
  BY ApiCrashTypes
<1> QED
  BY <1>1, <1>2, <1>3, <1>4, <1>5, NextSteps

\* What is over stays over.
LEMMA OverStays ==
  ASSUME TypeOK, Next, NEW i \in Item, DeliveryOf(i) = "over"
  PROVE  DeliveryOf(i)' = "over"
<1>1. listener[i[1]] # Idle /\ Settled(RoleNote(i)) /\ Settled(ManagerNote(i))
  BY ItemStates
<1>2. Settled(RoleNote(i))' /\ Settled(ManagerNote(i))'
  BY <1>1, ItemNotes, StepSticks
<1>3. listener'[i[1]] # Idle
  BY <1>2, ItemNotes DEF Settled
<1> QED
  BY <1>2, <1>3 DEF DeliveryOf, RoleNote, ManagerNote

\* A step that changes no item and emits nothing ends some deliveries, or none.
LEMMA Closing ==
  ASSUME TypeOK, TypeOK', Next, \A e \in Event : ~Emits(e), \A i \in Item : ItemOf(i)' = ItemOf(i)
  PROVE  Promised!Next
<1> DEFINE some == {i \in Item : DeliveryOf(i) = "open" /\ DeliveryOf(i)' = "over"}
<1>1. ASSUME NEW i \in Item
      PROVE  DeliveryOf(i)' = IF i \in some THEN "over" ELSE DeliveryOf(i)
  <2>1. listener'[i[1]] = Idle <=> listener[i[1]] = Idle
    BY Awake, ItemNotes
  <2>2. /\ DeliveryOf(i) \in {"before", "open", "over"}
        /\ DeliveryOf(i)' \in {"before", "open", "over"}
    BY DEF DeliveryOf
  <2>3. DeliveryOf(i) = "before" <=> listener[i[1]] = Idle
    BY DEF DeliveryOf
  <2>4. DeliveryOf(i)' = "before" <=> listener'[i[1]] = Idle
    BY DEF DeliveryOf
  <2> QED
    BY <2>1, <2>2, <2>3, <2>4, OverStays
<1>2. Items' = Items
  BY DEF Items, Item
<1>3. Deliveries' = [i \in Item |-> IF i \in some THEN "over" ELSE Deliveries[i]]
  BY <1>1, ItemStates DEF Deliveries, Item
<1>4. \A i \in some : Deliveries[i] = "open"
  BY ItemStates
<1>5. some \in SUBSET Item
  OBVIOUS
<1> HIDE DEF some
<1>6. Promised!Close(some)
  BY <1>2, <1>3, <1>4 DEF Promised!Close, Promised!Item, Item
<1> QED
  BY <1>5, <1>6 DEF Promised!Next, Promised!Item, Item

\* Rows that stay what they are show the same items.
LEMMA SameItems ==
  ASSUME NEW i \in Item, row'[RoleNote(i)] = row[RoleNote(i)],
         row'[ManagerNote(i)] = row[ManagerNote(i)]
  PROVE  ItemOf(i)' = ItemOf(i)
BY DEF ItemOf, RowOf, RoleNote, ManagerNote

\* Where nothing is under way but what was, a delivery has come as far as before.
LEMMA SameDelivery ==
  ASSUME NEW i \in Item, listener'[i[1]] = listener[i[1]], UNCHANGED <<notify, queueVars>>,
         \A n \in {RoleNote(i), ManagerNote(i)} : Marking(n)' <=> Marking(n)
  PROVE  DeliveryOf(i)' = DeliveryOf(i)
<1>1. i[1] = EventOf(RoleNote(i)) /\ i[1] = EventOf(ManagerNote(i))
  BY ItemNotes
<1>2. Pending(i[1])' <=> Pending(i[1])
  BY DEF Pending, queueVars
<1>3. \A n \in {RoleNote(i), ManagerNote(i)} : Settled(n)' <=> Settled(n)
  BY <1>1, <1>2 DEF Settled
<1> QED
  BY <1>3 DEF DeliveryOf, RoleNote, ManagerNote

LEMMA Opening ==
  ASSUME TypeOK, NEW e \in Event, Emits(e)
  PROVE  Promised!Next
<1>1. /\ listener[e] = Idle /\ listener'[e].step = "invalidate"
      /\ \A f \in Event : f # e => listener'[f] = listener[f]
      /\ UNCHANGED <<row, notify, queueVars, updates, crashes>>
  BY EmitsTypes
<1>2. ASSUME NEW i \in Item, i[1] = e
      PROVE  DeliveryOf(i) = "before" /\ DeliveryOf(i)' = "open"
  <2>1. listener'[e] # Idle /\ Pending(e)'
    BY <1>1 DEF Idle, Pending
  <2>2. ~Settled(RoleNote(i))'
    BY <1>2, <2>1, ItemNotes DEF Settled
  <2> QED
    BY <1>1, <1>2, <2>1, <2>2 DEF DeliveryOf, RoleNote
<1>3. ASSUME NEW i \in Item, i[1] # e
      PROVE  DeliveryOf(i)' = DeliveryOf(i)
  <2>1. \A n \in Note : Marking(n)' <=> Marking(n)
    BY <1>1 DEF Marking
  <2> QED
    BY <1>1, <1>3, <2>1, ItemNotes, SameDelivery
<1>4. Items' = Items
  BY <1>1, SameItems DEF Items, Item
<1>5. \A i \in Item : i \in {e} \X User <=> i[1] = e
  BY DEF Item
<1>6. Deliveries' = [i \in Item |-> IF i \in {e} \X User THEN "open" ELSE Deliveries[i]]
  BY <1>2, <1>3, <1>5, ItemStates DEF Deliveries, Item
<1>7. \A i \in {e} \X User : Deliveries[i] = "before"
  BY <1>2, <1>5, ItemStates DEF Item
<1>8. Promised!Open(e)
  BY <1>4, <1>6, <1>7 DEF Promised!Open, Promised!Of, Promised!Item, Item
<1> QED
  BY <1>8 DEF Promised!Next

LEMMA Telling ==
  ASSUME TypeOK, Order, NEW e \in Event, SaveRows(e)
  PROVE  Promised!Next
<1>1. /\ listener[e].step = "recipients" /\ listener'[e].step = "add"
      /\ \A f \in Event : f # e => listener'[f] = listener[f]
  BY SaveRowsTypes
<1>2. /\ \A n \in Note : row'[n] = FreshRow \/ row'[n] = row[n]
      /\ \A n \in Note : EventOf(n) # e => row'[n] = row[n]
      /\ UNCHANGED <<notify, queueVars, updates>>
  BY DEF SaveRows
<1>3. NobodyTold(e)
  BY <1>1 DEF Order, RowsFirst
<1>4. ASSUME NEW i \in Item, i[1] = e
      PROVE  /\ ItemOf(i) = "none" /\ ItemOf(i)' \in {"none", "unread"}
             /\ DeliveryOf(i) = "open" /\ DeliveryOf(i)' = "open"
  <2>1. row[RoleNote(i)].st = "none" /\ row[ManagerNote(i)].st = "none"
    BY <1>3, <1>4, ItemNotes DEF NobodyTold
  <2>2. /\ row'[RoleNote(i)] \in {FreshRow, row[RoleNote(i)]}
        /\ row'[ManagerNote(i)] \in {FreshRow, row[ManagerNote(i)]}
    BY <1>2, ItemNotes
  <2>3. ItemOf(i) = "none" /\ ItemOf(i)' \in {"none", "unread"}
    BY <2>1, <2>2 DEF ItemOf, RowOf, FreshRow, RoleNote, ManagerNote
  <2>4. listener[e] # Idle /\ Pending(e) /\ listener'[e] # Idle /\ Pending(e)'
    BY <1>1 DEF Idle, Pending
  <2>5. ~Settled(RoleNote(i)) /\ ~Settled(RoleNote(i))'
    BY <1>4, <2>4, ItemNotes DEF Settled
  <2> QED
    BY <1>4, <2>3, <2>4, <2>5 DEF DeliveryOf, RoleNote
<1>5. ASSUME NEW i \in Item, i[1] # e
      PROVE  ItemOf(i)' = ItemOf(i) /\ DeliveryOf(i)' = DeliveryOf(i)
  <2>1. \A n \in Note : Marking(n)' <=> Marking(n)
    BY <1>2 DEF Marking
  <2>2. DeliveryOf(i)' = DeliveryOf(i)
    BY <1>1, <1>2, <1>5, <2>1, ItemNotes, SameDelivery
  <2> QED
    BY <1>2, <1>5, <2>2, ItemNotes, SameItems
<1> DEFINE told == {u \in User : ItemOf(<<e, u>>)' = "unread"}
<1>6. \A i \in Item : (i[1] = e <=> i \in {e} \X User) /\ i = <<i[1], i[2]>>
  BY DEF Item
<1>7. \A i \in Item : i \in {e} \X told <=> i[1] = e /\ ItemOf(i)' = "unread"
  BY <1>6 DEF Item
<1>8. Items' = [i \in Item |-> IF i \in {e} \X told THEN "unread" ELSE Items[i]]
  BY <1>4, <1>5, <1>7, ItemStates DEF Items, Item
<1>9. Deliveries' = Deliveries
  BY <1>4, <1>5 DEF Deliveries, Item
<1>10. \A i \in {e} \X User : Items[i] = "none" /\ Deliveries[i] = "open"
  BY <1>4, <1>6, ItemStates DEF Item
<1>11. told \in SUBSET User
  OBVIOUS
<1> HIDE DEF told
<1>12. Promised!Tell(e, told)
  BY <1>8, <1>9, <1>10 DEF Promised!Tell, Promised!Of, Promised!Item, Item
<1> QED
  BY <1>11, <1>12 DEF Promised!Next

\* The live row of a note is the one its user sees.
LEMMA LiveRow ==
  ASSUME TypeOK, Order, NEW n \in Note, row[n].st = "live"
  PROVE  RowOf(ItemFor(n)) = row[n]
<1> DEFINE i == ItemFor(n)
<1>1. i \in Item /\ n \in {RoleNote(i), ManagerNote(i)}
  BY ItemNotes
<1>2. row[RoleNote(i)].st = "none" \/ row[ManagerNote(i)].st = "none"
  BY <1>1 DEF Order, ToldOnce, Item, RoleNote, ManagerNote
<1> QED
  BY <1>1, <1>2 DEF RowOf, RoleNote, ManagerNote

LEMMA Executing ==
  ASSUME TypeOK, TypeOK', Order, Order', Next, \A e \in Event : ~Emits(e),
         NEW x \in updates, Execute(x)
  PROVE  Promised!Next
<1> DEFINE n == x.note
           i == ItemFor(n)
<1>1. n \in Note /\ x.read \in BOOLEAN /\ i \in Item
  BY ItemNotes DEF TypeOK, Update
<1>2. /\ row' = [m \in Note |-> IF m = n /\ row[m].st = "live"
                                THEN [row[m] EXCEPT !.read = x.read] ELSE row[m]]
      /\ updates' = updates \ {x} /\ UNCHANGED <<listener, notify, queueVars>>
  BY DEF Execute
<1> HIDE DEF n, i
<1>3. ASSUME NEW j \in Item, j # i
      PROVE  ItemOf(j)' = ItemOf(j) /\ DeliveryOf(j)' = DeliveryOf(j)
  <2>1. RoleNote(j) # n /\ ManagerNote(j) # n
    BY <1>1, <1>3, ItemNotes DEF i
  <2>2. row'[RoleNote(j)] = row[RoleNote(j)] /\ row'[ManagerNote(j)] = row[ManagerNote(j)]
    BY <1>2, <2>1, ItemNotes
  <2>3. \A m \in {RoleNote(j), ManagerNote(j)} : Marking(m)' <=> Marking(m)
    BY <1>2, <2>1 DEF Marking, n
  <2> QED
    BY <1>2, <2>2, <2>3, SameItems, SameDelivery
<1>4. CASE ItemOf(i)' = ItemOf(i)
  BY <1>3, <1>4, Closing
<1>5. CASE ItemOf(i)' # ItemOf(i)
  <2>1. row[n].st = "live" /\ row'[n] = [row[n] EXCEPT !.read = x.read]
    <3>1. row'[n] # row[n]
      BY <1>1, <1>2, <1>5, ItemNotes, SameItems
    <3> QED
      BY <1>1, <1>2, <3>1
  <2>2. row'[n].st = "live" /\ row'[n].read = x.read /\ row[n].read \in BOOLEAN
    BY <1>1, <2>1 DEF TypeOK, Row
  <2>3. RowOf(i) = row[n]
    BY <1>1, <2>1, LiveRow DEF i
  <2>4. RowOf(i)' = row'[n]
    <3>1. RoleNote(i) = n \/ (ManagerNote(i) = n /\ row'[RoleNote(i)] = row[RoleNote(i)])
      BY <1>1, <1>2, ItemNotes DEF i
    <3>2. row[RoleNote(i)].st = "none" \/ RoleNote(i) = n
      BY <1>1, <2>1, <3>1 DEF Order, ToldOnce, Item, RoleNote, ManagerNote
    <3> QED
      BY <2>2, <3>1, <3>2 DEF RowOf, RoleNote, ManagerNote
  <2>5. /\ ItemOf(i) = IF row[n].read THEN "read" ELSE "unread"
        /\ ItemOf(i)' = IF x.read THEN "read" ELSE "unread"
    BY <2>1, <2>2, <2>3, <2>4 DEF ItemOf
  <2>6. Items' = [Items EXCEPT ![i] = IF x.read THEN "read" ELSE "unread"]
    BY <1>1, <1>3, <2>5, ItemStates DEF Items, Item
  <2>7. CASE x.read
    <3>1. \A m \in Note : Marking(m)' <=> Marking(m)
      BY <1>2, <2>7 DEF Marking
    <3>2. DeliveryOf(i)' = DeliveryOf(i)
      BY <1>1, <1>2, <3>1, ItemNotes, SameDelivery
    <3>3. Deliveries' = Deliveries
      BY <1>3, <3>2 DEF Deliveries, Item
    <3>4. Items[i] = "unread"
      BY <1>1, <1>5, <2>5, <2>7, ItemStates
    <3>5. Promised!Read(i)
      BY <2>6, <2>7, <3>3, <3>4 DEF Promised!Read
    <3> QED
      BY <1>1, <3>5 DEF Promised!Next, Promised!Item, Item
  <2>8. CASE ~x.read
    <3>1. Marking(n)
      BY <2>8 DEF Marking, n
    <3>2. listener[EventOf(n)] # Idle
      BY <1>1, <2>1, NoteParts DEF Order, RowsFirst, NobodyTold, Idle
    <3>3. DeliveryOf(i) = "open" /\ DeliveryOf(i)' \in {"open", "over"}
      BY <1>1, <1>2, <3>1, <3>2, ItemNotes DEF i, DeliveryOf, Settled, RoleNote, ManagerNote
    <3>4. Deliveries' = [Deliveries EXCEPT ![i] = DeliveryOf(i)']
      BY <1>1, <1>3, ItemStates DEF Deliveries, Item
    <3>5. Items[i] = "read" /\ Deliveries[i] = "open"
      BY <1>1, <1>5, <2>5, <2>8, <3>3, ItemStates
    <3>6. Promised!Unmark(i)
      BY <2>6, <2>8, <3>3, <3>4, <3>5 DEF Promised!Unmark
    <3> QED
      BY <1>1, <3>6 DEF Promised!Next, Promised!Item, Item
  <2> QED
    BY <2>7, <2>8
<1> QED
  BY <1>4, <1>5

LEMMA Removing ==
  ASSUME TypeOK, Order, NEW u \in User, Remove(u)
  PROVE  Promised!Next
<1>1. PICK n \in Note : row[n].st = "live" /\ row' = [row EXCEPT ![n].st = "deleted"]
  BY DEF Remove, Listed
<1>2. UNCHANGED <<listener, notify, queueVars, updates>>
  BY DEF Remove
<1> DEFINE i == ItemFor(n)
<1>3. i \in Item
  BY ItemNotes
<1>4. row'[n].st = "deleted" /\ \A m \in Note : m # n => row'[m] = row[m]
  BY <1>1 DEF TypeOK, Row
<1> HIDE DEF i
<1>5. ASSUME NEW j \in Item
      PROVE  DeliveryOf(j)' = DeliveryOf(j) /\ (j # i => ItemOf(j)' = ItemOf(j))
  <2>1. \A m \in Note : Marking(m)' <=> Marking(m)
    BY <1>2 DEF Marking
  <2>2. DeliveryOf(j)' = DeliveryOf(j)
    BY <1>2, <2>1, ItemNotes, SameDelivery
  <2>3. j # i => RoleNote(j) # n /\ ManagerNote(j) # n
    BY ItemNotes DEF i
  <2> QED
    BY <1>4, <2>2, <2>3, ItemNotes, SameItems
<1>6. ItemOf(i) \in {"unread", "read"}
  BY <1>1, LiveRow DEF ItemOf, i
<1>7. ItemOf(i)' = "deleted"
  <2>1. RoleNote(i) = n \/ (ManagerNote(i) = n /\ row'[RoleNote(i)] = row[RoleNote(i)])
    BY <1>4, ItemNotes DEF i
  <2>2. row[RoleNote(i)].st = "none" \/ RoleNote(i) = n
    BY <1>1, <1>3, <2>1 DEF Order, ToldOnce, Item, RoleNote, ManagerNote
  <2> QED
    BY <1>4, <2>1, <2>2 DEF ItemOf, RowOf, RoleNote, ManagerNote
<1>8. Items' = [Items EXCEPT ![i] = "deleted"] /\ Deliveries' = Deliveries
  <2>1. \A j \in Item : Items'[j] = IF j = i THEN "deleted" ELSE Items[j]
    BY <1>3, <1>5, <1>7, ItemStates
  <2>2. \A j \in Item : Deliveries'[j] = Deliveries[j]
    BY <1>5, ItemStates
  <2>3. /\ Items = [j \in Item |-> Items[j]] /\ Items' = [j \in Item |-> Items'[j]]
        /\ Deliveries = [j \in Item |-> Deliveries[j]]
        /\ Deliveries' = [j \in Item |-> Deliveries'[j]]
    BY DEF Items, Deliveries, Item
  <2>4. Items' = [Items EXCEPT ![i] = "deleted"]
    BY <1>3, <2>1, <2>3
  <2>5. Deliveries' = Deliveries
    BY <2>2, <2>3
  <2> QED
    BY <2>4, <2>5
<1>9. Items[i] \in {"unread", "read"}
  BY <1>3, <1>6, ItemStates
<1>10. Promised!Delete(i)
  BY <1>8, <1>9 DEF Promised!Delete
<1> QED
  BY <1>3, <1>10 DEF Promised!Next, Promised!Item, Item

\* Every step is one that Inbox allows, or none that it sees.
LEMMA InboxStep ==
  ASSUME TypeOK, TypeOK', Order, Order', [Next]_vars
  PROVE  [Promised!Next]_(Promised!vars)
<1>1. CASE UNCHANGED vars
  <2>1. UNCHANGED <<row, listener, notify, queueVars, updates>>
    BY <1>1 DEF vars, queueVars
  <2>2. \A m \in Note : Marking(m)' <=> Marking(m)
    BY <2>1 DEF Marking
  <2>3. \A i \in Item : ItemOf(i)' = ItemOf(i) /\ DeliveryOf(i)' = DeliveryOf(i)
    BY <2>1, <2>2, ItemNotes, SameItems, SameDelivery
  <2> QED
    BY <2>3 DEF Promised!vars, Items, Deliveries, Item
<1>2. CASE Next /\ \E e \in Event : Emits(e)
  BY <1>2, Opening
<1>3. CASE Next /\ \A e \in Event : ~Emits(e)
  <2>1. ASSUME row' = row \/ \E n \in Note : Age(n)
        PROVE  Promised!Next
    <3>1. \A n \in Note : row'[n].st = row[n].st /\ row'[n].read = row[n].read
      BY <2>1 DEF Age, TypeOK, Row
    <3>2. \A i \in Item : ItemOf(i)' = ItemOf(i)
      BY <3>1, ItemNotes DEF ItemOf, RowOf, RoleNote, ManagerNote
    <3> QED
      BY <1>3, <3>2, Closing
  <2>2. ASSUME NEW e \in Event, Invalidate(e) \/ AddJob(e) \/ Queued(e)
        PROVE  row' = row
    BY <2>2, InvalidateTypes
       DEF AddJob, Queued, SendMail, Report, StartMarking, MarkAsDelivered, MarkingLost
  <2>3. Process \/ Complete \/ ApiCrash \/ QueueCrash => row' = row
    BY QueueCrashTypes DEF Process, Complete, ApiCrash
  <2>4. ASSUME NEW e \in Event, SaveRows(e) PROVE Promised!Next
    BY <2>4, Telling
  <2>5. CASE RowStep
    <3>1. ASSUME NEW x \in updates, Execute(x) PROVE Promised!Next
      BY <1>3, <3>1, Executing
    <3>2. ASSUME NEW u \in User, Remove(u) PROVE Promised!Next
      BY <3>2, Removing
    <3>3. ASSUME NEW u \in User, MarkRead(u) PROVE row' = row
      BY <3>3 DEF MarkRead
    <3> QED
      BY <2>1, <2>5, <3>1, <3>2, <3>3 DEF RowStep
  <2> QED
    BY <1>3, <2>1, <2>2, <2>3, <2>4, <2>5, NextSteps
<1> HIDE DEF Promised!Next
<1> QED
  BY <1>1, <1>2, <1>3

\* Listeners, rows, two queues, callbacks and statements, with the crashes of both processes,
\* together keep what Inbox promises of a single table: an event tells all its users at once
\* and each of them once, what was read comes back as unread only while its delivery is under
\* way, and what was deleted never comes back.
THEOREM InboxKept == Spec => InboxSpec
<1>1. Init => Promised!Init
  <2> SUFFICES ASSUME Init PROVE Promised!Init
    OBVIOUS
  <2>1. \A i \in Item : ItemOf(i) = "none" /\ DeliveryOf(i) = "before"
    <3> SUFFICES ASSUME NEW i \in Item PROVE ItemOf(i) = "none" /\ DeliveryOf(i) = "before"
      OBVIOUS
    <3>1. row[RoleNote(i)] = NoRow /\ row[ManagerNote(i)] = NoRow /\ listener[i[1]] = Idle
      BY ItemNotes DEF Init
    <3> QED
      BY <3>1 DEF ItemOf, RowOf, DeliveryOf, NoRow, RoleNote, ManagerNote
  <2> QED
    BY <2>1 DEF Promised!Init, Promised!Item, Items, Deliveries, Item
<1> QED
  BY <1>1, InboxStep, OrderAlways, PTL DEF Spec, InboxSpec, Promised!Spec
================================================================================
