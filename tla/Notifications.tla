---------------------------- MODULE Notifications ----------------------------
(***************************************************************************)
(* From an event of a service to the notification a user reads: listeners  *)
(* in the API process save a row per recipient and put a job on the Redis  *)
(* queue, the queue application mails the recipients and, ten seconds      *)
(* later, asks the API to mark the rows as delivered, while the users read *)
(* and delete them.  Both processes may crash; the rows and the queues     *)
(* survive.                                                                *)
(***************************************************************************)
EXTENDS Naturals, Sequences

CONSTANTS
  Event,       \* events emitted by the services, each emitted once
  User,        \* users of one organization
  Admins,      \* those with the role of the organization's owner
  Leasers,     \* those with the role of a lease manager
  NoEvent,     \* no job is active
  MaxStall,    \* BullMQ's maxStalledCount: how often a job cut off by a crash is run again
  MaxCrashes   \* bound: crashes of the API and of the queue application together

ASSUME NotificationsAssumption ==
  /\ Admins \subseteq User
  /\ Leasers \subseteq User
  /\ NoEvent \notin Event
  /\ MaxStall \in Nat
  /\ MaxCrashes \in Nat

VARIABLES
  listener,  \* per event, what its listener is doing
  row,       \* the table of notifications
  notify,    \* queue "notification": jobs waiting, named by their event
  active,    \* the job the worker of that queue holds
  mail,      \* per event, the un-awaited mail callback of the queue application
  mails,     \* history: how often an event's mail was handed to the mail server
  results,   \* queue "notification-results": jobs delayed or waiting
  marking,   \* the job the worker of that queue holds
  stalls,    \* per event and queue, how often the job was cut off by a crash
  updates,   \* UPDATE statements issued by the API and not yet executed
  crashes    \* crashes so far

vars == <<listener, row, notify, active, mail, mails, results, marking, stalls, updates, crashes>>

\* A row of the notifications table is named by its event, its user and the reason for
\* which that user is a recipient.
Note == Event \X User \X {"role", "manager"}
EventOf(n) == n[1]
Owner(n) == n[2]

\* isDelivered and the stamps are written and never read by anything: left out.
Row == [st : {"none", "live", "deleted"}, read : BOOLEAN, recent : BOOLEAN]
NoRow == [st |-> "none", read |-> FALSE, recent |-> FALSE]
FreshRow == [st |-> "live", read |-> FALSE, recent |-> TRUE]

Kind == {"property.created", "property.deleted", "property.updated", "lease.created", "tenant"}

\* The payload of an event: the manager is the user whose request emitted it, and told says
\* whether the listener is to notify anybody.
Listening == [step : {"invalidate", "recipients", "add", "done"},
              kind : Kind, manager : User, told : BOOLEAN]
Idle == [step |-> "idle"]

\* An update by the queue says delivered and not read; one by a user says read.
Update == [note : Note, read : BOOLEAN]
Queue == {"notification", "notification-results"}

TypeOK ==
  /\ listener \in [Event -> {Idle} \cup Listening]
  /\ row \in [Note -> Row]
  /\ notify \in Seq(Event)
  /\ active \in Event \cup {NoEvent}
  /\ mail \in [Event -> {"none", "sending", "sent"}]
  /\ mails \in [Event -> Nat]
  /\ results \in SUBSET Event
  /\ marking \in Event \cup {NoEvent}
  /\ stalls \in [Event \X Queue -> 0 .. MaxStall + 1]
  /\ updates \in SUBSET Update
  /\ crashes \in 0 .. MaxCrashes

Init ==
  /\ listener = [e \in Event |-> Idle]
  /\ row = [n \in Note |-> NoRow]
  /\ notify = <<>>
  /\ active = NoEvent
  /\ mail = [e \in Event |-> "none"]
  /\ mails = [e \in Event |-> 0]
  /\ results = {}
  /\ marking = NoEvent
  /\ stalls = [j \in Event \X Queue |-> 0]
  /\ updates = {}
  /\ crashes = 0

queueVars == <<active, mail, mails, results, marking, stalls>>

-----------------------------------------------------------------------------
(* The listeners of the API.                                               *)

Emit(e, k, m, told) ==
  /\ listener[e] = Idle
  /\ listener' = [listener EXCEPT
       ![e] = [step |-> "invalidate", kind |-> k, manager |-> m, told |-> told]]
  /\ UNCHANGED <<row, notify, queueVars, updates, crashes>>

\* A property is created, or changed in any other way; a new manager or owner of a
\* property is announced as its removal.
EmitCreated(e, m) == Emit(e, "property.created", m, TRUE)
EmitDeleted(e, m) == Emit(e, "property.deleted", m, TRUE)
EmitUpdated(e, m) == Emit(e, "property.updated", m, FALSE)

\* A lease may be created in silence.
EmitLeaseEvent(e, m) == \E loud \in BOOLEAN : Emit(e, "lease.created", m, loud)

EmitTenantEvent(e, m) == Emit(e, "tenant", m, FALSE)

\* The listener goes on to notify, if the event is one to tell of.
Invalidated(e) ==
  listener' = [listener EXCEPT ![e].step = IF listener[e].told THEN "recipients" ELSE "done"]

\* Without a registry of dashboard keys the listener throws, and nobody is told.
NotInvalidated(e) == listener' = [listener EXCEPT ![e].step = "done"]

InvalidateForProperty(e) ==
  /\ listener[e].step = "invalidate"
  /\ listener[e].kind \in {"property.created", "property.deleted", "property.updated"}
  /\ Invalidated(e) \/ NotInvalidated(e)
  /\ UNCHANGED <<row, notify, queueVars, updates, crashes>>

InvalidateForLease(e) ==
  /\ listener[e].step = "invalidate"
  /\ listener[e].kind = "lease.created"
  /\ Invalidated(e) \/ NotInvalidated(e)
  /\ UNCHANGED <<row, notify, queueVars, updates, crashes>>

InvalidateForTenant(e) ==
  /\ listener[e].step = "invalidate"
  /\ listener[e].kind = "tenant"
  /\ Invalidated(e) \/ NotInvalidated(e)
  /\ UNCHANGED <<row, notify, queueVars, updates, crashes>>

\* The owners of the organization, and for a creation the manager who is not one of them.
\* Mutant: without the search for the manager among the administrators.
EveryRecipient(k, m) ==
  {<<u, "role">> : u \in Admins} \cup (IF k = "property.created" THEN {<<m, "manager">>} ELSE {})

PropertyRecipients(k, m) ==
  {<<u, "role">> : u \in Admins}
    \cup (IF k = "property.created" /\ m \notin Admins THEN {<<m, "manager">>} ELSE {})

\* The same with the lease managers among those who have the role.
LeaseRecipients(m) ==
  {<<u, "role">> : u \in Admins \cup Leasers}
    \cup (IF m \notin Admins \cup Leasers THEN {<<m, "manager">>} ELSE {})

Recipients(k, m) == IF k = "lease.created" THEN LeaseRecipients(m) ELSE PropertyRecipients(k, m)

\* Saving the rows and adding the job are two awaits.
SaveRows(e) ==
  /\ listener[e].step = "recipients"
  /\ row' = [n \in Note |->
       IF EventOf(n) = e /\ <<n[2], n[3]>> \in Recipients(listener[e].kind, listener[e].manager)
       THEN FreshRow ELSE row[n]]
  /\ listener' = [listener EXCEPT ![e].step = "add"]
  /\ UNCHANGED <<notify, queueVars, updates, crashes>>

AddJob(e) ==
  /\ listener[e].step = "add"
  /\ notify' = Append(notify, e)
  /\ listener' = [listener EXCEPT ![e].step = "done"]
  /\ UNCHANGED <<row, queueVars, updates, crashes>>

-----------------------------------------------------------------------------
(* The worker of the queue "notification".                                 *)

\* process() starts the callbacks of the channels and waits for none of them.
Process ==
  /\ notify # <<>> /\ active = NoEvent
  /\ active' = Head(notify)
  /\ notify' = Tail(notify)
  /\ mail' = [mail EXCEPT ![Head(notify)] = "sending"]
  /\ UNCHANGED <<listener, row, mails, results, marking, stalls, updates, crashes>>

\* The job is over, and removed, as soon as process() returns.
Complete ==
  /\ active # NoEvent
  /\ active' = NoEvent
  /\ UNCHANGED <<listener, row, notify, mail, mails, results, marking, stalls, updates, crashes>>

SendMail(e) ==
  /\ mail[e] = "sending"
  /\ mail' = [mail EXCEPT ![e] = "sent"]
  /\ mails' = [mails EXCEPT ![e] = @ + 1]
  /\ UNCHANGED <<listener, row, notify, active, results, marking, stalls, updates, crashes>>

\* Mutant: the result is reported without waiting for the mail server.
ReportEarly(e) ==
  /\ mail[e] = "sending"
  /\ mail' = [mail EXCEPT ![e] = "none"]
  /\ results' = results \cup {e}
  /\ UNCHANGED <<listener, row, notify, active, mails, marking, stalls, updates, crashes>>

Report(e) ==
  /\ mail[e] = "sent"
  /\ mail' = [mail EXCEPT ![e] = "none"]
  /\ results' = results \cup {e}
  /\ UNCHANGED <<listener, row, notify, active, mails, marking, stalls, updates, crashes>>

-----------------------------------------------------------------------------
(* The worker of the queue "notification-results" and the API it calls.    *)

StartMarking(e) ==
  /\ e \in results /\ marking = NoEvent
  /\ marking' = e
  /\ results' = results \ {e}
  /\ UNCHANGED <<listener, row, notify, active, mail, mails, stalls, updates, crashes>>

\* The PATCH names every row of the event, whose ids the job carries; the API starts an
\* UPDATE for each and answers.
MarkAsDelivered(e) ==
  /\ marking = e
  /\ marking' = NoEvent
  /\ updates' = updates \cup {[note |-> n, read |-> FALSE] :
                               n \in {n \in Note : EventOf(n) = e /\ row[n].st # "none"}}
  /\ UNCHANGED <<listener, row, notify, active, mail, mails, results, stalls, crashes>>

\* The request fails, the error is swallowed and the job is over.
\* Mutant: the job is put back to be tried again, without counting.
MarkingRetried(e) ==
  /\ marking = e
  /\ marking' = NoEvent
  /\ results' = results \cup {e}
  /\ UNCHANGED <<listener, row, notify, active, mail, mails, stalls, updates, crashes>>

MarkingLost(e) ==
  /\ marking = e
  /\ marking' = NoEvent
  /\ UNCHANGED <<listener, row, notify, active, mail, mails, results, stalls, updates, crashes>>

\* Mutant: the statement names the event's rows instead of one of them.
ExecuteForAll(x) ==
  /\ x \in updates
  /\ updates' = updates \ {x}
  /\ row' = [n \in Note |->
       IF EventOf(n) = EventOf(x.note) /\ row[n].st = "live"
       THEN [row[n] EXCEPT !.read = x.read] ELSE row[n]]
  /\ UNCHANGED <<listener, notify, queueVars, crashes>>

\* Statements run on connections of a pool, in any order.
Execute(x) ==
  /\ x \in updates
  /\ updates' = updates \ {x}
  /\ row' = [n \in Note |->
       IF n = x.note /\ row[n].st = "live"
       THEN [row[n] EXCEPT !.read = x.read] ELSE row[n]]
  /\ UNCHANGED <<listener, notify, queueVars, crashes>>

-----------------------------------------------------------------------------
(* The users.                                                              *)

\* Own notifications of the last fourteen days; asking for the read ones changes nothing,
\* that condition binds to the announcements.
Listed(u) == {n \in Note : Owner(n) = u /\ row[n].st = "live" /\ row[n].recent}

Unread(u) == {n \in Note : /\ Owner(n) = u /\ row[n].st = "live" /\ row[n].recent
                           /\ ~ row[n].read}

MarkRead(u) ==
  /\ \E n \in Listed(u) : updates' = updates \cup {[note |-> n, read |-> TRUE]}
  /\ UNCHANGED <<listener, row, notify, queueVars, crashes>>

Remove(u) ==
  /\ \E n \in Listed(u) : row' = [row EXCEPT ![n].st = "deleted"]
  /\ UNCHANGED <<listener, notify, queueVars, updates, crashes>>

\* Two weeks pass over a row.
Age(n) ==
  /\ row[n].st = "live" /\ row[n].recent
  /\ row' = [row EXCEPT ![n].recent = FALSE]
  /\ UNCHANGED <<listener, notify, queueVars, updates, crashes>>

-----------------------------------------------------------------------------
(* Crashes.                                                                *)

\* Listeners under way and statements not yet executed are gone.
ApiCrash ==
  /\ crashes < MaxCrashes
  /\ crashes' = crashes + 1
  /\ listener' = [e \in Event |-> IF listener[e] = Idle THEN Idle
                                  ELSE [listener[e] EXCEPT !.step = "done"]]
  /\ updates' = {}
  /\ UNCHANGED <<row, notify, queueVars>>

\* Whether the job j, active when the worker died, is run again.
RunAgain(j) == j[1] # NoEvent /\ stalls[j] < MaxStall

\* A mail the server refuses rejects a promise nobody holds, which ends the process too.
\* Callbacks under way are gone; the active jobs are found stalled.
\* Mutant: a stalled job is always run again, and so is the nothing an idle worker holds.
QueueCrashForever ==
  /\ crashes < MaxCrashes
  /\ crashes' = crashes + 1
  /\ mail' = [e \in Event |-> "none"]
  /\ notify' = IF active # NoEvent THEN <<active>> \o notify ELSE notify
  /\ active' = NoEvent
  /\ results' = results \cup {marking}
  /\ marking' = NoEvent
  /\ UNCHANGED <<listener, row, mails, stalls, updates>>

QueueCrash ==
  LET n == <<active, "notification">>
      r == <<marking, "notification-results">>
  IN  /\ crashes < MaxCrashes
      /\ crashes' = crashes + 1
      /\ mail' = [e \in Event |-> "none"]
      /\ notify' = IF RunAgain(n) THEN <<active>> \o notify ELSE notify
      /\ active' = NoEvent
      /\ results' = IF RunAgain(r) THEN results \cup {marking} ELSE results
      /\ marking' = NoEvent
      /\ stalls' = [j \in Event \X Queue |->
           IF j \in {n, r} /\ stalls[j] <= MaxStall THEN stalls[j] + 1 ELSE stalls[j]]
      /\ UNCHANGED <<listener, row, mails, updates>>

-----------------------------------------------------------------------------
Invalidate(e) == InvalidateForProperty(e) \/ InvalidateForLease(e) \/ InvalidateForTenant(e)

Listener(e) ==
  \/ \E m \in User : \/ EmitCreated(e, m) \/ EmitDeleted(e, m) \/ EmitUpdated(e, m)
                      \/ EmitLeaseEvent(e, m) \/ EmitTenantEvent(e, m)
  \/ Invalidate(e)
  \/ SaveRows(e)
  \/ AddJob(e)

Queued(e) ==
  \/ SendMail(e)
  \/ Report(e)
  \/ StartMarking(e)
  \/ MarkAsDelivered(e)
  \/ MarkingLost(e)

Next ==
  \/ \E e \in Event : Listener(e) \/ Queued(e)
  \/ Process
  \/ Complete
  \/ \E x \in updates : Execute(x)
  \/ \E u \in User : MarkRead(u) \/ Remove(u)
  \/ \E n \in Note : Age(n)
  \/ ApiCrash
  \/ QueueCrash

Spec == Init /\ [][Next]_vars

\* Both processes are restarted and keep running what they have begun.
Fairness ==
  /\ \A e \in Event : /\ WF_vars(Invalidate(e)) /\ WF_vars(SaveRows(e)) /\ WF_vars(AddJob(e))
                      /\ WF_vars(SendMail(e)) /\ WF_vars(Report(e))
                      /\ WF_vars(MarkAsDelivered(e) \/ MarkingLost(e))
                      /\ SF_vars(StartMarking(e))
  /\ WF_vars(Process) /\ WF_vars(Complete)
  /\ \A x \in Update : WF_vars(Execute(x))

FairSpec == Spec /\ Fairness

-----------------------------------------------------------------------------
(* Properties.                                                             *)

\* A user is told of an event once, whatever makes the user a recipient
\* (isManagerAdmin in getNotificationRecipients).
ToldOnce ==
  \A e \in Event, u \in User :
    row[<<e, u, "role">>].st = "none" \/ row[<<e, u, "manager">>].st = "none"

Mailed(e) == mails[e] > 0

\* The jobs and statements that will mark a notification as delivered.
Reporting(e) == e \in results \/ marking = e \/ mail[e] = "sent"
Marking(n) == \E x \in updates : x.note = n /\ ~ x.read

\* Rows are saved before the mail that tells of them is sent, and the mail is sent before
\* anything sets out to mark them as delivered: handlers, job, mail callback, delayed job,
\* request and statement never overtake each other.
DeliveryInOrder ==
  /\ \A e \in Event : Reporting(e) => Mailed(e)
  /\ \A n \in Note : Marking(n) => Mailed(EventOf(n)) /\ row[n].st # "none"
  /\ \A e \in Event : Mailed(e) => listener[e] # Idle /\ listener[e].step = "done"
  /\ \A e \in Event, u \in Admins : Mailed(e) => row[<<e, u, "role">>].st # "none"

\* However often the queue application dies, an event is not mailed more often than the
\* queue runs a stalled job (attempts of 'notify' are not set).
MailedBoundedly == \A e \in Event : mails[e] <= 1 + MaxStall

\* Something under way may still mark n as delivered, and so as unread.
Pending(e) ==
  \/ listener[e] # Idle /\ listener[e].step # "done"
  \/ e \in {notify[i] : i \in 1 .. Len(notify)}
  \/ active = e
  \/ mail[e] # "none"
  \/ e \in results
  \/ marking = e

Settled(n) == listener[EventOf(n)] # Idle /\ ~ Pending(EventOf(n)) /\ ~ Marking(n)

SettledStays ==
  \A n \in Note : Settled(n) => /\ Settled(n)'
                              /\ \A u \in User : n \in Unread(u)' => n \in Unread(u)

\* The delivered mark also says unread, and so undoes what a user has read meanwhile.  That
\* is the only thing that does: once its delivery is over, a notification stays settled and
\* never comes back into a user's count of unread ones.
ReadSticks == [][SettledStays]_vars

\* What a user sees of an event, and how far the delivery to that user has come.
RowOf(i) ==
  IF row[<<i[1], i[2], "role">>].st # "none" THEN row[<<i[1], i[2], "role">>]
  ELSE row[<<i[1], i[2], "manager">>]

ItemOf(i) ==
  IF RowOf(i).st # "live" THEN RowOf(i).st ELSE IF RowOf(i).read THEN "read" ELSE "unread"

DeliveryOf(i) ==
  CASE listener[i[1]] = Idle -> "before"
    [] OTHER -> IF Settled(<<i[1], i[2], "role">>) /\ Settled(<<i[1], i[2], "manager">>)
                THEN "over" ELSE "open"

Items == [i \in Event \X User |-> ItemOf(i)]
Deliveries == [i \in Event \X User |-> DeliveryOf(i)]

Promised == INSTANCE Inbox WITH item <- Items, delivery <- Deliveries

\* Rows, queues, callbacks and statements together keep what Inbox promises.
InboxSpec == Promised!Spec

\* Every event that was emitted is over at some time: no listener, job, callback or
\* statement is left of it.
EventsSettle == \A e \in Event : listener[e] # Idle ~> ~ Pending(e)
=============================================================================
