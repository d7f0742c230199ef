# The klubiq API in TLA+

Formal models of the klubiq API (a NestJS monorepo: the dashboard API, a queue
application and shared libraries over PostgreSQL, Redis, Firebase and an email
service), checked with TLC and, where stated, proved with TLAPS.

## 1. The system

| Component | State it keeps | Operations | What is hard | What makes it correct | Module |
|---|---|---|---|---|---|
| Lease book (`lease`, `transactions`, `libs/schedulers`) | tables `lease`, `unit`, `transaction` | create, PATCH, terminate, renew, make-payment, removal of a property, unit status; at midnight: lease statuses, unit statuses, Unpaid bills | read-then-write over awaits without locks, two statements per payment, a job of several steps that a restart cuts off | bills are bounded, no payment nobody made, no lease of a removed unit, terminated stays terminated, statuses settle, due rent is billed | `LeaseBook` |
| Onboarding (`libs/auth`) | Firebase accounts; tables `user_profile`, `organization`, `organization_user`, `tenant_invitation`; the field `currentUser` | sign-up of tenants, owners and the invited, hand-written compensation, acceptance of invitations | two stores without a common transaction, lost answers, crashes, undo steps that fail, one field shared by all requests | one sign-up per address, no profile without account, no silent orphan, nobody loses an organization | `Onboarding`, `EmailReservation` |
| Sessions and permission checks (`libs/auth`, `access-control.service.ts`) | tokens in cookies, revocation in Firebase, `currentUser`, a Redis entry per member, the memo of a DataLoader | sign-in, second factor, refresh, sign-out, own details, permission check | the shared field is read after awaits; a memo nobody clears | who signs out is out, who asks is told of itself; permissions settle | `Session` |
| Organization cache (`util.ts`, `event-listeners`, cached reads) | Redis entries with a TTL, a registry of list keys per resource | get-or-fill, register, delete, set through, handlers that delete what a registry names | fills race with invalidations, handlers nobody waits for, registries that are missing or read under another key | no answer is older than its TTL allows; when writes stop everything becomes current | `OrgCache` |
| Cached lists (`cache.service.ts`, permissions, features, roles, property metadata, plans) | ten tables and their lists in Redis | list, get, create, update, delete, reset | lists are edited in place by read-modify-write, each service in its own way | a list differs from its table only after an overlap or a failure, and settles | `CachedLists` |
| Properties, units and limits (`properties`, `organization-subscription.service.ts`) | tables `property`, `unit`, `organization_subscriptions`, `organization_counter` | create, add units, archive, delete, subscribe, upgrade, downgrade, nightly recount | counters refreshed at midnight, un-awaited checks, overlapping transactions | limits hold up to what midnight has not counted; no unit without property except by the one race | `Portfolio` |
| Updates of a property (`PUT /properties/:uuid`) | property row, units, images, row locks, connection pool | one transaction around several others | nested transactions on other connections, parts that fail, tags written back whole | success means all of it; tags are only lost unseen; every request is answered or the pool is starved | `PropertyUpdate` |
| Tenants (`tenants`, `leases-tenant.repositiory.ts`) | `organization_tenants`, `leases_tenants`, cached pages | onboarding, remove from lease, remove from organization, add to lease | statements without a transaction, pages nobody invalidates | no lease keeps somebody from outside, removed stays removed, pages settle | `Tenancy` |
| Notifications (`libs/notifications`, `apps/klubiq-queue`) | table `notifications`, two BullMQ queues | emit, save rows, queue, mail, report, mark delivered, read, delete | two processes, un-awaited callbacks, delayed marks, stalled jobs | told once, in order, mails bounded, what is read stays read, events settle | `Notifications` |

The parts meet in the database, in the cache and through events: a controller
calls its service, the service writes through a repository (TypeORM, READ
COMMITTED), deletes or re-reads its own cache entry and emits an event without
waiting for the handler; the handler deletes cached lists and queues a
notification; the queue application sends it and reports back over HTTP. The
midnight cron runs inside the dashboard process.

`PROJECT.json` lists every component, the hazards of the code line by line with
the properties that watch them, and for each definition the lines it stands for.

## 2. The modules

A handler is asynchronous, so an action is the code from one `await` to the next
and a handler's local variables are part of the state. A database transaction of
which others see nothing is one step at its commit, with the reads it was based
on in a step before when they can be stale. A call to another system may fail,
and where the code treats it differently, take effect and lose its answer.

* **LeaseBook** - `lease`, `unit`, `unpaid`, `paidOn` are the tables, `work[r]` is
  what the handler of request `r` read and has still to do, `job[i]` where the
  midnight job of instance `i` is. `CheckOverlap`/`InsertLease` are the two halves
  of `createLease`; `Preload`/`WriteRow` those of every update (`UpdateLease`,
  `TerminateLease` and `RenewLease` differ in the patch); `ReadForPayment`,
  `SavePayment`, `StampLease` those of `recordTransaction`. Rows are written back
  *whole*, as the ORM does, which is where most races come from. The two database
  functions the jobs call are not in the repository and are modelled from their
  use (`StatusByDate`, `RentDue`). Dates are days `1..LastDay`, with a short month
  so that the comparison of days of the month in `createLease` matters.
* **Onboarding** - `saga[r]` is the step a sign-up is at; `account` is Firebase,
  `profile`, `org`, `member`, `invitation` the committed tables, `currentUser` the
  shared field. Every remote call may fail, or succeed and lose its answer; `Crash`
  stops a sign-up anywhere. `inviteUser` is the kind "invited": its invitation takes
  an id that is not there yet, so its rows are always refused (`RefuseInvited`) and
  its account must be undone. `cause` is a history variable that records which of
  the faults outside the code's control hit a sign-up, so that the invariants can
  name exactly which of them excuse an inconsistency.
* **EmailReservation** - the abstract promise of a sign-up: an address is claimed by
  one sign-up at a time and only the holder of the claim is enrolled. `Onboarding`
  implements it with `claim <- account`, `enrolled <- profile`.
* **Session** - `jar[u]` is what the browser of `u` holds, `epoch[u]` counts the
  revocations Firebase has seen, `task[r]` is a request between the step that sets
  the shared field (`Enter`) and the one that reads it (`Revoke`,
  `GetLoginUserDetails`). `perm` and `memo` are the two layers a permission is
  answered from, `granted` the table behind them. The landlords' and the tenants' portal
  (`Checked`) give an unverified address no tokens; the other clients the API lets in, the
  administrators' portal among them, do not look at it. Who has a second factor
  (`enrolled`) is Firebase's business, which asks for a verified address. `raced` is
  history: the field was set for somebody else while this request counted on it.
* **OrgCache** - `entry` and `registry` with the ticks they have left, `task[t]` for
  reads and writes under way, `handler[h]` for event handlers, `version` for the
  database and `age` (a history variable) for how long ago a version was superseded.
  `SilentWrite` is a write that invalidates nothing (`PATCH /organization`, for one);
  `WriteThrough` is the merge into cached preferences.
* **CachedLists** - one `Style` per service says how it reads, edits and deletes;
  a run takes each style in turn. `list` and `own` are the cached list and the
  entries per row, `table` the database, `work[q]` a request between its read of the
  list and its store. The types of properties read the row they change through the list
  (`Found`) and delete without reading; their siblings read the table. `blamed` is history: requests overlapped, or one failed
  half-way, since the list was loaded.
* **Portfolio** - `prop` and `home` are the tables of properties and units, `plan` the
  active subscriptions, `counted` the organization's counter. `LetCreate` is the awaited
  check against the limit and `CreateProperty` the transaction after it. The model is the
  production setting: under a `NODE_ENV` of `local`, `test`, `dev`, `development` or
  `staging` the guard of the limit lets everything pass, and `LimitHolds` says nothing of
  such an installation. `FindForUnits`
  and `AddUnits`, `FindForDeletion`, `DeleteUnits` and `DropProperty` are the two
  transactions that may overlap; `Recount` is midnight. The check of units is not
  awaited: it refuses nobody, and fails with `Crash` when the organization has no
  counter (`pending`). `known` and `astray` are history.
* **PropertyUpdate** - `stage[u]` and `part[u][p]` are one update and its units and
  images, `lock` who has locked the row of the property and that of its address,
  `FreeConnection` what is left of the pool. The rows are locked from the UPDATE on, and
  `save()` issues one only if the entity differs from the row it reads again (`Compare`), so
  that updates which change nothing but units, or the address of the property, do not wait
  for its row. `StartParts` runs the parts inside the callback of the outer transaction, on
  other connections.
* **Tenancy** - `member` and `link` are the tables; `FindMember`, `DeleteLinks`,
  `DeleteMembership` are the statements of a removal, `Enter` the onboarding of a
  tenant, `Miss`/`RunQuery`/`Set` the filling of a page. `AddTenantToLease` links
  nobody, and ends the process when the address is unknown, because the promise that
  rejects is not awaited.
* **Notifications** - `listener[e]` is the handler of an event in the API, `notify` and
  `results` the two queues with the job each worker holds (`active`, `marking`),
  `mail[e]` the callback nobody awaits, `updates` the UPDATE statements issued and not
  executed. `ApiCrash` and `QueueCrash` lose what a process had in memory; BullMQ runs
  a job that stalled again, `MaxStall` times (its documented default is one).
* **Inbox** - the abstract promise of the notifications: an event tells all its users at
  once and each of them once; what a user has read may come back as unread while the
  delivery of the event is under way, never afterwards; what was deleted is gone.
  `Notifications` implements it: `item` is what the one row of a user and an event shows
  (`ItemOf`), `delivery` how far listeners, jobs, callbacks and statements are (`DeliveryOf`).
* **MC...** - values, and symmetry where it is sound (no liveness), for TLC.
* **...Proofs** - the theorems and their proofs. `CacheProofs` is about OrgCache and
  CachedLists; the latter prefixes the names both would share with CL.

Operators whose comment starts with "Mutant" are bugs the code might have had; each
property is known to fail when one of them takes the place of the definition it
precedes.

## 3. What is checked

| Run (configuration) | Shows | Bounds |
|---|---|---|
| `lease_book_races` (`LeaseBookRaces`) | `BillsBounded`, `LastPaidBacked`, `UnitStillThere` hold with two handlers in flight, two instances' jobs and a crash | 1 unit, 2 leases, 3 requests, 3 days |
| `lease_book_serial` (`LeaseBookSerial`) | one request at a time, interleaved with the job and a crash: `NoLeaseWithoutUnit`, `TerminatedIsFinal`, and under fairness `UnitsSettle`, `DueLeasesBilled` | 1 unit, 2 leases, 3 requests, 1 job, 3 days |
| `lease_book_overlap` (`LeaseBookOverlap`) | *violated*: `NoOverlap`, even one request at a time | |
| `onboarding` (`Onboarding`) | `OneSignUpPerEmail`, `ProfileHasAccount`, `NoSilentOrphan`, `OwnerKeepsOrg`, and that `EmailReservation` is implemented (`ReservationSpec`) | 3 sign-ups, 2 addresses, 1 organization, 1 acceptance |
| `onboarding_org` (`OnboardingOrg`) | *violated*: `TenantInOwnOrg` | 2 sign-ups, 2 organizations |
| `session` (`Session`) | `OwnUnlessRaced`; under fairness `PermissionsSettle` | 2 users (one of a portal; one with a client of its own, who may have a second factor), 2 requests, TTL 1, 1 revocation, 1 change |
| `org_cache` (`OrgCache`) | `BoundedStaleness`; under fairness `CacheSettles` | a list, an item and preferences, 2 requests, 1 handler, 1 write, TTL 1, registry 2, latency 1 |
| `cached_lists` (`CachedLists`) | `ExactUnlessBlamed`; under fairness `ListsSettle` | the 10 services, 2 requests, 2 rows, 2 values, `ListTTL` 1, 2 writes |
| `portfolio` (`Portfolio`) | `LimitHolds`, `HomelessBlamed` | 2 properties, 1 unit, plans for 1 and for 2, 2 subscriptions, 2 requests |
| `property_update` (`PropertyUpdate`) | `OkMeansWhole`, `TagsLostUnseen`; under fairness `AnsweredOrStarved` | 2 updates, 2 units, a pool of 2, 3 bodies |
| `tenancy` (`Tenancy`) | `NoLeaseOutsideOrg`, `RemovedStaysRemoved`; under fairness `PagesSettle` | 1 tenant, 1 lease, 2 requests, TTL 1 and 2, 1 change, 1 crash |
| `notifications` (`Notifications`) | `ToldOnce`, `DeliveryInOrder`, `MailedBoundedly`, and that `Inbox` is implemented (`InboxSpec`); under fairness `EventsSettle` | 1 event, an administrator and a manager, 1 rerun, 2 crashes |

Every passing run but `lease_book_serial` also checks its module's `TypeOK` (`CLTypeOK`). The two
violated properties are what the repository says of the program; `PROJECT.json`
quotes it under "findings":

1. *Leases overlap.* The check compares the start of the new lease only, so a lease
   that begins before another and reaches into it is accepted.
2. *A tenant lands in another organization.* `this.currentUser` is shared by all
   requests and read again after awaits.

Modelling showed more, for which the properties name the exact excuse or which the
repository makes no statement about:

* A payment never settles the Unpaid row of its lease, so a lease that was billed
  once is not billed again; renewing a lease sets its end to the present; the status
  at creation compares days of the month.
* Once handlers overlap, a payment or PATCH under way writes its old row back and a
  terminated lease returns (`TerminatedIsFinal` and `NoLeaseWithoutUnit` hold for one
  request at a time only).
* An accepted invitation is found again (`acceptedAt: null` is no condition to the
  ORM), although the error at `auth.service.ts:443` speaks of an invitation already
  accepted; the invitation mail leaves before the commit (`auth.service.ts:1379`).
* The undo of an owner's sign-up whose last call fails closes the organization of
  whichever profile the database returns first (`UndoBlind`; `OwnerKeepsOrg` names it).
* `inviteUser` never succeeds: the invitation takes its user's id before there is one.
* The registry of list keys is read under one key and written under another, so only
  the list registered last is invalidated; updates of an organization leave its cached
  copy, and no removal of a tenant touches the cached pages. Only the TTL repairs these
  (`BoundedStaleness`, `CacheSettles`, `PagesSettle`).
* A changed permission is seen only after a restart, because nothing clears the memo
  behind Redis (`PermissionsSettle` is conditional on `MemoHonest`).
* Reading one plan or one feature permission replaces the cached list and renews it, so
  these two lists need not settle (`ListsSettle` leaves them out).
* `subscribeToPlan` leaves two active subscriptions and a request may meet either; a
  downgrade is checked against the limits of the current plan; units are not limited
  at all. Properties pass the limit by as many as are made before the next recount.
* As many updates of properties with units as the pool has connections starve each
  other for ever (`Starved` in `AnsweredOrStarved`).
* The delivered mark says unread as well: it undoes a reading that came before it
  (`Inbox` therefore has `Unmark`, but only while the delivery is open).

**Bounds.** Two leases on one unit, two handlers in flight and two jobs are the
smallest numbers at which every pair of steps meets; three requests allow a create
and two conflicting uses of what it made; three days are a first due date, a second
one and an end. Three sign-ups with two addresses allow two that compete and one
bystander whom a misdirected undo can hit. In the caches a TTL of one tick already
lets an entry expire before, during and after a fill, a registry that outlives its
entries shows both orders of expiry, and one write after any fill makes it stale; two
rows and two values let two edits of a list lose one. Two properties against a limit
of one pass it, and two plans let it move under a request. Two updates exhaust a pool
of two. One event is enough for everything a notification's own steps can do to each
other; two crashes cut off the first run and the rerun. Two users are one whose
request is raced and one who races. What the theorems of section 4 cover does not
depend on these bounds. `MaxInFlight`, `MaxCrashes`, `LastDay`, `Latency`,
`MaxVersion`, `MaxWrites`, `MaxToggles`, `MaxRevokes`, `MaxChanges` and the finite sets
of requests bound the runs only; at `LastDay` the calendar stands still so that
liveness can be stated.

**Deadlock** is checked for LeaseBook, OrgCache, Session and Portfolio, where
something can always happen. The others may stop: all sign-ups have ended, all
updates are answered or starved, all events are over, or nothing is left to expire
and the bounds on writes are used up.

**Fairness**, always about what the running processes do by themselves; nothing makes
a request arrive, a call fail or a process crash.

* LeaseBook: weak fairness of `Midnight` (the cron), of each handler's continuation
  and of each job's next step (the event loop resumes what was awaited).
* OrgCache, CachedLists, Tenancy: weak fairness of the clock and of the next step of
  each request and handler under way. Session: the clock only.
* Notifications: weak fairness of the listeners, workers, callbacks and issued
  statements, both processes being restarted. Strong fairness only of `StartMarking`:
  the one worker of the results queue serves jobs in turn, and is busy in between.
* PropertyUpdate: strong fairness of each update's next step, because the pool and the
  row locks serve those who wait in turn; who waits is enabled only now and then.

## 4. What is proved

Each component below has a module of proofs. The theorems hold for all values of the
constants that satisfy the component's own `ASSUME` (finitely many instances or
properties where they are counted, well-formed terms, patches and bodies, marker values
apart from real ones, positive times to live) and are not about the bounds of the runs.
Each module also proves its type invariant as `Typing` (`CLTyping` for CachedLists). Every
invariant, action property and refinement that a passing run checks is a theorem below, and some
theorems say more than the runs do.

**LeaseBookProofs**

* `BillsBoundedAlways` - `BillsBounded` is not inductive: an instance that has selected
  a lease is going to add an Unpaid row to it. `BillsInv` counts those instances too:
  `unpaid[l] + |Inserting(l)| <= |Job|`. The `NOT EXISTS` of the selection makes
  `unpaid[l]` zero whenever an instance joins `Inserting(l)`; an insertion moves one from
  the second term to the first; everything else lowers one of them.
* `UnitStillThereAlways` - inductive given the types: only the insertion names a unit,
  behind the foreign key, and only the removal takes a unit away, with its rows.
* `LastPaidBackedAlways` - handlers write back rows they read earlier, so `PaidInv` says
  of every row *in flight* what the property says of the rows in the table, and further
  that a lease some handler holds has its id handed out, that a lease about to be created
  was never paid, and that no payment lies in the future.
* `NoLeaseWithoutUnitAlone`, `TerminatedIsFinalAlone` - both assume `MaxInFlight = 1`,
  without which TLC refutes them. `Serial` says that at most one request is under way
  (`Alone`), that the lease it carries is still there (`HoldsLease`), and that every lease
  has its unit (`Housed`); `KnowsFinal` adds that a handler holding a terminated lease
  knows it to be terminated, for which the midnight job must leave such leases alone.

* `StampedButForCrashes` - one request at a time again: `recordTransaction` saves a payment
  and stamps the lease in two statements, so a crash between them leaves a lease that does
  not show its last payment. `Behind` is the set of such leases without a request about to
  stamp them; it has no more members than there were crashes. Inductive with `CarriesLast`:
  the row in flight knows the last payment of its lease, which the midnight job, the only
  one to write in between, leaves alone.

**OnboardingProofs**

* `OneSignUpPerEmailAlways`, `ProfileHasAccountAlways`, `NoSilentOrphanAlways`,
  `OwnerKeepsOrgAlways` follow from one invariant, `SagaInv`: for each step of a sign-up,
  what Firebase and the database hold of it. A sign-up past `createUser` has the account
  of its address (`AccountHeld`), so two with one address cannot both be there; a row
  belongs to a sign-up past COMMIT (`ProfileOwner`); while a transaction is open the
  address has no committed row (`RowsFree`); when the account is about to be deleted the
  row is gone or COMMIT lost its answer (`RowsUndone`).
* `ReservationRefined` - `Spec => ReservationSpec`: every step is one of
  `EmailReservation` or a stutter. `AccountHeld` is what makes a COMMIT enrol the holder
  of the claim and nobody else.

**CacheProofs**

* `BoundedStalenessAlways` - the time since an entry's version was superseded and the
  time the entry has left both change with the clock, so `AgeInv` bounds their *sum* by
  `TTL + Latency`; a fill under way holds nothing older than its own wait, and a current
  version has no age.
* `Exactness` (`ExactUnlessBlamed`) - for any services of the assumed kind at once: what a
  service does is read from `style`, not from a list of the ten. `Undisturbed` says of a
  list nobody is to blame for that at most one request is under way (`Alone`), that the
  list shows the table when there is none, and otherwise what the request has done to both
  so far (`Served`): before its edit the entry is such that the edit makes of it what the
  request leaves in the table (`Owed`). The assumption `s.get = "own" => s.rowFirst` is
  what the code has: roles, the only service that caches single rows, delete the row of the
  table before they edit the list.

**SessionProofs**

* `OwnUnlessRacedAlways` - while a request nobody raced waits, the field still names its
  user (`FieldKept`), and the token it came with is no younger than the last revocation
  (`TokensOld`), so that its own revocation outdates it. The types say that the two portals hold no tokens
  of an unverified address, and need that a second factor takes a verified one and that the
  field is set whenever a request counts on it.
* `OutUntilSignIn` - an action property: tokens that a revocation has made old never count
  again, and only `SignIn` or `VerifyMfaOtp` gets the user back in. No client may hold
  tokens younger than the last revocation (`TokensPast`), or the next one would make them
  current. With `OwnUnlessRaced`: who signed out, and was not raced, is out until then.

**PortfolioProofs**

* `LimitHoldsAlways` - a creation let in before the recount arrives after it, so
  `KnownAtLimit` also counts who was let in: at the limit, `Existing \cup LetIn \subseteq
  known`. Nobody is let in at the limit, and every step that moves the limit or the
  counter takes `known` along.
* `HomelessBlamedAlways` - `Blamed` adds that a property has one maker and exists only
  afterwards (`OneMaker`, `NewIsNew`), and that a unit a deletion does not know of came
  while it ran (`LateIsAstray`).

**PropertyUpdateProofs**

* `OkMeansWholeAlways` - `Applied` follows an update to its answer: what it answers for
  is committed, a unit that is done was written by somebody, and nothing is done before
  the parts start.
* `TagsLostUnseenAlways` - an action property: only the commit of an update changes the
  tags, and it writes what it had read and its own.
* `AccountedAlways` - `Pooled`: the connections that updates and their parts hold are at
  most those of the pool. `Locked`: the row is locked by the update that has changed it,
  exactly while its parts run, and the address from the write to it until the end of the
  transaction.
* `OnlyStarvedAlways` - while an update is unanswered, one is `Ready`, or the pool is `Starved`.
  This is the safety behind `AnsweredOrStarved`: `Ready(u)` says in terms of the state that
  the next step of `u` is enabled, so that requests, parts, lock and pool have no other
  standstill than the one the property names. It follows from the types and `Accounted`:
  whoever waits for the address waits for an update that is at the row or at its parts,
  whoever waits for the row waits for parts, and parts wait only for the pool.

**TenancyProofs**

* `NoLeaseOutsideOrgAlways`, `RemovedStaysRemovedAlways` - a tenant is in one organization
  (`OneOrg`); between the two statements of a removal the tenant has no link and none can
  appear (`Removing`), because an onboarding only takes persons it enters; hence links
  never outlive the membership (`Linked`) and the removed are gone (`Gone`).

**NotificationsProofs**

* `ToldOnceAlways`, `DeliveryInOrderAlways` - `Order`: how far a listener is says which
  rows are there (`RowsFirst`); a sent mail, a reporting job or a statement says that the
  mail is out (`MailFirst`).
* `MailedBoundedlyAlways` - `Runs`: a job is in one place only and is run as often as it
  was cut off, and once more if a worker holds it.
* `ReadSticksAlways` - an action property: once nothing of an event is pending, nothing
  of it can come back, and only pending statements unmark.
* `InboxKept` - `Spec => InboxSpec`: an emission opens the delivery of all its users
  (`Opening`), the one INSERT tells them (`Telling`), a statement reads or unmarks
  (`Executing`), and whatever else happens closes deliveries or is a stutter (`Closing`).
  `ToldOnce` makes the row of a user and an event unique, `Order` says that there is none
  before the delivery, and `ReadSticks` that a delivery that is over stays over.

What stays with TLC: liveness (`UnitsSettle`, `DueLeasesBilled`, `PermissionsSettle`,
`CacheSettles`, `ListsSettle`, `AnsweredOrStarved`, `PagesSettle`, `EventsSettle`), which
needs ENABLED and is out of the prover's reach. Of `AnsweredOrStarved` the safety part is
proved (`OnlyStarvedAlways`).

## 5. What is not modelled, and why

* **Partial payments**: `recordPartialTransaction` adds a row that no modelled rule reads.
* **Password reset, enrolment in MFA, administrators of the domain, web-push
  subscriptions, settings**: single calls or single rows whose effect no other component
  reads.
* **Code nobody calls**: `mapTenantToLease`, `getAllLeasesTenant`, `saveDraftProperty`,
  `deleteLease` of the lease service, updates of organization settings, the service of
  permissions per role and feature (provided by no module), web-push delivery,
  `getOverDueRentDetails` and the due dates it would loop over.
* **Code that always fails**: `assignPropertyToManagerOrOwner` (it names a column that
  does not exist), `deleteUnits` and `deleteUnit` (they filter by one). They change
  nothing. `acceptLandlordInvitation` never finds a row.
* **Removal of stored files**: nothing in the repository makes an image archived or
  empty, so the nightly clean-up never has a row.
* **Aggregate SQL** (dashboard metrics, revenue reports) is read-only and is represented
  by the version of the data it saw; **guards, CSRF, filters and interceptors** are
  stateless and run before the modelled handlers; **mail templates and vendors' wire
  formats** are reduced to a call that succeeds, fails, or loses its answer; **entities
  and migrations** enter as the keys and cascades the models use as guards.
