-------------------------------- MODULE Tenancy --------------------------------
(***************************************************************************)
(* The tenants of an organization and of its leases: the membership and    *)
(* the link to the lease that onboarding writes, their removal in separate *)
(* statements, and the cached pages that list them.  Adding tenants to an  *)
(* existing lease is modelled with what it does: it links nobody, and for  *)
(* an unknown address the promise it forgets ends the process.             *)
(***************************************************************************)
EXTENDS Naturals

CONSTANTS
  Tenant,
  Lease,
  Org,
  OrgOf,      \* the organization of each lease
  Request,    \* requests that may overlap
  TTL,        \* ticks a page of tenants is cached, 15 minutes
  ViewTTL,    \* ticks the list for forms is cached, an hour
  MaxToggles, \* bound on changes of a lease's status and of profiles
  MaxCrashes  \* bound on ends of the process

ASSUME TenancyAssumption ==
  /\ OrgOf \in [Lease -> Org]
  /\ TTL \in Nat \ {0} /\ ViewTTL \in Nat \ {0}
  /\ MaxToggles \in Nat /\ MaxCrashes \in Nat

VARIABLES
  member,    \* organization_tenants: the organization a tenant was entered in
  link,      \* leases_tenants
  entered,   \* tenants that exist
  active,    \* leases whose status is Active
  profile,   \* the profile of each tenant: how often it was changed
  cache,     \* pages in the cache
  task,      \* what each request is doing
  removed,   \* tenants whose removal from their organization was answered with success
  spent      \* status changes and crashes, bounded

db == <<member, link, entered, active, profile>>
vars == <<member, link, entered, active, profile, cache, task, removed, spent>>

-----------------------------------------------------------------------------
(* Pages.  A page of an organization lists its tenants with their active   *)
(* leases; the page of a lease and the list for forms name tenants.        *)

Key == ({"page", "view"} \X Org) \cup ({"lease"} \X Lease)
Life(k) == IF k[1] = "view" THEN ViewTTL ELSE TTL

LeasesOf(t) == {l \in Lease : <<t, l>> \in link}
Person(t) == <<t, profile[t]>>

\* organizationTenants
OrgPage(o) ==
  {[who |-> Person(t), leases |-> LeasesOf(t) \cap active] :
     t \in {u \in Tenant : <<u, o>> \in member}}

\* findByLeaseId
LeasePage(l) == {[who |-> Person(t), leases |-> {l}] : t \in {u \in Tenant : <<u, l>> \in link}}

\* getOrganizationTenants of the public service
ViewList(o) == {[who |-> Person(t), leases |-> {}] : t \in {u \in Tenant : <<u, o>> \in member}}

Query(k) ==
  CASE k[1] = "page" -> OrgPage(k[2])
    [] k[1] = "lease" -> LeasePage(k[2])
    [] k[1] = "view" -> ViewList(k[2])

\* getTenantByProfileUuid, what a tenant sees of its own, and getTenantById, what managers see
\* of the tenant: never cached.
TenantInfo(t) == [active |-> LeasesOf(t) \cap active, inactive |-> LeasesOf(t) \ active]
Details(t) == TenantInfo(t)

Shown == SUBSET [who : Tenant \X (0..MaxToggles), leases : SUBSET Lease]
Nothing == [rows |-> {}, left |-> 0]

Idle == [at |-> "idle"]
Task == {Idle} \cup [at : {"links", "membership"}, tenant : Tenant, org : Org]
               \cup [at : {"query", "set"}, key : Key, rows : Shown]

TypeOK ==
  /\ member \in SUBSET (Tenant \X Org)
  /\ link \in SUBSET (Tenant \X Lease)
  /\ entered \in SUBSET Tenant
  /\ active \in SUBSET Lease
  /\ profile \in [Tenant -> 0..MaxToggles]
  /\ cache \in [Key -> [rows : Shown, left : Nat]]
  /\ \A k \in Key : /\ cache[k].left <= Life(k)
                    /\ cache[k].left = 0 => cache[k].rows = {}
  /\ task \in [Request -> Task]
  /\ removed \in SUBSET entered
  /\ spent \in [toggles : 0..MaxToggles, crashes : 0..MaxCrashes]

Init ==
  /\ member = {} /\ link = {} /\ entered = {} /\ removed = {}
  /\ active = Lease
  /\ profile = [t \in Tenant |-> 0]
  /\ cache = [k \in Key |-> Nothing]
  /\ task = [q \in Request |-> Idle]
  /\ spent = [toggles |-> 0, crashes |-> 0]

Go(q, t) == task' = [task EXCEPT ![q] = t]

-----------------------------------------------------------------------------
(* What writes.                                                            *)

\* createTenantPersona, one transaction: the tenant, with a lease or without, becomes a
\* member.  The handler of the event it emits deletes the page, unless the registry is gone.
Enter(t, o, ls) ==
  /\ t \notin entered
  /\ entered' = entered \cup {t}
  /\ member' = member \cup {<<t, o>>}
  /\ link' = link \cup {<<t, l>> : l \in ls}
  /\ \E page \in {cache[<<"page", o>>], Nothing} : cache' = [cache EXCEPT ![<<"page", o>>] = page]
  /\ UNCHANGED <<active, profile, task, removed, spent>>

\* DELETE /tenants/:tenantId/remove looks for the membership in the user's organization, ...
FindMember(q, t, o) ==
  /\ task[q].at = "idle" /\ <<t, o>> \in member
  /\ Go(q, [at |-> "links", tenant |-> t, org |-> o])
  /\ UNCHANGED <<member, link, entered, active, profile, cache, removed, spent>>

\* Mutant: the membership goes first.
MembershipFirst(q) ==
  /\ task[q].at = "links"
  /\ member' = member \ {<<task[q].tenant, task[q].org>>}
  /\ Go(q, [task[q] EXCEPT !.at = "membership"])
  /\ UNCHANGED <<link, entered, active, profile, cache, removed, spent>>

\* ... deletes the tenant's links, whatever the organization of the lease, ...
DeleteLinks(q) ==
  /\ task[q].at = "links"
  /\ link' = {x \in link : x[1] # task[q].tenant}
  /\ Go(q, [task[q] EXCEPT !.at = "membership"])
  /\ UNCHANGED <<member, entered, active, profile, cache, removed, spent>>

\* Mutant: a removal answers before its last statement.
AnswerEarly(q) ==
  /\ task[q].at = "membership"
  /\ removed' = removed \cup {task[q].tenant}
  /\ Go(q, Idle)
  /\ UNCHANGED <<member, link, entered, active, profile, cache, spent>>

\* ... and then the membership, with no transaction around the two.  No page is deleted.
DeleteMembership(q) ==
  /\ task[q].at = "membership"
  /\ member' = member \ {<<task[q].tenant, task[q].org>>}
  /\ removed' = removed \cup {task[q].tenant}
  /\ Go(q, Idle)
  /\ UNCHANGED <<link, entered, active, profile, cache, spent>>

\* DELETE /tenants/:tenantId/:leaseId/remove does not look at the lease it names.
RemoveFromLease(t) ==
  /\ t \in entered
  /\ link' = {x \in link : x[1] # t}
  /\ UNCHANGED <<member, entered, active, profile, cache, task, removed, spent>>

\* The lease book changes the status of a lease.
ChangeStatus(l) ==
  /\ spent.toggles < MaxToggles
  /\ active' = IF l \in active THEN active \ {l} ELSE active \cup {l}
  /\ spent' = [spent EXCEPT !.toggles = @ + 1]
  /\ UNCHANGED <<member, link, entered, profile, cache, task, removed>>

\* PUT /tenants/:profileId, of whoever's profile; no page is deleted.
UpdateProfile(t) ==
  /\ t \in entered /\ spent.toggles < MaxToggles
  /\ profile' = [profile EXCEPT ![t] = @ + 1]
  /\ spent' = [spent EXCEPT !.toggles = @ + 1]
  /\ UNCHANGED <<member, link, entered, active, cache, task, removed>>

\* POST /leases/:id/addTenants and the new tenants of POST /leases: forEach does not wait
\* for its callbacks, so an empty list is saved and linked.  The profile of an address nobody
\* has is saved without one, which the database refuses to a promise nobody holds: the
\* process ends, and with it every request.
AddTenantToLease ==
  /\ spent.crashes < MaxCrashes
  /\ spent' = [spent EXCEPT !.crashes = @ + 1]
  /\ task' = [q \in Request |-> Idle]
  /\ UNCHANGED <<member, link, entered, active, profile, cache, removed>>

\* A statement or a call fails: the request is answered with an error.
Fail(q) ==
  /\ task[q].at # "idle"
  /\ Go(q, Idle)
  /\ UNCHANGED <<member, link, entered, active, profile, cache, removed, spent>>

-----------------------------------------------------------------------------
(* Reads through the cache.                                                *)

Miss(q, k) ==
  /\ task[q].at = "idle" /\ cache[k].left = 0
  /\ Go(q, [at |-> "query", key |-> k, rows |-> {}])
  /\ UNCHANGED <<member, link, entered, active, profile, cache, removed, spent>>

RunQuery(q) ==
  /\ task[q].at = "query"
  /\ Go(q, [task[q] EXCEPT !.at = "set", !.rows = Query(task[q].key)])
  /\ UNCHANGED <<member, link, entered, active, profile, cache, removed, spent>>

Set(q) ==
  /\ task[q].at = "set"
  /\ cache' = [cache EXCEPT ![task[q].key] = [rows |-> task[q].rows, left |-> Life(task[q].key)]]
  /\ Go(q, Idle)
  /\ UNCHANGED <<member, link, entered, active, profile, removed, spent>>

\* Mutant: the page of a lease is kept.
AgedButLease(k) ==
  IF cache[k].left <= 1 /\ k[1] # "lease" THEN Nothing
  ELSE [cache[k] EXCEPT !.left = IF @ <= 1 THEN @ ELSE @ - 1]

\* Mutant: a page keeps its rows when it expires.
AgedRows(k) == [cache[k] EXCEPT !.left = IF @ = 0 THEN 0 ELSE @ - 1]

Aged(k) == IF cache[k].left <= 1 THEN Nothing ELSE [cache[k] EXCEPT !.left = @ - 1]

Tick ==
  /\ cache' = [k \in Key |-> Aged(k)]
  /\ UNCHANGED <<member, link, entered, active, profile, task, removed, spent>>

-----------------------------------------------------------------------------

GoesOn(q) == DeleteLinks(q) \/ DeleteMembership(q) \/ RunQuery(q) \/ Set(q)

Next ==
  \/ \E t \in Tenant, o \in Org :
       Enter(t, o, {}) \/ \E l \in Lease : OrgOf[l] = o /\ Enter(t, o, {l})
  \/ \E q \in Request :
       \/ GoesOn(q) \/ Fail(q)
       \/ \E t \in Tenant, o \in Org : FindMember(q, t, o)
       \/ \E k \in Key : Miss(q, k)
  \/ \E t \in Tenant : RemoveFromLease(t) \/ UpdateProfile(t)
  \/ \E l \in Lease : ChangeStatus(l)
  \/ AddTenantToLease \/ Tick

Spec == Init /\ [][Next]_vars

\* Started requests go on, and time passes.
FairSpec == Spec /\ WF_vars(Tick) /\ \A q \in Request : WF_vars(GoesOn(q))

-----------------------------------------------------------------------------
(* What is expected of them.                                               *)

\* Wherever a removal is cut off, by a failure or by the end of the process, no lease keeps
\* a tenant who is not a member of its organization.
NoLeaseOutsideOrg == \A x \in link : <<x[1], OrgOf[x[2]]>> \in member

\* A tenant whose removal was answered with success stays removed: no membership, no lease
\* in the details, although onboardings, other removals and crashes go on around it.
RemovedStaysRemoved ==
  \A t \in removed :
    /\ \A o \in Org : <<t, o>> \notin member
    /\ Details(t) = [active |-> {}, inactive |-> {}]

\* Once memberships, links, statuses and profiles no longer change, every page comes to
\* show them and stays so, the pages no removal deletes included.
PagesSettle == \A k \in Key : <>[](cache[k].left > 0 => cache[k].rows = Query(k))
================================================================================
