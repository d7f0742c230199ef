----------------------------- MODULE TenancyProofs -----------------------------
(* Proofs about Tenancy, for any tenants, leases, organizations, requests,  *)
(* times to live and bounds.                                                *)
EXTENDS Tenancy, TLAPS

-----------------------------------------------------------------------------
(* Types.  Two counts and one set are only kept in their types by more     *)
(* than the types: profiles are changed while changes are left, and who is  *)
(* removed was entered before.                                              *)

ProfilesCounted == \A t \in Tenant : profile[t] <= spent.toggles

MembersEntered ==
  /\ \A x \in member : x[1] \in entered
  /\ \A q \in Request : task[q].at \in {"links", "membership"} => task[q].tenant \in entered

Types == TypeOK /\ ProfilesCounted /\ MembersEntered

Removal == [at : {"links", "membership"}, tenant : Tenant, org : Org]
Lookup == [at : {"query", "set"}, key : Key, rows : Shown]

\* What a request is doing, told by where it is.
LEMMA TaskType ==
  ASSUME TypeOK, NEW q \in Request
  PROVE  /\ task[q].at \in {"links", "membership"} => task[q] \in Removal
         /\ task[q].at \in {"query", "set"} => task[q] \in Lookup
BY DEF TypeOK, Task, Idle, Removal, Lookup

\* A request that goes on to a task of the right type leaves the types right.
LEMMA GoType ==
  ASSUME TypeOK, NEW q \in Request, NEW x \in Task, Go(q, x)
  PROVE  task' \in [Request -> Task]
BY DEF TypeOK, Go

\* Every page lists persons with sets of leases.
LEMMA QueryType ==
  ASSUME TypeOK, NEW k \in Key
  PROVE  Query(k) \in Shown
<1> DEFINE Line == [who : Tenant \X (0..MaxToggles), leases : SUBSET Lease]
<1>1. \A t \in Tenant : \A ls \in SUBSET Lease : [who |-> Person(t), leases |-> ls] \in Line
  BY DEF TypeOK, Person
<1>2. \A t \in Tenant : LeasesOf(t) \cap active \in SUBSET Lease
  BY DEF LeasesOf
<1> HIDE DEF Line
<1>3. ASSUME NEW o PROVE OrgPage(o) \subseteq Line
  <2>1. ASSUME NEW x \in OrgPage(o) PROVE x \in Line
    <3>1. PICK t \in Tenant : x = [who |-> Person(t), leases |-> LeasesOf(t) \cap active]
      BY <2>1 DEF OrgPage
    <3> QED
      BY <1>1, <1>2, <3>1
  <2> QED
    BY <2>1
<1>4. ASSUME NEW o PROVE ViewList(o) \subseteq Line
  <2>1. ASSUME NEW x \in ViewList(o) PROVE x \in Line
    <3>1. PICK t \in Tenant : x = [who |-> Person(t), leases |-> {}]
      BY <2>1 DEF ViewList
    <3> QED
      BY <1>1, <3>1
  <2> QED
    BY <2>1
<1>5. ASSUME NEW l \in Lease PROVE LeasePage(l) \subseteq Line
  <2>1. ASSUME NEW x \in LeasePage(l) PROVE x \in Line
    <3>1. PICK t \in Tenant : x = [who |-> Person(t), leases |-> {l}]
      BY <2>1 DEF LeasePage
    <3>2. {l} \in SUBSET Lease
      OBVIOUS
    <3> QED
      BY <1>1, <3>1, <3>2
  <2> QED
    BY <2>1
<1>6. k[1] = "page" \/ k[1] = "view" \/ (k[1] = "lease" /\ k[2] \in Lease)
  BY DEF Key
<1> QED
  BY <1>3, <1>4, <1>5, <1>6 DEF Query, Shown, Line

\* An entry that is set or grows older stays an entry.
LEMMA EntryType ==
  ASSUME TypeOK, NEW k \in Key
  PROVE  /\ Life(k) \in Nat \ {0}
         /\ Nothing \in [rows : Shown, left : Nat] /\ Nothing.left = 0 /\ Nothing.rows = {}
         /\ Aged(k) \in [rows : Shown, left : Nat]
         /\ Aged(k).left <= Life(k)
         /\ Aged(k).left = 0 => Aged(k).rows = {}
<1>1. Life(k) \in Nat \ {0}
  BY TenancyAssumption DEF Life
<1>2. Nothing \in [rows : Shown, left : Nat] /\ Nothing.left = 0 /\ Nothing.rows = {}
  BY DEF Nothing, Shown
<1>3. cache[k] \in [rows : Shown, left : Nat] /\ cache[k].left <= Life(k)
  BY DEF TypeOK
<1>4. CASE cache[k].left <= 1
  BY <1>1, <1>2, <1>4 DEF Aged
<1>5. CASE ~ (cache[k].left <= 1)
  <2>1. /\ Aged(k) = [cache[k] EXCEPT !.left = @ - 1]
        /\ Aged(k) \in [rows : Shown, left : Nat]
        /\ Aged(k).left = cache[k].left - 1
    BY <1>3, <1>5 DEF Aged
  <2> QED
    BY <1>1, <1>2, <1>3, <1>5, <2>1
<1> QED
  BY <1>4, <1>5

LEMMA InitTypes == Init => Types
<1> SUFFICES ASSUME Init PROVE Types
  OBVIOUS
<1>1. Nothing \in [rows : Shown, left : Nat] /\ Nothing.left = 0 /\ Nothing.rows = {}
  BY DEF Nothing, Shown
<1>2. \A k \in Key : Life(k) \in Nat
  BY TenancyAssumption DEF Life
<1>3. Idle \in Task /\ Idle.at = "idle"
  BY DEF Task, Idle
<1> QED
  BY <1>1, <1>2, <1>3, TenancyAssumption DEF Init, Types, TypeOK, ProfilesCounted, MembersEntered

\* A request goes on, and neither a table nor a page changes.
LEMMA GoTypes ==
  ASSUME Types, NEW q \in Request, NEW x \in Task, Go(q, x),
         x.at \in {"links", "membership"} => x.tenant \in entered,
         UNCHANGED <<member, entered, active, profile, spent>>,
         link' \in SUBSET (Tenant \X Lease), cache' = cache, removed' \in SUBSET entered
  PROVE  Types'
<1>1. task' \in [Request -> Task]
  BY GoType DEF Types
<1>2. TypeOK'
  BY <1>1 DEF Types, TypeOK, Life
<1>3. MembersEntered'
  BY DEF Types, TypeOK, MembersEntered, Go
<1> QED
  BY <1>2, <1>3 DEF Types, ProfilesCounted

LEMMA EnterTypes ==
  ASSUME Types, NEW t \in Tenant, NEW o \in Org, NEW ls \in SUBSET Lease, Enter(t, o, ls)
  PROVE  Types'
<1>1. <<"page", o>> \in Key
  BY DEF Key
<1>2. PICK page \in {cache[<<"page", o>>], Nothing} :
        cache' = [cache EXCEPT ![<<"page", o>>] = page]
  BY DEF Enter
<1>3. /\ cache' \in [Key -> [rows : Shown, left : Nat]]
      /\ \A k \in Key : cache'[k].left <= Life(k) /\ (cache'[k].left = 0 => cache'[k].rows = {})
  <2>1. /\ page \in [rows : Shown, left : Nat] /\ page.left <= Life(<<"page", o>>)
        /\ page.left = 0 => page.rows = {}
    BY <1>1, <1>2, EntryType DEF Types, TypeOK
  <2> QED
    BY <1>1, <1>2, <2>1 DEF Types, TypeOK
<1>4. member' \in SUBSET (Tenant \X Org) /\ link' \in SUBSET (Tenant \X Lease)
  BY DEF Enter, Types, TypeOK
<1>5. TypeOK'
  BY <1>3, <1>4 DEF Enter, Types, TypeOK, Life
<1> QED
  BY <1>5 DEF Enter, Types, ProfilesCounted, MembersEntered

LEMMA GoesOnTypes ==
  ASSUME Types, NEW q \in Request, GoesOn(q) \/ Fail(q)
  PROVE  Types'
<1> USE DEF Types
<1>1. Idle \in Task /\ Idle.at = "idle"
  BY DEF Task, Idle
<1>2. CASE DeleteLinks(q)
  <2>1. /\ [task[q] EXCEPT !.at = "membership"] \in Task
        /\ [task[q] EXCEPT !.at = "membership"].tenant = task[q].tenant
        /\ task[q].tenant \in entered
    BY <1>2, TaskType DEF DeleteLinks, Removal, Task, MembersEntered
  <2>2. link' \in SUBSET (Tenant \X Lease)
    BY <1>2 DEF DeleteLinks, TypeOK
  <2> QED
    BY <1>2, <2>1, <2>2, GoTypes DEF DeleteLinks, TypeOK
<1>3. CASE DeleteMembership(q)
  <2>1. task[q].tenant \in entered
    BY <1>3 DEF DeleteMembership, MembersEntered
  <2>2. task' \in [Request -> Task]
    BY <1>1, <1>3, GoType DEF DeleteMembership
  <2>3. TypeOK'
    BY <1>3, <2>1, <2>2 DEF DeleteMembership, TypeOK, Life
  <2> QED
    BY <1>1, <1>3, <2>3 DEF DeleteMembership, TypeOK, ProfilesCounted, MembersEntered, Go
<1>4. CASE RunQuery(q)
  <2>1. task[q] \in Lookup
    BY <1>4, TaskType DEF RunQuery
  <2>2. Query(task[q].key) \in Shown
    BY <2>1, QueryType DEF Lookup
  <2>3. /\ [task[q] EXCEPT !.at = "set", !.rows = Query(task[q].key)] \in Task
        /\ [task[q] EXCEPT !.at = "set", !.rows = Query(task[q].key)].at = "set"
    BY <2>1, <2>2 DEF Lookup, Task
  <2> QED
    BY <1>4, <2>3, GoTypes DEF RunQuery, TypeOK
<1>5. CASE Set(q)
  <2>1. task[q] \in Lookup
    BY <1>5, TaskType DEF Set
  <2>2. /\ cache' \in [Key -> [rows : Shown, left : Nat]]
        /\ \A k \in Key : cache'[k].left <= Life(k) /\ (cache'[k].left = 0 => cache'[k].rows = {})
    BY <1>5, <2>1, EntryType DEF Set, TypeOK, Lookup
  <2>3. task' \in [Request -> Task]
    BY <1>1, <1>5, GoType DEF Set
  <2>4. TypeOK'
    BY <1>5, <2>2, <2>3 DEF Set, TypeOK, Life
  <2> QED
    BY <1>1, <1>5, <2>4 DEF Set, TypeOK, ProfilesCounted, MembersEntered, Go
<1>6. CASE Fail(q)
  BY <1>1, <1>6, GoTypes DEF Fail, TypeOK
<1> QED
  BY <1>2, <1>3, <1>4, <1>5, <1>6 DEF GoesOn

LEMMA StepTypes == Types /\ [Next]_vars => Types'
<1> SUFFICES ASSUME Types, [Next]_vars PROVE Types'
  OBVIOUS
<1>1. CASE UNCHANGED vars
  BY <1>1 DEF vars, Types, TypeOK, ProfilesCounted, MembersEntered, Life
<1>2. ASSUME NEW q \in Request, NEW t \in Tenant, NEW o \in Org, FindMember(q, t, o)
      PROVE  Types'
  <2>1. [at |-> "links", tenant |-> t, org |-> o] \in Task
    BY DEF Task
  <2>2. t \in entered
    BY <1>2 DEF FindMember, Types, MembersEntered
  <2> QED
    BY <1>2, <2>1, <2>2, GoTypes DEF FindMember, Types, TypeOK
<1>3. ASSUME NEW q \in Request, NEW k \in Key, Miss(q, k)
      PROVE  Types'
  <2>1. [at |-> "query", key |-> k, rows |-> {}] \in Task
    BY DEF Task, Shown
  <2> QED
    BY <1>3, <2>1, GoTypes DEF Miss, Types, TypeOK
<1>4. ASSUME NEW t \in Tenant, RemoveFromLease(t)
      PROVE  Types'
  BY <1>4 DEF RemoveFromLease, Types, TypeOK, ProfilesCounted, MembersEntered, Life
<1>5. ASSUME NEW t \in Tenant, UpdateProfile(t)
      PROVE  Types'
  <2>1. /\ profile[t] \in Nat /\ profile[t] + 1 <= spent.toggles + 1
        /\ spent.toggles \in Nat /\ spent.toggles + 1 <= MaxToggles
    BY <1>5, TenancyAssumption DEF UpdateProfile, Types, TypeOK, ProfilesCounted
  <2>2. /\ profile' \in [Tenant -> 0..MaxToggles]
        /\ spent' \in [toggles : 0..MaxToggles, crashes : 0..MaxCrashes]
        /\ spent'.toggles = spent.toggles + 1
    BY <1>5, <2>1, TenancyAssumption DEF UpdateProfile, Types, TypeOK
  <2>3. ProfilesCounted'
    BY <1>5, <2>1, <2>2 DEF UpdateProfile, Types, TypeOK, ProfilesCounted
  <2> QED
    BY <1>5, <2>2, <2>3 DEF UpdateProfile, Types, TypeOK, MembersEntered, Life
<1>6. ASSUME NEW l \in Lease, ChangeStatus(l)
      PROVE  Types'
  <2>1. active' \in SUBSET Lease
    BY <1>6 DEF ChangeStatus, Types, TypeOK
  <2>2. /\ spent' \in [toggles : 0..MaxToggles, crashes : 0..MaxCrashes]
        /\ spent'.toggles = spent.toggles + 1
    BY <1>6, TenancyAssumption DEF ChangeStatus, Types, TypeOK
  <2>3. ProfilesCounted'
    BY <1>6, <2>2 DEF ChangeStatus, Types, TypeOK, ProfilesCounted
  <2> QED
    BY <1>6, <2>1, <2>2, <2>3 DEF ChangeStatus, Types, TypeOK, MembersEntered, Life
<1>7. CASE AddTenantToLease
  <2>1. Idle \in Task /\ Idle.at = "idle"
    BY DEF Task, Idle
  <2>2. /\ spent' \in [toggles : 0..MaxToggles, crashes : 0..MaxCrashes]
        /\ spent'.toggles = spent.toggles
    BY <1>7, TenancyAssumption DEF AddTenantToLease, Types, TypeOK
  <2> QED
    BY <1>7, <2>1, <2>2 DEF AddTenantToLease, Types, TypeOK, ProfilesCounted, MembersEntered, Life
<1>8. CASE Tick
  BY <1>8, EntryType DEF Tick, Types, TypeOK, ProfilesCounted, MembersEntered, Life
<1> QED
  BY <1>1, <1>2, <1>3, <1>4, <1>5, <1>6, <1>7, <1>8, EnterTypes, GoesOnTypes DEF Next

\* The tables, pages and requests stay well formed.
THEOREM Typing == Spec => []TypeOK
<1>1. Spec => []Types
  BY InitTypes, StepTypes, PTL DEF Spec
<1>2. Types => TypeOK
  BY DEF Types
<1> QED
  BY <1>1, <1>2, PTL
-----------------------------------------------------------------------------
(* Tenants and their leases.  A tenant is entered once, in one organization *)
(* and for leases of it; so whoever removes the tenant deletes from that    *)
(* organization, and once the links are deleted no new ones appear.         *)

OneOrg == \A x, y \in member : x[1] = y[1] => x[2] = y[2]

\* What a removal has found and done so far is still so.
Removing ==
  \A q \in Request :
    task[q].at \in {"links", "membership"} =>
      /\ \A x \in member : x[1] = task[q].tenant => x[2] = task[q].org
      /\ task[q].at = "membership" => \A x \in link : x[1] # task[q].tenant

Linked == \A x \in link : x[1] \in entered /\ <<x[1], OrgOf[x[2]]>> \in member

Gone == \A t \in removed : (\A x \in member : x[1] # t) /\ (\A x \in link : x[1] # t)

Tenants == OneOrg /\ Removing /\ Linked /\ Gone

\* The tables stay as they are and a request goes on.
LEMMA GoTenants ==
  ASSUME Types, Tenants, NEW q \in Request, NEW x, Go(q, x),
         UNCHANGED <<member, link, entered, removed>>,
         x.at \notin {"links", "membership"}
  PROVE  Tenants'
BY DEF Tenants, OneOrg, Removing, Linked, Gone, Types, TypeOK, Go

LEMMA EnterTenants ==
  ASSUME Types, Tenants, NEW t \in Tenant, NEW o \in Org, NEW ls \in SUBSET Lease,
         \A l \in ls : OrgOf[l] = o, Enter(t, o, ls)
  PROVE  Tenants'
<1>1. /\ t \notin entered /\ entered' = entered \cup {t}
      /\ member' = member \cup {<<t, o>>} /\ link' = link \cup {<<t, l>> : l \in ls}
      /\ task' = task /\ removed' = removed /\ removed \subseteq entered
  BY DEF Enter, Types, TypeOK
<1>2. /\ \A x \in member : x[1] # t
      /\ \A x \in link : x[1] # t
      /\ \A q \in Request : task[q].at \in {"links", "membership"} => task[q].tenant # t
  BY <1>1 DEF Types, MembersEntered, Tenants, Linked
<1>3. \A x \in member' : x \in member \/ (x[1] = t /\ x[2] = o)
  BY <1>1
<1>4. \A x \in link' : x \in link \/ (x[1] = t /\ x[2] \in ls)
  BY <1>1
<1>5. OneOrg'
  BY <1>2, <1>3 DEF Tenants, OneOrg
<1>6. Removing'
  BY <1>1, <1>2, <1>3, <1>4 DEF Tenants, Removing
<1>7. Linked'
  BY <1>1, <1>4 DEF Tenants, Linked
<1>8. Gone'
  BY <1>1, <1>3, <1>4 DEF Tenants, Gone
<1> QED
  BY <1>5, <1>6, <1>7, <1>8 DEF Tenants

LEMMA FindTenants ==
  ASSUME Types, Tenants, NEW q \in Request, NEW t \in Tenant, NEW o \in Org, FindMember(q, t, o)
  PROVE  Tenants'
<1>1. \A x \in member : x[1] = t => x[2] = o
  BY DEF FindMember, Tenants, OneOrg
<1>2. Removing'
  BY <1>1 DEF FindMember, Go, Types, TypeOK, Tenants, Removing
<1> QED
  BY <1>2 DEF FindMember, Tenants, OneOrg, Linked, Gone

LEMMA DeleteLinksTenants ==
  ASSUME Types, Tenants, NEW q \in Request, DeleteLinks(q)
  PROVE  Tenants'
<1>1. task[q] \in Removal
  BY TaskType DEF DeleteLinks, Types
<1>2. /\ task' = [task EXCEPT ![q] = [task[q] EXCEPT !.at = "membership"]]
      /\ member' = member /\ entered' = entered /\ removed' = removed
      /\ link' \subseteq link /\ \A x \in link' : x[1] # task[q].tenant
      /\ task[q].at = "links"
  BY DEF DeleteLinks, Go
<1>3. /\ task'[q].tenant = task[q].tenant /\ task'[q].org = task[q].org
      /\ \A p \in Request \ {q} : task'[p] = task[p]
  BY <1>1, <1>2 DEF Types, TypeOK, Removal
<1>4. Removing'
  BY <1>2, <1>3 DEF Tenants, Removing
<1> QED
  BY <1>2, <1>4 DEF Tenants, OneOrg, Linked, Gone

LEMMA DeleteMembershipTenants ==
  ASSUME Types, Tenants, NEW q \in Request, DeleteMembership(q)
  PROVE  Tenants'
<1> DEFINE t == task[q].tenant
<1>1. /\ task[q].at = "membership" /\ task' = [task EXCEPT ![q] = Idle]
      /\ member' = member \ {<<t, task[q].org>>} /\ link' = link
      /\ entered' = entered /\ removed' = removed \cup {t}
  BY DEF DeleteMembership, Go
<1>2. /\ \A x \in link : x[1] # t
      /\ \A x \in member : x[1] = t => x[2] = task[q].org
  BY <1>1 DEF Tenants, Removing
<1>3. \A x \in member' : x[1] # t
  <2> SUFFICES ASSUME NEW x \in member', x[1] = t PROVE FALSE
    OBVIOUS
  <2>1. x \in member /\ x = <<x[1], x[2]>>
    BY <1>1 DEF Types, TypeOK
  <2> QED
    BY <1>1, <1>2, <2>1
<1>4. OneOrg' /\ Gone'
  BY <1>1, <1>2, <1>3 DEF Tenants, OneOrg, Gone
<1>5. Linked'
  BY <1>1, <1>2 DEF Tenants, Linked
<1>6. Removing'
  BY <1>1 DEF Tenants, Removing, Types, TypeOK, Idle
<1> QED
  BY <1>4, <1>5, <1>6 DEF Tenants

LEMMA StepTenants == Types /\ Tenants /\ [Next]_vars => Tenants'
<1> SUFFICES ASSUME Types, Tenants, [Next]_vars PROVE Tenants'
  OBVIOUS
<1>1. CASE UNCHANGED vars
  BY <1>1 DEF vars, Tenants, OneOrg, Removing, Linked, Gone
<1>2. ASSUME NEW t \in Tenant, NEW o \in Org,
             Enter(t, o, {}) \/ \E l \in Lease : OrgOf[l] = o /\ Enter(t, o, {l})
      PROVE  Tenants'
  <2>1. CASE Enter(t, o, {})
    BY <2>1, EnterTenants
  <2>2. ASSUME NEW l \in Lease, OrgOf[l] = o, Enter(t, o, {l})
        PROVE  Tenants'
    <3>1. {l} \in SUBSET Lease /\ \A k \in {l} : OrgOf[k] = o
      BY <2>2
    <3> QED
      BY <2>2, <3>1, EnterTenants
  <2> QED
    BY <1>2, <2>1, <2>2
<1>3. ASSUME NEW q \in Request, GoesOn(q) \/ Fail(q)
      PROVE  Tenants'
  <2>1. ASSUME RunQuery(q) \/ Set(q) \/ Fail(q)
        PROVE  Tenants'
    <3>1. Idle.at = "idle"
      BY DEF Idle
    <3>2. CASE RunQuery(q)
      <4>1. [task[q] EXCEPT !.at = "set", !.rows = Query(task[q].key)].at = "set"
        BY <3>2, TaskType DEF RunQuery, Types, Lookup
      <4> QED
        BY <3>2, <4>1, GoTenants DEF RunQuery
    <3> QED
      BY <2>1, <3>1, <3>2, GoTenants DEF Set, Fail
  <2> QED
    BY <1>3, <2>1, DeleteLinksTenants, DeleteMembershipTenants DEF GoesOn
<1>4. ASSUME NEW q \in Request, NEW k \in Key, Miss(q, k)
      PROVE  Tenants'
  BY <1>4, GoTenants DEF Miss
<1>5. ASSUME NEW t \in Tenant, RemoveFromLease(t) \/ UpdateProfile(t)
      PROVE  Tenants'
  BY <1>5 DEF RemoveFromLease, UpdateProfile, Tenants, OneOrg, Removing, Linked, Gone
<1>6. ASSUME NEW l \in Lease, ChangeStatus(l)
      PROVE  Tenants'
  BY <1>6 DEF ChangeStatus, Tenants, OneOrg, Removing, Linked, Gone
<1>7. CASE AddTenantToLease \/ Tick
  BY <1>7 DEF AddTenantToLease, Tick, Tenants, OneOrg, Removing, Linked, Gone, Idle
<1> QED
  BY <1>1, <1>2, <1>3, <1>4, <1>5, <1>6, <1>7, FindTenants DEF Next

LEMMA TenantsAlways == Spec => [](Types /\ Tenants)
<1>1. Init => Tenants
  BY DEF Init, Tenants, OneOrg, Removing, Linked, Gone, Idle
<1> QED
  BY <1>1, InitTypes, StepTypes, StepTenants, PTL DEF Spec

\* Wherever a removal is cut off, no lease keeps a tenant who is not a member of its
\* organization.
THEOREM NoLeaseOutsideOrgAlways == Spec => []NoLeaseOutsideOrg
<1>1. Tenants => NoLeaseOutsideOrg
  BY DEF Tenants, Linked, NoLeaseOutsideOrg
<1> QED
  BY <1>1, TenantsAlways, PTL

\* A tenant whose removal was answered with success stays removed.
THEOREM RemovedStaysRemovedAlways == Spec => []RemovedStaysRemoved
<1>1. ASSUME Tenants PROVE RemovedStaysRemoved
  <2> SUFFICES ASSUME NEW t \in removed
               PROVE  /\ \A o \in Org : <<t, o>> \notin member
                      /\ Details(t) = [active |-> {}, inactive |-> {}]
    BY DEF RemovedStaysRemoved
  <2>1. /\ \A x \in member : x[1] # t
        /\ \A x \in link : x[1] # t
    BY <1>1 DEF Tenants, Gone
  <2>2. \A o \in Org : <<t, o>> \notin member
    BY <2>1
  <2>3. LeasesOf(t) = {}
    BY <2>1 DEF LeasesOf
  <2> QED
    BY <2>2, <2>3 DEF Details, TenantInfo
<1> QED
  BY <1>1, TenantsAlways, PTL
================================================================================
