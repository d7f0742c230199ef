------------------------------ MODULE Onboarding ------------------------------
(***************************************************************************)
(* Signing up tenants (createTenant, onboardTenant) and organization       *)
(* owners (createOrgOwner), inviting others into an organization           *)
(* (inviteUser), and accepting a tenant invitation.                        *)
(*                                                                         *)
(* A sign-up writes to two stores that share no transaction: the account   *)
(* in Firebase and the rows in the database, and it sends an email.  When  *)
(* a later step fails, the handler undoes the earlier ones by hand.  Every *)
(* remote call may fail before it takes effect, or take effect and lose    *)
(* its answer, and the process may be restarted between any two steps.     *)
(***************************************************************************)
EXTENDS FiniteSets

CONSTANTS
  Email,   \* addresses people sign up with
  Org,     \* organizations whose managers use the dashboard
  Req,     \* sign-up requests; each one is served once (bounds the run)
  Visit,   \* times somebody opens the link of an invitation email
  NoOne    \* no account, no row, or nobody

ASSUME OnboardingAssumption == NoOne \notin Req /\ NoOne \notin Org

VARIABLES
  saga,       \* where each sign-up is
  currentUser,\* the one field AuthService.currentUser: the organization of that user
  account,    \* Firebase: the sign-up that created the account of an address
  profile,    \* database: the sign-up whose committed UserProfile has the address
  org,        \* database: the organization an owner's sign-up created
  member,     \* database: the sign-ups whose OrganizationUser row is there
  invitation, \* database: the TenantInvitation of a tenant's sign-up
  mailed,     \* the sign-ups whose invitation email went out
  visit,      \* what a visitor's acceptance has still to do
  activated,  \* Firebase: the accounts whose password an acceptance has set
  cause       \* history: what went wrong outside a sign-up's control

vars == <<saga, currentUser, account, profile, org, member, invitation, mailed, visit,
          activated, cause>>

db == <<profile, org, member, invitation>>
visits == <<visit, activated>>

-----------------------------------------------------------------------------

Step == {"create", "rows", "mail", "commit", "verify", "token", "undo", "blind", "drop", "done"}

New == [step |-> "new"]

\* by: the organization of the manager who signs a tenant up; into: the one that the
\* tenant is entered in.
Running == [step : Step, kind : {"tenant", "owner", "invited"}, email : Email,
            by : Org \cup {NoOne}, into : Org \cup {NoOne}]

\* crash: the process went away; account: the answer of createUser was lost;
\* commit: the answer of COMMIT was lost; stuck: an undo step failed;
\* misdirected: an undo that looked up no particular user hit this one's organization.
Cause == {"crash", "account", "commit", "stuck", "misdirected"}

TypeOK ==
  /\ saga \in [Req -> {New} \cup Running]
  /\ currentUser \in Org \cup {NoOne}
  /\ account \in [Email -> Req \cup {NoOne}]
  /\ profile \in [Email -> Req \cup {NoOne}]
  /\ org \in [Req -> {"none", "active", "deleted"}]
  /\ member \in SUBSET Req
  /\ invitation \in [Req -> {"none", "pending", "accepted"}]
  /\ mailed \in SUBSET Req
  /\ visit \in [Visit -> {New} \cup [step : {"open"}, of : Req, todo : SUBSET {"mark", "password"}]]
  /\ activated \in SUBSET Req
  /\ cause \in [Req -> SUBSET Cause]

Init ==
  /\ saga = [r \in Req |-> New]
  /\ currentUser = NoOne
  /\ account = [e \in Email |-> NoOne]
  /\ profile = [e \in Email |-> NoOne]
  /\ org = [r \in Req |-> "none"]
  /\ member = {}
  /\ invitation = [r \in Req |-> "none"]
  /\ mailed = {}
  /\ visit = [v \in Visit |-> New]
  /\ activated = {}
  /\ cause = [r \in Req |-> {}]

At(r, s) == saga[r].step = s
IsTenant(r) == saga[r].kind = "tenant"
IsOwner(r) == saga[r].kind = "owner"
MailOf(r) == saga[r].email

GoTo(r, s) == saga' = [saga EXCEPT ![r].step = s]
Blame(r, c) == cause' = [cause EXCEPT ![r] = @ \cup {c}]

-----------------------------------------------------------------------------
(* The steps of a sign-up.                                                 *)

\* Every handler of the service keeps its user in the same field; a tenant who asks
\* for the own data there belongs to no organization.
ServeUser(o) ==
  /\ currentUser' = o
  /\ UNCHANGED <<saga, account, db, mailed, visits, cause>>

\* checkTenantUserExist sees the tenants whose sign-up has committed.
CheckTenant(r, e, o) ==
  /\ saga[r] = New
  /\ currentUser' = o
  /\ saga' = [saga EXCEPT ![r] =
       [step |-> IF \E q \in Req : profile[e] = q /\ IsTenant(q) THEN "done" ELSE "create",
        kind |-> "tenant", email |-> e, by |-> o, into |-> NoOne]]
  /\ UNCHANGED <<account, db, mailed, visits, cause>>

StartOwner(r, e) ==
  /\ saga[r] = New
  /\ saga' = [saga EXCEPT ![r] =
       [step |-> "create", kind |-> "owner", email |-> e, by |-> NoOne, into |-> NoOne]]
  /\ UNCHANGED <<currentUser, account, db, mailed, visits, cause>>

\* inviteUser starts the check of the limit of users and does not wait for it.
StartInvite(r, e) ==
  /\ saga[r] = New
  /\ saga' = [saga EXCEPT ![r] =
       [step |-> "create", kind |-> "invited", email |-> e, by |-> NoOne, into |-> NoOne]]
  /\ UNCHANGED <<currentUser, account, db, mailed, visits, cause>>

\* With the answer of createUser in hand, a tenant's handler reads the field again to
\* say which organization the rows belong to.
EnterRows(r) ==
  saga' = [saga EXCEPT ![r].step = "rows",
                       ![r].into = IF IsTenant(r) THEN currentUser ELSE NoOne]

\* Mutant: the account is taken over instead of refused.
CreateAnyway(r) ==
  /\ At(r, "create")
  /\ account' = [account EXCEPT ![MailOf(r)] = r]
  /\ \/ EnterRows(r) /\ UNCHANGED cause
     \/ GoTo(r, "done") /\ Blame(r, "account")
  /\ UNCHANGED <<currentUser, db, mailed, visits>>

\* Mutant: the address is kept where the uid belongs.
CreateByEmail(r) ==
  /\ At(r, "create")
  /\ account[MailOf(r)] = NoOne
  /\ account' = [account EXCEPT ![MailOf(r)] = MailOf(r)]
  /\ EnterRows(r)
  /\ UNCHANGED <<currentUser, db, mailed, visits, cause>>

\* Firebase refuses an address that has an account.
CreateAccount(r) ==
  /\ At(r, "create")
  /\ account[MailOf(r)] = NoOne
  /\ account' = [account EXCEPT ![MailOf(r)] = r]
  /\ \/ EnterRows(r) /\ UNCHANGED cause
     \/ GoTo(r, "done") /\ Blame(r, "account")
  /\ UNCHANGED <<currentUser, db, mailed, visits>>

\* Without a uid there is nothing to undo: the handler just answers with an error.
AccountRefused(r) ==
  /\ At(r, "create")
  /\ GoTo(r, "done")
  /\ UNCHANGED <<currentUser, account, db, mailed, visits, cause>>

\* Mutant: a failure while the rows are written is not compensated.
SaveRowsOrStop(r) ==
  /\ At(r, "rows") /\ saga[r].kind # "invited"
  /\ \/ /\ profile[MailOf(r)] = NoOne
        /\ GoTo(r, IF IsTenant(r) THEN "mail" ELSE "commit")
     \/ GoTo(r, "done")
  /\ UNCHANGED <<currentUser, account, db, mailed, visits, cause>>

\* Mutant: no unique index on the address.
SaveRowsOver(r) ==
  /\ At(r, "rows") /\ saga[r].kind # "invited"
  /\ GoTo(r, IF IsTenant(r) THEN "mail" ELSE "commit")
  /\ UNCHANGED <<currentUser, account, db, mailed, visits, cause>>

\* The rows are written inside the transaction and seen by nobody else yet; the
\* unique index on the address makes a second writer wait and then fail.  The
\* custom claims or the tenant's lease may fail as well, and a tenant without an
\* organization is refused.
SaveRows(r) ==
  /\ At(r, "rows") /\ saga[r].kind # "invited"
  /\ ~ \E q \in Req \ {r} : /\ saga[q] # New /\ saga[q].step \in {"mail", "commit"}
                            /\ MailOf(q) = MailOf(r)
  /\ \/ /\ profile[MailOf(r)] = NoOne
        /\ IsTenant(r) => saga[r].into # NoOne
        /\ GoTo(r, IF IsTenant(r) THEN "mail" ELSE "commit")
     \/ GoTo(r, "undo")
  /\ UNCHANGED <<currentUser, account, db, mailed, visits, cause>>

\* The invitation takes the id of the invited user before that user is saved and has one:
\* the database refuses it, and the transaction with it.
RefuseInvited(r) ==
  /\ At(r, "rows") /\ saga[r].kind = "invited"
  /\ GoTo(r, "undo")
  /\ UNCHANGED <<currentUser, account, db, mailed, visits, cause>>

\* The invitation email is sent before the transaction commits.
SendInvitation(r) ==
  /\ At(r, "mail")
  /\ \/ /\ mailed' = mailed \cup {r}
        /\ saga' \in {[saga EXCEPT ![r].step = s] : s \in {"commit", "undo"}}
     \/ GoTo(r, "undo") /\ UNCHANGED mailed
  /\ UNCHANGED <<currentUser, account, db, visits, cause>>

RowsAppear(r) ==
  /\ profile' = [profile EXCEPT ![MailOf(r)] = r]
  /\ IF IsOwner(r)
     THEN /\ org' = [org EXCEPT ![r] = "active"]
          /\ member' = member \cup {r}
          /\ UNCHANGED invitation
     ELSE /\ invitation' = [invitation EXCEPT ![r] = "pending"]
          /\ UNCHANGED <<org, member>>

Commit(r) ==
  /\ At(r, "commit")
  /\ RowsAppear(r)
  /\ \/ GoTo(r, IF IsOwner(r) THEN "verify" ELSE "done") /\ UNCHANGED cause
     \/ GoTo(r, "undo") /\ Blame(r, "commit")
  /\ UNCHANGED <<currentUser, account, mailed, visits>>

RollBack(r) ==
  /\ At(r, "commit")
  /\ GoTo(r, "undo")
  /\ UNCHANGED <<currentUser, account, db, mailed, visits, cause>>

\* Mutant: after the commit only the account is undone.
VerifyOrDrop(r) ==
  /\ At(r, "verify")
  /\ saga' \in {[saga EXCEPT ![r].step = s] : s \in {"token", "drop"}}
  /\ UNCHANGED <<currentUser, account, db, mailed, visits, cause>>

\* After the commit an owner is sent a verification email.
SendVerification(r) ==
  /\ At(r, "verify")
  /\ saga' \in {[saga EXCEPT ![r].step = s] : s \in {"token", "undo"}}
  /\ UNCHANGED <<currentUser, account, db, mailed, visits, cause>>

\* fbid is set to null just before this last call.
IssueToken(r) ==
  /\ At(r, "token")
  /\ saga' \in {[saga EXCEPT ![r].step = s] : s \in {"done", "blind"}}
  /\ UNCHANGED <<currentUser, account, db, mailed, visits, cause>>

-----------------------------------------------------------------------------
(* Undoing a sign-up by hand.                                              *)

\* The handlers of tenants and invitations only delete the account.
UndoTenant(r) ==
  /\ At(r, "undo")
  /\ ~ IsOwner(r)
  /\ GoTo(r, "drop")
  /\ UNCHANGED <<currentUser, account, db, mailed, visits, cause>>

\* Mutant: the organization is closed but the profile stays.
CloseOnly(r) ==
  /\ At(r, "undo")
  /\ IsOwner(r)
  /\ profile[MailOf(r)] = r => r \in member
  /\ IF profile[MailOf(r)] = r
     THEN /\ org' = [org EXCEPT ![r] = "deleted"]
          /\ member' = member \ {r}
          /\ UNCHANGED <<profile, invitation>>
     ELSE UNCHANGED db
  /\ GoTo(r, "drop")
  /\ UNCHANGED <<currentUser, account, mailed, visits, cause>>

\* deleteFailedUser finds the profile by its firebaseId and closes its organization;
\* it throws when the profile has no organization user any more.
UndoOwner(r) ==
  /\ At(r, "undo")
  /\ IsOwner(r)
  /\ profile[MailOf(r)] = r => r \in member
  /\ IF profile[MailOf(r)] = r
     THEN /\ profile' = [profile EXCEPT ![MailOf(r)] = NoOne]
          /\ org' = [org EXCEPT ![r] = "deleted"]
          /\ member' = member \ {r}
          /\ UNCHANGED invitation
     ELSE UNCHANGED db
  /\ GoTo(r, "drop")
  /\ UNCHANGED <<currentUser, account, mailed, visits, cause>>

\* Its promise is returned without await: a failure skips the deletion of the account.
UndoOwnerFails(r) ==
  /\ At(r, "undo")
  /\ IsOwner(r)
  /\ GoTo(r, "done")
  /\ Blame(r, "stuck")
  /\ UNCHANGED <<currentUser, account, db, mailed, visits>>

\* With fbid null the lookup has no condition and returns whichever profile comes
\* first; its organization is closed, its own row stays (no firebaseId is null).
\* A profile without an organization user makes the transaction fail instead.
\* deleteUser(null) is refused either way.
UndoBlind(r) ==
  /\ At(r, "blind")
  /\ \E q \in {profile[e] : e \in Email} \ {NoOne} :
       IF q \in member
       THEN /\ org' = [org EXCEPT ![q] = "deleted"]
            /\ member' = member \ {q}
            /\ Blame(q, "misdirected")
       ELSE UNCHANGED <<org, member, cause>>
  /\ GoTo(r, "done")
  /\ UNCHANGED <<currentUser, account, profile, invitation, mailed, visits>>

DeleteAccount(r) ==
  /\ At(r, "drop")
  /\ account' = [account EXCEPT ![MailOf(r)] = NoOne]
  /\ GoTo(r, "done")
  /\ UNCHANGED <<currentUser, db, mailed, visits, cause>>

DeleteAccountFails(r) ==
  /\ At(r, "drop")
  /\ GoTo(r, "done")
  /\ Blame(r, "stuck")
  /\ UNCHANGED <<currentUser, account, db, mailed, visits>>

\* A restart in the middle: an open transaction is rolled back, nothing is undone.
Crash(r) ==
  /\ saga[r] # New
  /\ ~ At(r, "done")
  /\ GoTo(r, "done")
  /\ Blame(r, "crash")
  /\ UNCHANGED <<currentUser, account, db, mailed, visits>>

-----------------------------------------------------------------------------
(* acceptTenantInvitation.                                                 *)

\* The condition acceptedAt: null is left out by the ORM, so an invitation that was
\* accepted is found as well.
OpenInvitation(v, r) ==
  /\ visit[v] = New
  /\ invitation[r] # "none"
  /\ visit' = [visit EXCEPT ![v] = [step |-> "open", of |-> r, todo |-> {"mark", "password"}]]
  /\ UNCHANGED <<currentUser, saga, account, db, mailed, activated, cause>>

Finish(v, what) ==
  /\ visit[v] # New
  /\ what \in visit[v].todo
  /\ visit' = [visit EXCEPT ![v].todo = @ \ {what}]

\* The transaction that marks the invitation is not awaited: it may come after the
\* password is set, or fail without anybody noticing.
MarkAccepted(v) ==
  /\ Finish(v, "mark")
  /\ invitation' \in {invitation, [invitation EXCEPT ![visit[v].of] = "accepted"]}
  /\ UNCHANGED <<currentUser, saga, account, profile, org, member, mailed, activated, cause>>

SetPassword(v) ==
  /\ Finish(v, "password")
  /\ activated' \in {activated} \cup
       (IF \E e \in Email : account[e] = visit[v].of THEN {activated \cup {visit[v].of}} ELSE {})
  /\ UNCHANGED <<currentUser, saga, account, db, mailed, cause>>

-----------------------------------------------------------------------------

SignUp(r) ==
  \/ \E e \in Email : (\E o \in Org : CheckTenant(r, e, o)) \/ StartOwner(r, e) \/ StartInvite(r, e)
  \/ CreateAccount(r)
  \/ AccountRefused(r)
  \/ SaveRows(r)
  \/ RefuseInvited(r)
  \/ SendInvitation(r)
  \/ Commit(r)
  \/ RollBack(r)
  \/ SendVerification(r)
  \/ IssueToken(r)
  \/ UndoTenant(r)
  \/ UndoOwner(r)
  \/ UndoOwnerFails(r)
  \/ UndoBlind(r)
  \/ DeleteAccount(r)
  \/ DeleteAccountFails(r)
  \/ Crash(r)

Accept(v) ==
  \/ \E r \in Req : OpenInvitation(v, r)
  \/ MarkAccepted(v)
  \/ SetPassword(v)

Next ==
  \/ \E r \in Req : SignUp(r)
  \/ \E v \in Visit : Accept(v)
  \/ \E o \in Org \cup {NoOne} : ServeUser(o)

Spec == Init /\ [][Next]_vars

-----------------------------------------------------------------------------
(* What signing up should guarantee.                                       *)

\* The steps at which a sign-up relies on the account it created.
Holds(r) == saga[r] # New /\ saga[r].step \in Step \ {"create", "done"}

\* Firebase is the lock: checkTenantUserExist reads before createUser and proves
\* nothing, yet no two sign-ups with one address are ever past createUser together.
OneSignUpPerEmail ==
  \A q, r \in Req : (Holds(q) /\ Holds(r) /\ MailOf(q) = MailOf(r)) => q = r

\* A committed user can sign in: the compensation that deletes an account only runs
\* for rows that were rolled back or deleted, unless the answer of COMMIT was lost.
ProfileHasAccount ==
  \A e \in Email :
    (profile[e] # NoOne /\ account[e] # profile[e]) => "commit" \in cause[profile[e]]

\* A sign-up that ended leaves no account without a user behind, which would keep
\* the address from ever signing up again, unless one of the named causes hit it.
NoSilentOrphan ==
  \A e \in Email : \A r \in Req :
    (account[e] = r /\ saga[r].step = "done" /\ profile[e] # r)
      => cause[r] \cap {"crash", "account", "stuck"} # {}

\* An owner who is there has an open organization and belongs to it; the only way to
\* lose it is the undo of some sign-up that looked up a null firebaseId.
OwnerKeepsOrg ==
  \A e \in Email : \A r \in Req :
    (profile[e] = r /\ IsOwner(r))
      => (org[r] = "active" /\ r \in member) \/ "misdirected" \in cause[r]

\* Seen from outside, the two stores together implement one reservation per address.
Reservation == INSTANCE EmailReservation WITH claim <- account, enrolled <- profile

ReservationSpec == Reservation!Spec

\* 'A new tenant has been created by ... in your organization': a tenant is entered in
\* the organization of the manager who signed the tenant up, whoever else is served.
TenantInOwnOrg ==
  \A e \in Email : \A r \in Req :
    (profile[e] = r /\ IsTenant(r)) => saga[r].into = saga[r].by

=============================================================================
