--------------------------- MODULE OnboardingProofs ---------------------------
(* Proofs about Onboarding, for every set of addresses, organizations,      *)
(* sign-ups and visitors.                                                   *)
EXTENDS Onboarding, TLAPS

USE DEF At, IsTenant, IsOwner, MailOf, db, visits

-----------------------------------------------------------------------------
(* Types.                                                                   *)

\* A step of r that moves it on: r keeps its kind, address and organizations, and
\* the other sign-ups stay where they are.
LEMMA Moves ==
  ASSUME TypeOK, NEW r \in Req, saga[r] # New, NEW s \in Step, saga' = [saga EXCEPT ![r].step = s]
  PROVE  /\ saga' \in [Req -> {New} \cup Running]
         /\ saga'[r] # New /\ saga'[r].step = s
         /\ saga'[r].kind = saga[r].kind /\ saga'[r].email = saga[r].email
         /\ \A q \in Req \ {r} : saga'[q] = saga[q]
<1>1. saga[r] \in Running
  BY DEF TypeOK
<1>2. saga'[r] = [saga[r] EXCEPT !.step = s]
  BY DEF TypeOK
<1>3. saga'[r] \in Running /\ saga'[r].step = s
      /\ saga'[r].kind = saga[r].kind /\ saga'[r].email = saga[r].email
  BY <1>1, <1>2 DEF Running
<1>4. saga'[r] # New
  BY <1>3 DEF New, Step
<1> QED
  BY <1>3, <1>4 DEF TypeOK

\* The same when the rows of r are about to be entered.
LEMMA EnterRowsMoves ==
  ASSUME TypeOK, NEW r \in Req, saga[r] # New, EnterRows(r)
  PROVE  /\ saga' \in [Req -> {New} \cup Running]
         /\ saga'[r] # New /\ saga'[r].step = "rows"
         /\ saga'[r].kind = saga[r].kind /\ saga'[r].email = saga[r].email
         /\ \A q \in Req \ {r} : saga'[q] = saga[q]
<1> DEFINE into == IF IsTenant(r) THEN currentUser ELSE NoOne
<1>1. saga[r] \in Running /\ into \in Org \cup {NoOne}
  BY DEF TypeOK
<1>2. saga'[r] = [saga[r] EXCEPT !.step = "rows", !.into = into]
  BY DEF TypeOK, EnterRows
<1> HIDE DEF into
<1>3. saga'[r] \in Running /\ saga'[r].step = "rows"
      /\ saga'[r].kind = saga[r].kind /\ saga'[r].email = saga[r].email
  BY <1>1, <1>2 DEF Running, Step
<1>4. saga'[r] # New
  BY <1>3 DEF New, Step
<1> QED
  BY <1>3, <1>4 DEF TypeOK, EnterRows

\* A sign-up that is at some step of the protocol has started, and is of one kind.
LEMMA Started ==
  ASSUME TypeOK, NEW r \in Req
  PROVE  /\ saga[r] # New => saga[r] \in Running /\ saga[r].email \in Email
                             /\ saga[r].kind \in {"tenant", "owner", "invited"}
         /\ saga[r].step \in Step => saga[r] # New
         /\ saga[r] # New => saga[r].step \in Step
BY DEF TypeOK, Running, New, Step

\* Every step of a sign-up or of an acceptance leaves the stores well formed.
LEMMA TypingStep ==
  ASSUME TypeOK, [Next]_vars
  PROVE  TypeOK'
<1>1. ASSUME NEW r \in Req, NEW e \in Email,
             (\E o \in Org : CheckTenant(r, e, o)) \/ StartOwner(r, e) \/ StartInvite(r, e)
      PROVE  TypeOK'
  <2>1. CASE StartOwner(r, e) \/ StartInvite(r, e)
    <3>1. \A k \in {"owner", "invited"} :
            [step |-> "create", kind |-> k, email |-> e, by |-> NoOne, into |-> NoOne] \in Running
      BY DEF Running, Step
    <3> QED
      BY <2>1, <3>1 DEF StartOwner, StartInvite, TypeOK
  <2>2. ASSUME NEW o \in Org, CheckTenant(r, e, o)
        PROVE  TypeOK'
    <3>1. ASSUME NEW s \in {"done", "create"}
          PROVE  [step |-> s, kind |-> "tenant", email |-> e, by |-> o, into |-> NoOne] \in Running
      BY DEF Running, Step
    <3>2. \E s \in {"done", "create"} :
             saga' = [saga EXCEPT ![r] = [step |-> s, kind |-> "tenant", email |-> e,
                                          by |-> o, into |-> NoOne]]
      BY <2>2 DEF CheckTenant
    <3>3. saga' \in [Req -> {New} \cup Running]
      BY <3>1, <3>2 DEF TypeOK
    <3> QED
      BY <2>2, <3>3 DEF CheckTenant, TypeOK
  <2> QED
    BY <1>1, <2>1, <2>2
<1>2. ASSUME NEW r \in Req, CreateAccount(r)
      PROVE  TypeOK'
  <2>1. saga[r] # New /\ saga[r].step = "create"
    BY <1>2, Started DEF CreateAccount, Step
  <2>2. saga' \in [Req -> {New} \cup Running]
    BY <1>2, <2>1, Moves, EnterRowsMoves DEF CreateAccount, GoTo, Step
  <2>3. cause' \in [Req -> SUBSET Cause]
    BY <1>2 DEF CreateAccount, Blame, Cause, TypeOK
  <2> QED
    BY <1>2, <2>2, <2>3 DEF CreateAccount, TypeOK
<1>3. ASSUME NEW r \in Req,
             AccountRefused(r) \/ SaveRows(r) \/ RefuseInvited(r)
             \/ SendInvitation(r) \/ RollBack(r)
             \/ SendVerification(r) \/ IssueToken(r) \/ UndoTenant(r)
      PROVE  TypeOK'
  <2>1. saga[r] # New
    BY <1>3, Started DEF AccountRefused, SaveRows, RefuseInvited, SendInvitation, RollBack,
       SendVerification, IssueToken, UndoTenant, Step
  <2>2. \E s \in Step : saga' = [saga EXCEPT ![r].step = s]
    BY <1>3 DEF AccountRefused, SaveRows, RefuseInvited, SendInvitation, RollBack,
       SendVerification, IssueToken, UndoTenant, GoTo, Step
  <2>3. saga' \in [Req -> {New} \cup Running]
    BY <2>1, <2>2, Moves
  <2>4. mailed' \in SUBSET Req
    BY <1>3 DEF AccountRefused, SaveRows, RefuseInvited, SendInvitation, RollBack,
       SendVerification, IssueToken, UndoTenant, TypeOK
  <2>5. UNCHANGED <<currentUser, account, db, visits, cause>>
    BY <1>3 DEF AccountRefused, SaveRows, RefuseInvited, SendInvitation, RollBack,
       SendVerification, IssueToken, UndoTenant
  <2> QED
    BY <2>3, <2>4, <2>5 DEF TypeOK
<1>4. ASSUME NEW r \in Req, Commit(r)
      PROVE  TypeOK'
  <2>1. saga[r] # New /\ saga[r].email \in Email
    BY <1>4, Started DEF Commit, Step
  <2>2. saga' \in [Req -> {New} \cup Running]
    BY <1>4, <2>1, Moves DEF Commit, GoTo, Step
  <2>3. cause' \in [Req -> SUBSET Cause]
    BY <1>4 DEF Commit, Blame, Cause, TypeOK
  <2>4. /\ profile' \in [Email -> Req \cup {NoOne}]
        /\ org' \in [Req -> {"none", "active", "deleted"}]
        /\ member' \in SUBSET Req
        /\ invitation' \in [Req -> {"none", "pending", "accepted"}]
    BY <1>4, <2>1 DEF Commit, RowsAppear, TypeOK
  <2> QED
    BY <1>4, <2>2, <2>3, <2>4 DEF Commit, TypeOK
<1>5. ASSUME NEW r \in Req, UndoOwner(r)
      PROVE  TypeOK'
  <2>1. saga[r] # New /\ saga[r].email \in Email
    BY <1>5, Started DEF UndoOwner, Step
  <2>2. saga' \in [Req -> {New} \cup Running]
    BY <1>5, <2>1, Moves DEF UndoOwner, GoTo, Step
  <2>3. /\ profile' \in [Email -> Req \cup {NoOne}]
        /\ org' \in [Req -> {"none", "active", "deleted"}]
        /\ member' \in SUBSET Req
        /\ invitation' \in [Req -> {"none", "pending", "accepted"}]
    BY <1>5, <2>1 DEF UndoOwner, TypeOK
  <2> QED
    BY <1>5, <2>2, <2>3 DEF UndoOwner, TypeOK
<1>6. ASSUME NEW r \in Req, UndoBlind(r)
      PROVE  TypeOK'
  <2>1. saga[r] # New
    BY <1>6, Started DEF UndoBlind, Step
  <2>2. saga' \in [Req -> {New} \cup Running]
    BY <1>6, <2>1, Moves DEF UndoBlind, GoTo, Step
  <2>3. /\ org' \in [Req -> {"none", "active", "deleted"}]
        /\ member' \in SUBSET Req
        /\ cause' \in [Req -> SUBSET Cause]
    BY <1>6 DEF UndoBlind, Blame, Cause, TypeOK
  <2> QED
    BY <1>6, <2>2, <2>3 DEF UndoBlind, TypeOK
<1>7. ASSUME NEW r \in Req,
             UndoOwnerFails(r) \/ DeleteAccount(r) \/ DeleteAccountFails(r) \/ Crash(r)
      PROVE  TypeOK'
  <2>1. saga[r] # New
    BY <1>7, Started DEF UndoOwnerFails, DeleteAccount, DeleteAccountFails, Crash, Step
  <2>2. saga' \in [Req -> {New} \cup Running]
    BY <1>7, <2>1, Moves DEF UndoOwnerFails, DeleteAccount, DeleteAccountFails, Crash, GoTo, Step
  <2>3. account' \in [Email -> Req \cup {NoOne}]
    BY <1>7 DEF UndoOwnerFails, DeleteAccount, DeleteAccountFails, Crash, TypeOK
  <2>4. cause' \in [Req -> SUBSET Cause]
    BY <1>7 DEF UndoOwnerFails, DeleteAccount, DeleteAccountFails, Crash, Blame, Cause, TypeOK
  <2>5. UNCHANGED <<currentUser, db, mailed, visits>>
    BY <1>7 DEF UndoOwnerFails, DeleteAccount, DeleteAccountFails, Crash
  <2> QED
    BY <2>2, <2>3, <2>4, <2>5 DEF TypeOK
<1>8. ASSUME NEW v \in Visit, Accept(v)
      PROVE  TypeOK'
  <2> DEFINE Open == [step : {"open"}, of : Req, todo : SUBSET {"mark", "password"}]
  <2>1. ASSUME NEW r \in Req, OpenInvitation(v, r)
        PROVE  TypeOK'
    <3> [step |-> "open", of |-> r, todo |-> {"mark", "password"}] \in Open
      OBVIOUS
    <3> QED
      BY <2>1 DEF OpenInvitation, TypeOK
  <2>2. ASSUME NEW what, Finish(v, what)
        PROVE  visit[v].of \in Req /\ visit' \in [Visit -> {New} \cup Open]
    <3>1. visit[v] \in Open
      BY <2>2 DEF Finish, TypeOK
    <3>2. [visit[v] EXCEPT !.todo = @ \ {what}] \in Open
      BY <3>1
    <3> QED
      BY <2>2, <3>1, <3>2 DEF Finish, TypeOK
  <2>3. CASE MarkAccepted(v)
    <3>1. visit[v].of \in Req /\ visit' \in [Visit -> {New} \cup Open]
      BY <2>2, <2>3 DEF MarkAccepted
    <3>2. invitation' \in [Req -> {"none", "pending", "accepted"}]
      BY <2>3, <3>1 DEF MarkAccepted, TypeOK
    <3> QED
      BY <2>3, <3>1, <3>2 DEF MarkAccepted, TypeOK
  <2>4. CASE SetPassword(v)
    <3>1. visit[v].of \in Req /\ visit' \in [Visit -> {New} \cup Open]
      BY <2>2, <2>4 DEF SetPassword
    <3>2. activated' \in SUBSET Req
      BY <2>4, <3>1 DEF SetPassword, TypeOK
    <3> QED
      BY <2>4, <3>1, <3>2 DEF SetPassword, TypeOK
  <2> QED
    BY <1>8, <2>1, <2>3, <2>4 DEF Accept
<1>9. ASSUME NEW o \in Org \cup {NoOne}, ServeUser(o)
      PROVE  TypeOK'
  BY <1>9 DEF ServeUser, TypeOK
<1>10. CASE UNCHANGED vars
  BY <1>10 DEF vars, TypeOK
<1> QED
  BY <1>1, <1>2, <1>3, <1>4, <1>5, <1>6, <1>7, <1>8, <1>9, <1>10 DEF Next, SignUp

\* The two stores and what the handlers hold stay well formed.
THEOREM Typing == Spec => []TypeOK
<1>1. Init => TypeOK
  BY DEF Init, TypeOK
<1> QED
  BY <1>1, TypingStep, PTL DEF Spec

-----------------------------------------------------------------------------
(* Two stores, one sign-up per address.  The invariant says for every step  *)
(* of a sign-up what the two stores hold of it.                              *)

\* An account belongs to a sign-up with that address which got past createUser.
AccountOwner ==
  \A e \in Email, r \in Req :
    account[e] = r => saga[r] # New /\ saga[r].step # "create" /\ MailOf(r) = e

\* A sign-up that is under way after createUser has its account.
AccountHeld == \A r \in Req : Holds(r) => account[MailOf(r)] = r

\* A profile belongs to a sign-up with that address which got past COMMIT.
ProfileOwner ==
  \A e \in Email, r \in Req :
    profile[e] = r => /\ saga[r] # New /\ MailOf(r) = e
                      /\ saga[r].step \notin {"create", "rows", "mail", "commit"}

\* While a transaction is open, the address has no committed row.
RowsFree ==
  \A r \in Req : saga[r].step \in {"mail", "commit"} => profile[MailOf(r)] = NoOne

\* Whoever's account is to be deleted next has no row left,
\* unless COMMIT took effect without saying so.
RowsUndone ==
  \A r \in Req :
    ((At(r, "undo") /\ ~ IsOwner(r)) \/ At(r, "drop"))
      => (profile[MailOf(r)] = r => "commit" \in cause[r])

\* After COMMIT an owner's row is there.
RowsEntered ==
  \A r \in Req :
    saga[r].step \in {"verify", "token", "blind"} => IsOwner(r) /\ profile[MailOf(r)] = r

SagaInv ==
  /\ AccountOwner
  /\ AccountHeld
  /\ ProfileOwner
  /\ RowsFree
  /\ RowsUndone
  /\ RowsEntered
  /\ ProfileHasAccount
  /\ NoSilentOrphan
  /\ OwnerKeepsOrg

\* Sign-up r has moved to step s, the others have not moved.
Moved(r, s) ==
  /\ saga'[r] # New /\ saga'[r].step = s
  /\ saga'[r].kind = saga[r].kind /\ saga'[r].email = saga[r].email
  /\ \A q \in Req \ {r} : saga'[q] = saga[q]

\* Nothing that went wrong is forgotten.
Remembers == \A q \in Req : cause[q] \subseteq cause'[q]

\* A move that leaves both stores alone keeps the invariant when the new step asks
\* no more of them than they hold.
LEMMA QuietMove ==
  ASSUME TypeOK, TypeOK', SagaInv, NEW r \in Req, saga[r] # New, NEW s \in Step, Moved(r, s),
         UNCHANGED <<account, profile, org, member>>, Remembers,
         s # "create", saga[r].step # "done",
         saga[r].step # "create" \/ s = "done",
         s \in {"rows", "mail", "commit"} => profile[MailOf(r)] # r,
         s \in {"mail", "commit"} => profile[MailOf(r)] = NoOne,
         (s = "undo" /\ ~ IsOwner(r)) \/ s = "drop"
           => (profile[MailOf(r)] = r => "commit" \in cause'[r]),
         s \in {"verify", "token", "blind"} => IsOwner(r) /\ profile[MailOf(r)] = r,
         s = "done" => (account[MailOf(r)] = r /\ profile[MailOf(r)] # r
                          => cause'[r] \cap {"crash", "account", "stuck"} # {})
  PROVE  SagaInv'
<1> USE DEF Moved
<1>1. AccountOwner'
  BY DEF SagaInv, AccountOwner
<1>2. AccountHeld'
  BY Started DEF SagaInv, AccountHeld, Holds
<1>3. ProfileOwner'
  BY DEF SagaInv, ProfileOwner
<1>4. RowsFree' /\ RowsUndone' /\ RowsEntered'
  BY DEF SagaInv, RowsFree, RowsUndone, RowsEntered, Remembers
<1>5. ProfileHasAccount'
  BY DEF SagaInv, ProfileHasAccount, Remembers, TypeOK
<1>6. NoSilentOrphan'
  <2> SUFFICES ASSUME NEW e \in Email, NEW q \in Req,
                      account[e] = q, saga'[q].step = "done", profile[e] # q
               PROVE  cause'[q] \cap {"crash", "account", "stuck"} # {}
    BY DEF NoSilentOrphan
  <2>1. CASE q = r
    BY <2>1 DEF SagaInv, AccountOwner
  <2>2. CASE q # r
    BY <2>2 DEF SagaInv, NoSilentOrphan, Remembers
  <2> QED
    BY <2>1, <2>2
<1>7. OwnerKeepsOrg'
  BY DEF SagaInv, OwnerKeepsOrg, Remembers
<1> QED
  BY <1>1, <1>2, <1>3, <1>4, <1>5, <1>6, <1>7 DEF SagaInv

\* A sign-up that has not started is in neither store, so starting one changes
\* nothing for the others.
LEMMA StartMove ==
  ASSUME TypeOK, TypeOK', SagaInv, NEW r \in Req, saga[r] = New,
         saga'[r] # New, saga'[r].step \in {"create", "done"},
         \A q \in Req \ {r} : saga'[q] = saga[q],
         UNCHANGED <<account, profile, org, member, cause>>
  PROVE  SagaInv'
<1>1. \A e \in Email : account[e] # r /\ profile[e] # r
  BY DEF SagaInv, AccountOwner, ProfileOwner
<1>2. AccountOwner' /\ AccountHeld' /\ ProfileOwner'
  BY <1>1 DEF SagaInv, AccountOwner, AccountHeld, Holds, ProfileOwner
<1>3. RowsFree' /\ RowsUndone' /\ RowsEntered'
  BY DEF SagaInv, RowsFree, RowsUndone, RowsEntered
<1>4. ProfileHasAccount' /\ NoSilentOrphan' /\ OwnerKeepsOrg'
  BY <1>1 DEF SagaInv, ProfileHasAccount, NoSilentOrphan, OwnerKeepsOrg
<1> QED
  BY <1>2, <1>3, <1>4 DEF SagaInv

\* createUser gives the address to r; the address had no account, so nobody under way
\* loses one.
LEMMA CreateAccountStep ==
  ASSUME TypeOK, TypeOK', SagaInv, NEW r \in Req, CreateAccount(r)
  PROVE  SagaInv'
<1>1. saga[r] # New /\ saga[r].step = "create" /\ MailOf(r) \in Email
  BY Started DEF CreateAccount, Step
<1>2. \E s \in {"rows", "done"} : Moved(r, s) /\ (s = "done" => "account" \in cause'[r])
  <2>1. CASE EnterRows(r)
    BY <1>1, <2>1, EnterRowsMoves DEF Moved
  <2>2. CASE GoTo(r, "done") /\ Blame(r, "account")
    <3>1. Moved(r, "done")
      BY <1>1, <2>2, Moves DEF GoTo, Moved, Step
    <3>2. "account" \in cause'[r]
      BY <2>2 DEF Blame, TypeOK
    <3> QED
      BY <3>1, <3>2
  <2> QED
    BY <2>1, <2>2 DEF CreateAccount
<1>3. PICK s \in {"rows", "done"} : Moved(r, s) /\ (s = "done" => "account" \in cause'[r])
  BY <1>2
<1>4. Remembers
  BY DEF CreateAccount, Blame, Remembers, TypeOK
<1>5. /\ account[MailOf(r)] = NoOne /\ account' = [account EXCEPT ![MailOf(r)] = r]
      /\ UNCHANGED <<profile, org, member>>
  BY DEF CreateAccount
<1>6. \A q \in Req \ {r} : Holds(q) => MailOf(q) # MailOf(r)
  BY <1>5, OnboardingAssumption DEF SagaInv, AccountHeld
<1>7. AccountOwner'
  BY <1>1, <1>3, <1>5 DEF SagaInv, AccountOwner, Moved, TypeOK
<1>8. AccountHeld'
  <2> SUFFICES ASSUME NEW q \in Req, Holds(q)'
               PROVE  account'[MailOf(q)'] = q
    BY DEF AccountHeld
  <2>1. CASE q = r
    BY <1>1, <1>3, <1>5, <2>1 DEF Moved, TypeOK
  <2>2. CASE q # r
    <3>1. Holds(q) /\ MailOf(q)' = MailOf(q) /\ MailOf(q) \in Email
      BY <1>3, <2>2, Started DEF Moved, Holds
    <3> QED
      BY <1>5, <1>6, <2>2, <3>1 DEF SagaInv, AccountHeld, TypeOK
  <2> QED
    BY <2>1, <2>2
<1>9. ProfileOwner'
  BY <1>1, <1>3, <1>5 DEF SagaInv, ProfileOwner, Moved
<1>10. RowsFree' /\ RowsUndone' /\ RowsEntered'
  BY <1>3, <1>4, <1>5 DEF SagaInv, RowsFree, RowsUndone, RowsEntered, Moved, Remembers
<1>11. ProfileHasAccount'
  BY <1>1, <1>4, <1>5 DEF SagaInv, ProfileHasAccount, Remembers, TypeOK
<1>12. NoSilentOrphan'
  BY <1>1, <1>3, <1>4, <1>5 DEF SagaInv, NoSilentOrphan, AccountOwner, Moved, Remembers, TypeOK
<1>13. OwnerKeepsOrg'
  BY <1>3, <1>4, <1>5 DEF SagaInv, OwnerKeepsOrg, Moved, Remembers
<1> QED
  BY <1>7, <1>8, <1>9, <1>10, <1>11, <1>12, <1>13 DEF SagaInv

\* COMMIT makes the row of r visible: r has the account, so the row is of the user who
\* can sign in, and no other sign-up with that address is past createUser.
LEMMA CommitStep ==
  ASSUME TypeOK, TypeOK', SagaInv, NEW r \in Req, Commit(r)
  PROVE  SagaInv'
<1>1. saga[r] # New /\ saga[r].step = "commit" /\ MailOf(r) \in Email
  BY Started DEF Commit, Step
<1>2. \E s \in {"done", "verify", "undo"} :
         /\ Moved(r, s)
         /\ s = "done" => ~ IsOwner(r)
         /\ s = "verify" => IsOwner(r)
         /\ s = "undo" => "commit" \in cause'[r]
  BY <1>1, Moves DEF Commit, GoTo, Blame, Moved, Step, TypeOK
<1>3. PICK s \in {"done", "verify", "undo"} :
         /\ Moved(r, s)
         /\ s = "done" => ~ IsOwner(r)
         /\ s = "verify" => IsOwner(r)
         /\ s = "undo" => "commit" \in cause'[r]
  BY <1>2
<1>4. Remembers
  BY DEF Commit, Blame, Remembers, TypeOK
<1>5. /\ account' = account /\ profile' = [profile EXCEPT ![MailOf(r)] = r]
      /\ \A q \in Req : org[q] = "active" => org'[q] = "active"
      /\ member \subseteq member'
      /\ IsOwner(r) => org'[r] = "active" /\ r \in member'
  BY DEF Commit, RowsAppear, TypeOK
<1>6. Holds(r) /\ account[MailOf(r)] = r /\ profile[MailOf(r)] = NoOne
  BY <1>1 DEF SagaInv, AccountHeld, RowsFree, Holds, Step
<1>7. ASSUME NEW q \in Req \ {r}
      PROVE  Holds(q) => MailOf(q) # MailOf(r)
  BY <1>6 DEF SagaInv, AccountHeld
<1>8. AccountOwner' /\ AccountHeld'
  BY <1>3, <1>5, <1>6 DEF SagaInv, AccountOwner, AccountHeld, Holds, Moved
<1>9. ProfileOwner'
  BY <1>1, <1>3, <1>5 DEF SagaInv, ProfileOwner, Moved, TypeOK
<1>10. ASSUME NEW q \in Req \ {r},
              saga'[q].step \in {"mail", "commit", "undo", "drop", "verify", "token", "blind"}
       PROVE  /\ saga'[q] = saga[q] /\ MailOf(q) \in Email
              /\ profile'[MailOf(q)] = profile[MailOf(q)]
  <2>1. Holds(q) /\ MailOf(q) \in Email
    BY <1>3, <1>10, Started DEF Moved, Holds, Step
  <2> QED
    BY <1>3, <1>5, <1>7, <2>1 DEF Moved, TypeOK
<1>11. RowsFree' /\ RowsUndone' /\ RowsEntered'
  <2>1. RowsFree'
    BY <1>3, <1>10 DEF SagaInv, RowsFree, Moved
  <2>2. RowsUndone'
    BY <1>3, <1>4, <1>10 DEF SagaInv, RowsUndone, Moved, Remembers
  <2>3. RowsEntered'
    BY <1>1, <1>3, <1>5, <1>10 DEF SagaInv, RowsEntered, Moved, TypeOK
  <2> QED
    BY <2>1, <2>2, <2>3
<1>12. ProfileHasAccount'
  BY <1>1, <1>4, <1>5, <1>6 DEF SagaInv, ProfileHasAccount, Remembers, TypeOK
<1>13. NoSilentOrphan'
  <2> SUFFICES ASSUME NEW e \in Email, NEW q \in Req,
                      account[e] = q, saga'[q].step = "done", profile'[e] # q
               PROVE  cause'[q] \cap {"crash", "account", "stuck"} # {}
    BY <1>5 DEF NoSilentOrphan
  <2>1. q # r
    BY <1>1, <1>5, <1>6 DEF SagaInv, AccountOwner, TypeOK
  <2>2. saga[q].step = "done" /\ e # MailOf(r)
    BY <1>3, <1>6, <2>1 DEF Moved
  <2>3. profile[e] # q
    BY <1>5, <2>2
  <2> QED
    BY <1>4, <2>2, <2>3 DEF SagaInv, NoSilentOrphan, Remembers
<1>14. OwnerKeepsOrg'
  BY <1>1, <1>3, <1>4, <1>5 DEF SagaInv, OwnerKeepsOrg, Moved, Remembers, TypeOK
<1> QED
  BY <1>8, <1>9, <1>11, <1>12, <1>13, <1>14 DEF SagaInv

\* The undo of an owner takes the row and the organization of r away together.
LEMMA UndoOwnerStep ==
  ASSUME TypeOK, TypeOK', SagaInv, NEW r \in Req, UndoOwner(r)
  PROVE  SagaInv'
<1>1. saga[r] # New /\ saga[r].step = "undo" /\ MailOf(r) \in Email /\ IsOwner(r)
  BY Started DEF UndoOwner, Step
<1>2. Moved(r, "drop")
  BY <1>1, Moves DEF UndoOwner, GoTo, Moved, Step
<1>3. CASE profile[MailOf(r)] # r
  <2>1. UNCHANGED <<account, profile, org, member>> /\ Remembers
    BY <1>3 DEF UndoOwner, Remembers
  <2> QED
    BY <1>1, <1>2, <1>3, <2>1, QuietMove DEF Step
<1>4. CASE profile[MailOf(r)] = r
  <2>1. /\ UNCHANGED <<account, cause>> /\ profile' = [profile EXCEPT ![MailOf(r)] = NoOne]
        /\ org' = [org EXCEPT ![r] = "deleted"] /\ member' = member \ {r}
    BY <1>4 DEF UndoOwner
  <2>2. /\ profile'[MailOf(r)] = NoOne
        /\ \A e \in Email \ {MailOf(r)} : profile'[e] = profile[e] /\ profile[e] # r
        /\ \A q \in Req \ {r} : profile[MailOf(r)] # q
    BY <1>1, <1>4, <2>1 DEF SagaInv, ProfileOwner, TypeOK
  <2>3. AccountOwner' /\ AccountHeld'
    BY <1>1, <1>2, <2>1 DEF SagaInv, AccountOwner, AccountHeld, Holds, Moved, Step
  <2>4. ProfileOwner'
    BY <1>2, <2>2, OnboardingAssumption DEF SagaInv, ProfileOwner, Moved
  <2>5. ASSUME NEW q \in Req \ {r}, saga'[q].step \in Step
        PROVE  /\ saga'[q] = saga[q] /\ MailOf(q) \in Email
               /\ MailOf(q) = MailOf(r) \/ profile'[MailOf(q)] = profile[MailOf(q)]
    BY <1>2, <2>2, <2>5, Started DEF Moved
  <2>6. RowsFree'
    BY <1>2, <2>2, <2>5 DEF SagaInv, RowsFree, Moved, Step
  <2>7. RowsUndone'
    BY <1>2, <2>1, <2>2, <2>5, OnboardingAssumption DEF SagaInv, RowsUndone, Moved, Step
  <2>8. RowsEntered'
    BY <1>2, <2>2, <2>5 DEF SagaInv, RowsEntered, Moved, Step
  <2>9. ProfileHasAccount'
    BY <2>1, <2>2 DEF SagaInv, ProfileHasAccount
  <2>10. NoSilentOrphan'
    BY <1>2, <2>1, <2>2 DEF SagaInv, NoSilentOrphan, Moved
  <2>11. OwnerKeepsOrg'
    BY <1>2, <2>1, <2>2, OnboardingAssumption DEF SagaInv, OwnerKeepsOrg, Moved, TypeOK
  <2> QED
    BY <2>3, <2>4, <2>6, <2>7, <2>8, <2>9, <2>10, <2>11 DEF SagaInv
<1> QED
  BY <1>3, <1>4

\* The undo that looks up nobody in particular may close the organization of another
\* owner, and is recorded as the cause.
LEMMA UndoBlindStep ==
  ASSUME TypeOK, TypeOK', SagaInv, NEW r \in Req, UndoBlind(r)
  PROVE  SagaInv'
<1>1. saga[r] # New /\ saga[r].step = "blind"
  BY Started DEF UndoBlind, Step
<1>2. Moved(r, "done")
  BY <1>1, Moves DEF UndoBlind, GoTo, Moved, Step
<1>3. Remembers /\ UNCHANGED <<account, profile>>
  BY DEF UndoBlind, Blame, Remembers, TypeOK
<1>4. \A q \in Req : (org[q] = "active" /\ q \in member)
                       => (org'[q] = "active" /\ q \in member') \/ "misdirected" \in cause'[q]
  BY DEF UndoBlind, Blame, TypeOK
<1>5. profile[MailOf(r)] = r
  BY <1>1 DEF SagaInv, RowsEntered
<1>6. AccountOwner' /\ AccountHeld' /\ ProfileOwner'
  BY <1>1, <1>2, <1>3 DEF SagaInv, AccountOwner, AccountHeld, ProfileOwner, Holds, Moved
<1>7. RowsFree' /\ RowsUndone' /\ RowsEntered'
  BY <1>2, <1>3 DEF SagaInv, RowsFree, RowsUndone, RowsEntered, Moved, Remembers
<1>8. ProfileHasAccount'
  BY <1>3 DEF SagaInv, ProfileHasAccount, Remembers, TypeOK
<1>9. NoSilentOrphan'
  BY <1>2, <1>3, <1>5 DEF SagaInv, NoSilentOrphan, AccountOwner, Moved, Remembers
<1>10. OwnerKeepsOrg'
  BY <1>2, <1>3, <1>4 DEF SagaInv, OwnerKeepsOrg, Moved, Remembers
<1> QED
  BY <1>6, <1>7, <1>8, <1>9, <1>10 DEF SagaInv

\* The account that is deleted is the one r created; the row of r has gone before,
\* unless the answer of COMMIT was lost.
LEMMA DeleteAccountStep ==
  ASSUME TypeOK, TypeOK', SagaInv, NEW r \in Req, DeleteAccount(r)
  PROVE  SagaInv'
<1>1. saga[r] # New /\ saga[r].step = "drop" /\ MailOf(r) \in Email
  BY Started DEF DeleteAccount, Step
<1>2. Moved(r, "done")
  BY <1>1, Moves DEF DeleteAccount, GoTo, Moved, Step
<1>3. /\ account' = [account EXCEPT ![MailOf(r)] = NoOne]
      /\ UNCHANGED <<profile, org, member, cause>>
  BY DEF DeleteAccount
<1>4. account[MailOf(r)] = r
  BY <1>1 DEF SagaInv, AccountHeld, Holds, Step
<1>5. /\ account'[MailOf(r)] = NoOne
      /\ \A e \in Email \ {MailOf(r)} : account'[e] = account[e] /\ account[e] # r
  BY <1>1, <1>3, <1>4 DEF SagaInv, AccountOwner, TypeOK
<1>6. AccountOwner'
  BY <1>2, <1>5, OnboardingAssumption DEF SagaInv, AccountOwner, Moved
<1>7. AccountHeld'
  <2> SUFFICES ASSUME NEW q \in Req, Holds(q)'
               PROVE  account'[MailOf(q)'] = q
    BY DEF AccountHeld
  <2>1. q # r /\ saga'[q] = saga[q] /\ Holds(q) /\ MailOf(q) \in Email
    BY <1>2, Started DEF Moved, Holds
  <2>2. account[MailOf(q)] = q
    BY <2>1 DEF SagaInv, AccountHeld
  <2> QED
    BY <1>4, <1>5, <2>1, <2>2
<1>8. ProfileOwner' /\ RowsFree' /\ RowsUndone' /\ RowsEntered'
  BY <1>2, <1>3 DEF SagaInv, ProfileOwner, RowsFree, RowsUndone, RowsEntered, Moved
<1>9. ProfileHasAccount'
  <2> SUFFICES ASSUME NEW e \in Email, profile[e] # NoOne, account'[e] # profile[e]
               PROVE  "commit" \in cause[profile[e]]
    BY <1>3 DEF ProfileHasAccount
  <2>1. CASE e = MailOf(r) /\ profile[e] = r
    BY <1>1, <2>1 DEF SagaInv, RowsUndone
  <2>2. CASE ~ (e = MailOf(r) /\ profile[e] = r)
    BY <1>4, <1>5, <2>2 DEF SagaInv, ProfileHasAccount
  <2> QED
    BY <2>1, <2>2
<1>10. NoSilentOrphan' /\ OwnerKeepsOrg'
  BY <1>2, <1>3, <1>5, OnboardingAssumption DEF SagaInv, NoSilentOrphan, OwnerKeepsOrg, Moved
<1> QED
  BY <1>6, <1>7, <1>8, <1>9, <1>10 DEF SagaInv

\* Every step keeps the invariant.
LEMMA SagaStep ==
  ASSUME TypeOK, TypeOK', SagaInv, [Next]_vars
  PROVE  SagaInv'
<1>1. ASSUME NEW r \in Req, NEW e \in Email,
             (\E o \in Org : CheckTenant(r, e, o)) \/ StartOwner(r, e) \/ StartInvite(r, e)
      PROVE  SagaInv'
  <2>1. /\ saga[r] = New /\ UNCHANGED <<account, profile, org, member, cause>>
        /\ \A q \in Req \ {r} : saga'[q] = saga[q]
        /\ saga'[r].step \in {"create", "done"}
    BY <1>1 DEF CheckTenant, StartOwner, StartInvite, TypeOK
  <2>2. saga'[r] # New
    BY <2>1 DEF New
  <2> QED
    BY <2>1, <2>2, StartMove
<1>2. ASSUME NEW r \in Req, AccountRefused(r)
      PROVE  SagaInv'
  <2>1. saga[r] # New /\ saga[r].step = "create" /\ MailOf(r) \in Email
    BY <1>2, Started DEF AccountRefused, Step
  <2>2. Moved(r, "done") /\ Remembers /\ UNCHANGED <<account, profile, org, member>>
    BY <1>2, <2>1, Moves DEF AccountRefused, GoTo, Moved, Remembers, Step
  <2>3. account[MailOf(r)] # r
    BY <2>1 DEF SagaInv, AccountOwner
  <2> QED
    BY <2>1, <2>2, <2>3, QuietMove DEF Step
<1>3. ASSUME NEW r \in Req, SaveRows(r) \/ RefuseInvited(r)
      PROVE  SagaInv'
  <2>1. saga[r] # New /\ saga[r].step = "rows" /\ MailOf(r) \in Email
    BY <1>3, Started DEF SaveRows, RefuseInvited, Step
  <2>2. Remembers /\ UNCHANGED <<account, profile, org, member>>
    BY <1>3 DEF SaveRows, RefuseInvited, Remembers
  <2>3. profile[MailOf(r)] # r
    BY <2>1 DEF SagaInv, ProfileOwner
  <2>4. \E s \in {"mail", "commit", "undo"} :
          Moved(r, s) /\ (s # "undo" => profile[MailOf(r)] = NoOne)
    BY <1>3, <2>1, Moves DEF SaveRows, RefuseInvited, GoTo, Moved, Step
  <2> QED
    BY <2>1, <2>2, <2>3, <2>4, QuietMove DEF Step
<1>4. ASSUME NEW r \in Req, SendInvitation(r) \/ RollBack(r)
      PROVE  SagaInv'
  <2>1. saga[r] # New /\ saga[r].step \in {"mail", "commit"} /\ MailOf(r) \in Email
    BY <1>4, Started DEF SendInvitation, RollBack, Step
  <2>2. Remembers /\ UNCHANGED <<account, profile, org, member>>
    BY <1>4 DEF SendInvitation, RollBack, Remembers
  <2>3. profile[MailOf(r)] = NoOne
    BY <2>1 DEF SagaInv, RowsFree
  <2>4. \E s \in {"commit", "undo"} : Moved(r, s)
    BY <1>4, <2>1, Moves DEF SendInvitation, RollBack, GoTo, Moved, Step
  <2> QED
    BY <2>1, <2>2, <2>3, <2>4, QuietMove, OnboardingAssumption DEF Step
<1>5. ASSUME NEW r \in Req, SendVerification(r) \/ IssueToken(r)
      PROVE  SagaInv'
  <2>1. saga[r] # New /\ saga[r].step \in {"verify", "token"} /\ MailOf(r) \in Email
    BY <1>5, Started DEF SendVerification, IssueToken, Step
  <2>2. Remembers /\ UNCHANGED <<account, profile, org, member>>
    BY <1>5 DEF SendVerification, IssueToken, Remembers
  <2>3. profile[MailOf(r)] = r /\ IsOwner(r)
    BY <2>1 DEF SagaInv, RowsEntered
  <2>4. \E s \in {"token", "undo", "done", "blind"} : Moved(r, s)
    BY <1>5, <2>1, Moves DEF SendVerification, IssueToken, Moved, Step
  <2> QED
    BY <2>1, <2>2, <2>3, <2>4, QuietMove DEF Step
<1>6. ASSUME NEW r \in Req, UndoTenant(r)
      PROVE  SagaInv'
  <2>1. saga[r] # New /\ saga[r].step = "undo" /\ ~ IsOwner(r)
    BY <1>6, Started DEF UndoTenant, Step
  <2>2. Moved(r, "drop") /\ Remembers /\ UNCHANGED <<account, profile, org, member, cause>>
    BY <1>6, <2>1, Moves DEF UndoTenant, GoTo, Moved, Remembers, Step
  <2>3. profile[MailOf(r)] = r => "commit" \in cause[r]
    BY <2>1 DEF SagaInv, RowsUndone
  <2> QED
    BY <2>1, <2>2, <2>3, QuietMove DEF Step
<1>7. ASSUME NEW r \in Req, UndoOwnerFails(r) \/ DeleteAccountFails(r) \/ Crash(r)
      PROVE  SagaInv'
  <2>1. saga[r] # New /\ saga[r].step # "done"
    BY <1>7, Started DEF UndoOwnerFails, DeleteAccountFails, Crash, Step
  <2>2. Moved(r, "done") /\ UNCHANGED <<account, profile, org, member>>
    BY <1>7, <2>1, Moves DEF UndoOwnerFails, DeleteAccountFails, Crash, GoTo, Moved, Step
  <2>3. Remembers /\ cause'[r] \cap {"crash", "account", "stuck"} # {}
    <3>1. PICK c \in {"crash", "stuck"} : Blame(r, c)
      BY <1>7 DEF UndoOwnerFails, DeleteAccountFails, Crash
    <3>2. cause'[r] = cause[r] \cup {c} /\ \A q \in Req \ {r} : cause'[q] = cause[q]
      BY <3>1 DEF Blame, TypeOK
    <3> QED
      BY <3>2 DEF Remembers
  <2>4. CASE saga[r].step = "create"
    BY <2>1, <2>2, <2>3, <2>4, QuietMove DEF Step
  <2>5. CASE saga[r].step # "create"
    BY <2>1, <2>2, <2>3, <2>5, QuietMove DEF Step
  <2> QED
    BY <2>4, <2>5
<1>8. ASSUME UNCHANGED <<saga, account, profile, org, member, cause>>
      PROVE  SagaInv'
  BY <1>8 DEF SagaInv, AccountOwner, AccountHeld, Holds, ProfileOwner, RowsFree, RowsUndone,
     RowsEntered, ProfileHasAccount, NoSilentOrphan, OwnerKeepsOrg
<1>9. ASSUME NEW v \in Visit, Accept(v)
      PROVE  SagaInv'
  BY <1>8, <1>9 DEF Accept, OpenInvitation, MarkAccepted, SetPassword
<1>10. ASSUME NEW o \in Org \cup {NoOne}, ServeUser(o)
       PROVE  SagaInv'
  BY <1>8, <1>10 DEF ServeUser
<1>11. CASE UNCHANGED vars
  BY <1>8, <1>11 DEF vars
<1> QED
  BY <1>1, <1>2, <1>3, <1>4, <1>5, <1>6, <1>7, <1>9, <1>10, <1>11, CreateAccountStep, CommitStep,
     UndoOwnerStep, UndoBlindStep, DeleteAccountStep DEF Next, SignUp

\* The invariant holds throughout.
LEMMA SagaAlways == Spec => []SagaInv
<1>1. Init => SagaInv
  BY OnboardingAssumption DEF Init, New, SagaInv, AccountOwner, AccountHeld, Holds, ProfileOwner,
     RowsFree, RowsUndone, RowsEntered, ProfileHasAccount, NoSilentOrphan, OwnerKeepsOrg
<1> QED
  BY <1>1, SagaStep, Typing, PTL DEF Spec

\* No two sign-ups with one address are ever past createUser together.
THEOREM OneSignUpPerEmailAlways == Spec => []OneSignUpPerEmail
<1>1. SagaInv => OneSignUpPerEmail
  BY DEF SagaInv, AccountHeld, OneSignUpPerEmail
<1> QED
  BY <1>1, SagaAlways, PTL

\* A committed user can sign in, unless the answer of COMMIT was lost.
THEOREM ProfileHasAccountAlways == Spec => []ProfileHasAccount
<1>1. SagaInv => ProfileHasAccount
  BY DEF SagaInv
<1> QED
  BY <1>1, SagaAlways, PTL

\* A sign-up that ended leaves no account without a user, but for the named causes.
THEOREM NoSilentOrphanAlways == Spec => []NoSilentOrphan
<1>1. SagaInv => NoSilentOrphan
  BY DEF SagaInv
<1> QED
  BY <1>1, SagaAlways, PTL

\* An owner loses the organization only to an undo that looked up a null firebaseId.
THEOREM OwnerKeepsOrgAlways == Spec => []OwnerKeepsOrg
<1>1. SagaInv => OwnerKeepsOrg
  BY DEF SagaInv
<1> QED
  BY <1>1, SagaAlways, PTL

-----------------------------------------------------------------------------
(* Refinement.                                                              *)

\* Every step of the two stores is a step of the reservation, or none: createUser
\* claims, COMMIT enrols, the owner's undo withdraws, deleteUser releases.
LEMMA ReservationStep ==
  ASSUME TypeOK, SagaInv, [Next]_vars
  PROVE  [Reservation!Next]_(Reservation!vars)
<1> USE DEF Reservation!Next, Reservation!vars
<1>1. ASSUME NEW r \in Req, CreateAccount(r)
      PROVE  Reservation!Next
  <2>1. MailOf(r) \in Email
    BY <1>1, Started DEF CreateAccount, Step
  <2> QED
    BY <1>1, <2>1 DEF CreateAccount, Reservation!Claim
<1>2. ASSUME NEW r \in Req, Commit(r)
      PROVE  Reservation!Next
  <2>1. MailOf(r) \in Email /\ saga[r] # New /\ saga[r].step = "commit"
    BY <1>2, Started DEF Commit, Step
  <2>2. account[MailOf(r)] = r /\ profile[MailOf(r)] = NoOne
    BY <2>1 DEF SagaInv, AccountHeld, RowsFree, Holds, Step
  <2>3. Reservation!Enrol(MailOf(r))
    BY <1>2, <2>2, OnboardingAssumption DEF Commit, RowsAppear, Reservation!Enrol
  <2> QED
    BY <2>1, <2>3
<1>3. ASSUME NEW r \in Req, UndoOwner(r)
      PROVE  Reservation!Next \/ UNCHANGED <<account, profile>>
  <2>1. MailOf(r) \in Email /\ saga[r] # New /\ saga[r].step = "undo"
    BY <1>3, Started DEF UndoOwner, Step
  <2>2. account[MailOf(r)] = r
    BY <2>1 DEF SagaInv, AccountHeld, Holds, Step
  <2>3. CASE profile[MailOf(r)] = r
    BY <1>3, <2>1, <2>2, <2>3, OnboardingAssumption DEF UndoOwner, Reservation!Withdraw
  <2>4. CASE profile[MailOf(r)] # r
    BY <1>3, <2>4 DEF UndoOwner
  <2> QED
    BY <2>3, <2>4
<1>4. ASSUME NEW r \in Req, DeleteAccount(r)
      PROVE  Reservation!Next
  <2>1. MailOf(r) \in Email /\ saga[r] # New /\ saga[r].step = "drop"
    BY <1>4, Started DEF DeleteAccount, Step
  <2>2. account[MailOf(r)] = r
    BY <2>1 DEF SagaInv, AccountHeld, Holds, Step
  <2> QED
    BY <1>4, <2>1, <2>2, OnboardingAssumption DEF DeleteAccount, Reservation!Release
<1>5. ASSUME NEW r \in Req, SignUp(r),
             ~ (CreateAccount(r) \/ Commit(r) \/ UndoOwner(r) \/ DeleteAccount(r))
      PROVE  UNCHANGED <<account, profile>>
  BY <1>5 DEF SignUp, CheckTenant, StartOwner, StartInvite, AccountRefused, SaveRows,
     RefuseInvited, SendInvitation, RollBack, SendVerification, IssueToken, UndoTenant,
     UndoOwnerFails, UndoBlind, DeleteAccountFails, Crash
<1>6. ASSUME NEW v \in Visit, Accept(v)
      PROVE  UNCHANGED <<account, profile>>
  BY <1>6 DEF Accept, OpenInvitation, MarkAccepted, SetPassword
<1>7. ASSUME NEW o \in Org \cup {NoOne}, ServeUser(o)
      PROVE  UNCHANGED <<account, profile>>
  BY <1>7 DEF ServeUser
<1>8. CASE UNCHANGED vars
  BY <1>8 DEF vars
<1> HIDE DEF Reservation!Next
<1> QED
  BY <1>1, <1>2, <1>3, <1>4, <1>5, <1>6, <1>7, <1>8 DEF Next

\* Firebase and the database together implement one reservation per address.
THEOREM ReservationRefined == Spec => ReservationSpec
<1>1. Init => Reservation!Init
  BY DEF Init, Reservation!Init
<1> QED
  BY <1>1, ReservationStep, SagaAlways, Typing, PTL DEF Spec, ReservationSpec, Reservation!Spec

=============================================================================
