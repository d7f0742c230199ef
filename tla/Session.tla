-------------------------------- MODULE Session --------------------------------
(***************************************************************************)
(* Signing in and out of the portals, and the permissions of who is in.    *)
(* The authentication service is one object for all requests and keeps the *)
(* user of the request it works for in a field of its own, which another   *)
(* request may write while the first one waits.  A permission is answered  *)
(* from Redis for an hour, and behind it from a memo of the process that   *)
(* only a restart empties.                                                 *)
(***************************************************************************)
EXTENDS Naturals

CONSTANTS
  User,
  Portal,     \* users of a portal, whose tokens are cookies of the browser
  Checked,    \* of the landlords' or the tenants' portal, which ask for a verified address
  Mfa,        \* users who may have a second factor
  Member,     \* users whose claims name an organization
  Role,
  RoleOf,     \* the role of each member in it
  Request,    \* requests that may overlap
  NoUser,     \* the field before the first request
  TTL,        \* ticks a permission is cached, an hour
  MaxRevokes, \* bound on revocations of a user's tokens
  MaxChanges  \* bound on changes of the table of permissions

ASSUME SessionAssumption ==
  /\ Checked \subseteq Portal /\ Portal \subseteq User /\ Mfa \subseteq User
  /\ Member \subseteq User /\ RoleOf \in [Member -> Role]
  /\ NoUser \notin User
  /\ TTL \in Nat \ {0}
  /\ MaxRevokes \in Nat /\ MaxChanges \in Nat

VARIABLES
  verified,    \* users whose e-mail address is verified
  enrolled,    \* users who have a second factor
  jar,         \* the tokens a user's client holds
  epoch,       \* tokens of a user from before this are revoked
  currentUser, \* the field of the service
  task,        \* what each request is doing
  granted,     \* roles the table gives the permission to
  memo,        \* roleFeaturePermissionLoader, per role
  perm,        \* the cached permission of each member
  changes      \* changes of the table, bounded

accounts == <<verified, enrolled, jar, epoch>>
rights == <<granted, memo, perm, changes>>
vars ==
  <<verified, enrolled, jar, epoch, currentUser, task, granted, memo, perm, changes>>

-----------------------------------------------------------------------------

\* A client without tokens; `otp' is the cookie of a sign-in that waits for the second factor.
\* An ID token and the refresh token it came with stand or fall together, but for `live',
\* which the hour of the ID token and of its cookie ends.
SignedOut == [token |-> 0, live |-> FALSE, otp |-> FALSE]
Epoch == 1..MaxRevokes + 1

NoEntry == [val |-> "unknown", left |-> 0]
Answer(b) == IF b THEN "yes" ELSE "no"

Idle == [at |-> "idle"]
Task == {Idle}
  \cup [at : {"forget", "revoke", "out"}, user : User, token : Epoch, raced : BOOLEAN]
  \cup [at : {"read"}, user : User, raced : BOOLEAN]
  \cup [at : {"told"}, user : User, who : User, raced : BOOLEAN]
  \cup [at : {"check"}, user : Member]
  \cup [at : {"set"}, user : Member, val : {"yes", "no"}]

TypeOK ==
  /\ verified \in SUBSET User /\ enrolled \in SUBSET Mfa
  /\ jar \in [User -> [token : 0..MaxRevokes + 1, live : BOOLEAN, otp : BOOLEAN]]
  /\ \A u \in User : /\ jar[u].live => jar[u].token > 0
                     /\ jar[u].token > 0 /\ u \in Checked => u \in verified
                     /\ jar[u].otp => u \in enrolled
  /\ epoch \in [User -> Epoch]
  /\ currentUser \in User \cup {NoUser}
  /\ task \in [Request -> Task]
  /\ granted \in SUBSET Role
  /\ memo \in [Role -> {"unknown", "yes", "no"}]
  /\ perm \in [Member -> [val : {"unknown", "yes", "no"}, left : 0..TTL]]
  /\ \A u \in Member : perm[u].left = 0 <=> perm[u] = NoEntry
  /\ changes \in 0..MaxChanges

\* Firebase lets users with a verified address enrol a second factor; the API has no part in
\* it.
Init ==
  /\ verified \in SUBSET User
  /\ enrolled \in SUBSET (Mfa \cap verified)
  /\ jar = [u \in User |-> SignedOut]
  /\ epoch = [u \in User |-> 1]
  /\ currentUser = NoUser
  /\ task = [r \in Request |-> Idle]
  /\ granted \in SUBSET Role
  /\ memo = [x \in Role |-> "unknown"]
  /\ perm = [u \in Member |-> NoEntry]
  /\ changes = 0

-----------------------------------------------------------------------------
(* Signing in.                                                             *)

Hold(u, t) == jar' = [jar EXCEPT ![u] = t]
Tokens(u) == [token |-> epoch[u], live |-> TRUE, otp |-> jar[u].otp]

\* VerifyEmail: the code mailed to the user comes back.
VerifyEmail(u) ==
  /\ u \notin verified
  /\ verified' = verified \cup {u}
  /\ UNCHANGED <<enrolled, jar, epoch, currentUser, task, rights>>

\* Mutant: a sign-in of an unverified address gets its tokens from every client.
SignInUnverified(u) ==
  /\ u \notin enrolled
  /\ Hold(u, Tokens(u))
  /\ UNCHANGED <<verified, enrolled, epoch, currentUser, task, rights>>

\* POST /auth/signin of a user without a second factor.  The landlords' and the tenants'
\* portal answer an unverified address with an error and mail it another code; to the other
\* clients that are let in, the administrators' portal among them, it makes no difference.
SignIn(u) ==
  /\ u \notin enrolled
  /\ u \in Checked => u \in verified
  /\ Hold(u, Tokens(u))
  /\ UNCHANGED <<verified, enrolled, epoch, currentUser, task, rights>>

\* With a second factor there is no token yet, and the address is not looked at.
AskSecondFactor(u) ==
  /\ u \in enrolled
  /\ Hold(u, [jar[u] EXCEPT !.otp = TRUE])
  /\ UNCHANGED <<verified, enrolled, epoch, currentUser, task, rights>>

\* POST /auth/mfa/verify-otp: the code is right.  The cookies of the pending sign-in stay.
VerifyMfaOtp(u) ==
  /\ jar[u].otp
  /\ Hold(u, Tokens(u))
  /\ UNCHANGED <<verified, enrolled, epoch, currentUser, task, rights>>

\* The fifteen minutes of a pending sign-in, or the hour of the ID token and its cookie.
OtpExpires(u) ==
  /\ jar[u].otp
  /\ Hold(u, [jar[u] EXCEPT !.otp = FALSE])
  /\ UNCHANGED <<verified, enrolled, epoch, currentUser, task, rights>>

TokenExpires(u) ==
  /\ jar[u].live
  /\ Hold(u, [jar[u] EXCEPT !.live = FALSE])
  /\ UNCHANGED <<verified, enrolled, epoch, currentUser, task, rights>>

\* POST /auth/exchange-refresh-token: a token from before the last revocation is refused.
ExchangeRefreshToken(u) ==
  /\ jar[u].token = epoch[u]
  /\ Hold(u, Tokens(u))
  /\ UNCHANGED <<verified, enrolled, epoch, currentUser, task, rights>>

\* The cookies of a portal are cleared before the exchange is tried, so that any failure of it
\* signs the browser out; other clients keep what they hold.
ExchangeFails(u) ==
  /\ jar[u].token > 0 /\ u \in Portal
  /\ Hold(u, [SignedOut EXCEPT !.otp = jar[u].otp])
  /\ UNCHANGED <<verified, enrolled, epoch, currentUser, task, rights>>

-----------------------------------------------------------------------------
(* Requests of who is in.                                                  *)

\* FirebaseAuthGuard: an ID token that is neither expired nor revoked, of a verified address
\* or not.
Admitted(u) == jar[u].live /\ jar[u].token = epoch[u]

Free(r) == task[r].at \in {"idle", "out", "told"}
Go(r, t) == task' = [task EXCEPT ![r] = t]

UsesField == {"forget", "revoke", "read"}

\* A request of u sets the field and waits; others that still count on it have been raced.
Enter(r, u, t) ==
  /\ Free(r) /\ Admitted(u)
  /\ currentUser' = u
  /\ task' = [q \in Request |->
       IF q = r THEN t
       ELSE IF task[q].at \in UsesField /\ task[q].user # u THEN [task[q] EXCEPT !.raced = TRUE]
       ELSE task[q]]
  /\ UNCHANGED <<accounts, rights>>

SignOut(r, u) ==
  Enter(r, u, [at |-> "forget", user |-> u, token |-> jar[u].token, raced |-> FALSE])

GetUserInfo(r, u) == Enter(r, u, [at |-> "read", user |-> u, raced |-> FALSE])

\* invalidateCache: the keys of the user in its organization, both taken before the first wait.
Forget(r) ==
  /\ task[r].at = "forget"
  /\ perm' = [u \in Member |-> IF u = task[r].user THEN NoEntry ELSE perm[u]]
  /\ Go(r, [task[r] EXCEPT !.at = "revoke"])
  /\ UNCHANGED <<accounts, currentUser, granted, memo, changes>>

\* Mutant: the cookies are cleared and the tokens live on.
ClearOnly(r, lost) ==
  /\ task[r].at = "revoke" /\ epoch[currentUser] <= MaxRevokes
  /\ jar' = IF lost \/ task[r].user \notin Portal THEN jar
            ELSE [jar EXCEPT ![task[r].user] = [SignedOut EXCEPT !.otp = jar[task[r].user].otp]]
  /\ Go(r, [task[r] EXCEPT !.at = "out"])
  /\ UNCHANGED <<verified, enrolled, epoch, currentUser, rights>>

\* revokeRefreshTokens reads the field again.  The answer clears the cookies of a portal,
\* unless it is lost on its way.
Revoke(r, lost) ==
  /\ task[r].at = "revoke" /\ epoch[currentUser] <= MaxRevokes
  /\ epoch' = [epoch EXCEPT ![currentUser] = @ + 1]
  /\ jar' = IF lost \/ task[r].user \notin Portal THEN jar
            ELSE [jar EXCEPT ![task[r].user] = [SignedOut EXCEPT !.otp = jar[task[r].user].otp]]
  /\ Go(r, [task[r] EXCEPT !.at = "out"])
  /\ UNCHANGED <<verified, enrolled, currentUser, rights>>

\* getOrgUserInfo and getTenantUserInfo: the key they read is never the key they set, so the
\* details always come from the database, of whom the field names by then.
GetLoginUserDetails(r) ==
  /\ task[r].at = "read"
  /\ Go(r, [at |-> "told", user |-> task[r].user, who |-> currentUser, raced |-> task[r].raced])
  /\ UNCHANGED <<accounts, currentUser, rights>>

\* A call fails, and the request with it.
Fail(r) ==
  /\ ~Free(r)
  /\ Go(r, Idle)
  /\ UNCHANGED <<accounts, currentUser, rights>>

-----------------------------------------------------------------------------
(* Permissions.                                                            *)

\* RolesGuard and hasPermission, with nothing in the cache; a cached answer changes nothing.
Ask(r, u) ==
  /\ u \in Member /\ Free(r) /\ Admitted(u) /\ perm[u].left = 0
  /\ Go(r, [at |-> "check", user |-> u])
  /\ UNCHANGED <<accounts, currentUser, rights>>

\* checkPermission: the role, and the memo before the table.
CheckPermission(r) ==
  /\ task[r].at = "check"
  /\ LET x == RoleOf[task[r].user]
         v == IF memo[x] = "unknown" THEN Answer(x \in granted) ELSE memo[x]
     IN /\ memo' = [memo EXCEPT ![x] = v]
        /\ Go(r, [at |-> "set", user |-> task[r].user, val |-> v])
  /\ UNCHANGED <<accounts, currentUser, granted, perm, changes>>

SetPermission(r) ==
  /\ task[r].at = "set"
  /\ perm' = [perm EXCEPT ![task[r].user] = [val |-> task[r].val, left |-> TTL]]
  /\ Go(r, Idle)
  /\ UNCHANGED <<accounts, currentUser, granted, memo, changes>>

\* The table is changed by hand: no operation of the API writes it.
Change(x) ==
  /\ changes < MaxChanges
  /\ granted' = IF x \in granted THEN granted \ {x} ELSE granted \cup {x}
  /\ changes' = changes + 1
  /\ UNCHANGED <<accounts, currentUser, task, memo, perm>>

\* Mutant: what is allowed is cached for good.
AgedButYes(e) ==
  IF e.val = "yes" THEN e ELSE IF e.left <= 1 THEN NoEntry ELSE [e EXCEPT !.left = e.left - 1]

Aged(e) == IF e.left <= 1 THEN NoEntry ELSE [e EXCEPT !.left = e.left - 1]

Tick ==
  /\ perm' = [u \in Member |-> Aged(perm[u])]
  /\ UNCHANGED <<accounts, currentUser, task, granted, memo, changes>>

\* The process ends and starts again.
Restart ==
  /\ task' = [r \in Request |-> Idle]
  /\ currentUser' = NoUser
  /\ memo' = [x \in Role |-> "unknown"]
  /\ UNCHANGED <<accounts, granted, perm, changes>>

-----------------------------------------------------------------------------

ClientStep(u) ==
  \/ VerifyEmail(u) \/ SignIn(u) \/ AskSecondFactor(u) \/ VerifyMfaOtp(u)
  \/ OtpExpires(u) \/ TokenExpires(u) \/ ExchangeRefreshToken(u) \/ ExchangeFails(u)

RequestStep(r) ==
  \/ \E u \in User : SignOut(r, u) \/ GetUserInfo(r, u) \/ Ask(r, u)
  \/ Forget(r) \/ (\E lost \in BOOLEAN : Revoke(r, lost))
  \/ GetLoginUserDetails(r) \/ CheckPermission(r) \/ SetPermission(r) \/ Fail(r)

Next ==
  \/ \E u \in User : ClientStep(u)
  \/ \E r \in Request : RequestStep(r)
  \/ \E x \in Role : Change(x)
  \/ Tick \/ Restart

Spec == Init /\ [][Next]_vars

\* Time passes.
FairSpec == Spec /\ WF_vars(Tick)

-----------------------------------------------------------------------------
(* What is expected of them.                                               *)

\* Who signed out with success is out, with every token from before, and who asks for its own
\* details gets its own: unless a request of somebody else set the field in the meantime.
OwnUnlessRaced ==
  \A r \in Request :
    /\ task[r].at = "out" /\ ~task[r].raced => epoch[task[r].user] > task[r].token
    /\ task[r].at = "told" /\ ~task[r].raced => task[r].who = task[r].user

\* What the memo knows of a role is what the table says.
MemoHonest(x) == memo[x] \in {"unknown", Answer(x \in granted)}

\* Once the table and the memo agree for good, which takes a restart after a change of what
\* the memo knew, the cached permissions of the role's users come to agree as well.
PermissionsSettle ==
  \A u \in Member :
    <>[]MemoHonest(RoleOf[u]) =>
      <>[](perm[u].left > 0 => perm[u].val = Answer(RoleOf[u] \in granted))
================================================================================
