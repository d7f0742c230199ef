----------------------------- MODULE SessionProofs -----------------------------
(* Proofs about Session, for any users, portals, roles and requests, and    *)
(* any bounds on revocations and changes.                                   *)
EXTENDS Session, TLAPS

USE DEF Free, Go, Hold, UsesField

-----------------------------------------------------------------------------
(* Types.  That the field is set whenever a request counts on it is part of *)
(* them, because a request may index by what it finds there; and so is that *)
(* a second factor takes a verified address, because who signs in with one  *)
(* is not asked about the address.                                          *)

FieldSet == \A r \in Request : task[r].at \in UsesField => currentUser \in User

Types == TypeOK /\ enrolled \subseteq verified /\ FieldSet

Jar == [token : 0..MaxRevokes + 1, live : BOOLEAN, otp : BOOLEAN]
Leaving == [at : {"forget", "revoke", "out"}, user : User, token : Epoch, raced : BOOLEAN]
Reading == [at : {"read"}, user : User, raced : BOOLEAN]
Told == [at : {"told"}, user : User, who : User, raced : BOOLEAN]
Checking == [at : {"check"}, user : Member]
Setting == [at : {"set"}, user : Member, val : {"yes", "no"}]

\* What a request is doing, told by where it is.
LEMMA TaskType ==
  ASSUME TypeOK, NEW r \in Request
  PROVE  /\ task[r] \in Task
         /\ task[r].at \in {"forget", "revoke", "out"} => task[r] \in Leaving
         /\ task[r].at = "read" => task[r] \in Reading
         /\ task[r].at = "told" => task[r] \in Told
         /\ task[r].at = "check" => task[r] \in Checking
         /\ task[r].at = "set" => task[r] \in Setting
BY DEF TypeOK, Task, Idle, Leaving, Reading, Told, Checking, Setting

\* What clearing the cookies of a portal leaves: at most the pending sign-in.
LEMMA Cleared ==
  ASSUME NEW b \in BOOLEAN
  PROVE  /\ [SignedOut EXCEPT !.otp = b] \in Jar
         /\ [SignedOut EXCEPT !.otp = b].token = 0
         /\ ~ [SignedOut EXCEPT !.otp = b].live
         /\ [SignedOut EXCEPT !.otp = b].otp = b
<1>1. SignedOut \in Jar /\ SignedOut.token = 0 /\ ~ SignedOut.live
  BY SessionAssumption DEF SignedOut, Jar
<1>2. /\ [SignedOut EXCEPT !.otp = b] \in Jar
      /\ [SignedOut EXCEPT !.otp = b].token = SignedOut.token
      /\ [SignedOut EXCEPT !.otp = b].live = SignedOut.live
      /\ [SignedOut EXCEPT !.otp = b].otp = b
  BY <1>1 DEF Jar
<1> QED
  BY <1>1, <1>2

LEMMA InitTypes == Init => Types
<1> SUFFICES ASSUME Init PROVE Types
  OBVIOUS
<1>1. /\ SignedOut \in Jar /\ SignedOut.token = 0 /\ ~ SignedOut.live /\ ~ SignedOut.otp
      /\ 1 \in Epoch
  BY SessionAssumption DEF SignedOut, Jar, Epoch
<1>2. Idle \in Task /\ Idle.at = "idle"
  BY DEF Task, Idle
<1>3. NoEntry \in [val : {"unknown", "yes", "no"}, left : 0..TTL] /\ NoEntry.left = 0
  BY SessionAssumption DEF NoEntry
<1>4. jar \in [User -> Jar] /\ \A u \in User : jar[u] = SignedOut
  BY <1>1 DEF Init
<1>5. TypeOK
  BY <1>1, <1>2, <1>3, <1>4, SessionAssumption DEF Init, TypeOK, Jar
<1> QED
  BY <1>1, <1>2, <1>4, <1>5, SessionAssumption DEF Init, Types, FieldSet

\* What a client may come to hold: nothing of its own making.
LEMMA HoldTypes ==
  ASSUME Types, NEW u \in User, NEW j \in Jar, Hold(u, j),
         j.live => j.token > 0, j.token > 0 /\ u \in Checked => u \in verified,
         j.otp => u \in enrolled,
         UNCHANGED <<verified, enrolled, epoch, currentUser, task, rights>>
  PROVE  Types'
<1>1. jar' \in [User -> Jar]
  BY DEF Types, TypeOK, Jar
<1>2. \A v \in User \ {u} : jar'[v] = jar[v]
  BY DEF Types, TypeOK
<1>3. jar'[u] = j
  BY DEF Types, TypeOK
<1>4. TypeOK'
  BY <1>1, <1>2, <1>3 DEF Types, TypeOK, Jar, rights, Epoch
<1> QED
  BY <1>2, <1>3, <1>4 DEF Types, FieldSet, rights

LEMMA ClientTypes ==
  ASSUME Types, NEW u \in User, ClientStep(u)
  PROVE  Types'
<1> USE DEF Types
<1>1. /\ jar[u] \in Jar
      /\ jar[u].live => jar[u].token > 0
      /\ jar[u].token > 0 /\ u \in Checked => u \in verified
      /\ jar[u].otp => u \in enrolled
      /\ epoch[u] \in 1..MaxRevokes + 1
  BY DEF TypeOK, Jar, Epoch
<1>2. /\ Tokens(u) \in Jar /\ Tokens(u).token = epoch[u] /\ Tokens(u).otp = jar[u].otp
      /\ epoch[u] > 0
  BY <1>1, SessionAssumption DEF Tokens, Jar
<1>3. CASE VerifyEmail(u)
  BY <1>3 DEF VerifyEmail, TypeOK, FieldSet, rights, Epoch
<1>4. CASE SignIn(u)
  BY <1>1, <1>2, <1>4, HoldTypes DEF SignIn
<1>5. CASE AskSecondFactor(u)
  <2>1. /\ [jar[u] EXCEPT !.otp = TRUE] \in Jar
        /\ [jar[u] EXCEPT !.otp = TRUE].token = jar[u].token
        /\ [jar[u] EXCEPT !.otp = TRUE].live = jar[u].live
    BY <1>1 DEF Jar
  <2> QED
    BY <1>1, <1>5, <2>1, HoldTypes DEF AskSecondFactor
<1>6. CASE VerifyMfaOtp(u)
  BY <1>1, <1>2, <1>6, HoldTypes DEF VerifyMfaOtp
<1>7. CASE OtpExpires(u)
  <2>1. /\ [jar[u] EXCEPT !.otp = FALSE] \in Jar
        /\ [jar[u] EXCEPT !.otp = FALSE].token = jar[u].token
        /\ [jar[u] EXCEPT !.otp = FALSE].live = jar[u].live
        /\ [jar[u] EXCEPT !.otp = FALSE].otp = FALSE
    BY <1>1 DEF Jar
  <2> QED
    BY <1>1, <1>7, <2>1, HoldTypes DEF OtpExpires
<1>8. CASE TokenExpires(u)
  <2>1. /\ [jar[u] EXCEPT !.live = FALSE] \in Jar
        /\ [jar[u] EXCEPT !.live = FALSE].token = jar[u].token
        /\ [jar[u] EXCEPT !.live = FALSE].otp = jar[u].otp
        /\ [jar[u] EXCEPT !.live = FALSE].live = FALSE
    BY <1>1 DEF Jar
  <2> QED
    BY <1>1, <1>8, <2>1, HoldTypes DEF TokenExpires
<1>9. CASE ExchangeRefreshToken(u)
  <2>1. u \in Checked => u \in verified
    BY <1>1, <1>2, <1>9 DEF ExchangeRefreshToken
  <2> QED
    BY <1>1, <1>2, <1>9, <2>1, HoldTypes DEF ExchangeRefreshToken
<1>10. CASE ExchangeFails(u)
  <2>1. jar[u].otp \in BOOLEAN
    BY <1>1 DEF Jar
  <2> QED
    <3> DEFINE j == [SignedOut EXCEPT !.otp = jar[u].otp]
    <3>1. j \in Jar /\ j.token = 0 /\ ~ j.live /\ j.otp = jar[u].otp
      BY <2>1, Cleared DEF j
    <3>2. /\ Hold(u, j)
          /\ UNCHANGED <<verified, enrolled, epoch, currentUser, task, rights>>
      BY <1>10 DEF ExchangeFails, j
    <3> HIDE DEF j
    <3>3. j.otp => u \in enrolled
      BY <1>1, <3>1, Zenon
    <3>4. ~ (j.token > 0)
      BY <3>1
    <3> QED
      BY <3>1, <3>2, <3>3, <3>4, HoldTypes
<1> QED
  BY <1>3, <1>4, <1>5, <1>6, <1>7, <1>8, <1>9, <1>10 DEF ClientStep

\* A request goes on; of the rest at most rights change, within their types.
LEMMA GoTypes ==
  ASSUME Types, NEW r \in Request, NEW x \in Task, Go(r, x),
         UNCHANGED <<accounts, currentUser, granted, changes>>,
         memo' \in [Role -> {"unknown", "yes", "no"}],
         perm' \in [Member -> [val : {"unknown", "yes", "no"}, left : 0..TTL]],
         \A u \in Member : perm'[u].left = 0 <=> perm'[u] = NoEntry,
         x.at \in UsesField => task[r].at \in UsesField
  PROVE  Types'
<1>1. task' \in [Request -> Task]
  BY DEF Types, TypeOK
<1>2. TypeOK'
  BY <1>1 DEF Types, TypeOK, accounts, NoEntry
<1>3. FieldSet'
  BY DEF Types, TypeOK, FieldSet
<1> QED
  BY <1>2, <1>3 DEF Types, accounts

\* A request enters and sets the field.
LEMMA EnterTypes ==
  ASSUME Types, NEW r \in Request, NEW u \in User, NEW x \in Task, Enter(r, u, x)
  PROVE  Types'
<1>1. ASSUME NEW q \in Request
      PROVE  task'[q] \in Task
  <2>1. CASE q = r
    BY <2>1 DEF Enter
  <2>2. CASE q # r /\ task[q].at \in UsesField /\ task[q].user # u
    <3>1. task'[q] = [task[q] EXCEPT !.raced = TRUE]
      BY <2>2 DEF Enter
    <3>2. task[q] \in Leaving \/ task[q] \in Reading
      BY <2>2, TaskType DEF Types
    <3> QED
      BY <3>1, <3>2 DEF Leaving, Reading, Task
  <2>3. CASE q # r /\ ~ (task[q].at \in UsesField /\ task[q].user # u)
    BY <2>3, TaskType DEF Enter, Types
  <2> QED
    BY <2>1, <2>2, <2>3
<1>2. task' \in [Request -> Task]
  BY <1>1 DEF Enter
<1>3. TypeOK'
  BY <1>2 DEF Enter, Types, TypeOK, accounts, rights, NoEntry
<1> QED
  BY <1>3 DEF Enter, Types, FieldSet, accounts

LEMMA RevokeTypes ==
  ASSUME Types, NEW r \in Request, NEW lost \in BOOLEAN, Revoke(r, lost)
  PROVE  Types'
<1> DEFINE out == [SignedOut EXCEPT !.otp = jar[task[r].user].otp]
<1>1. task[r] \in Leaving /\ task[r].at = "revoke" /\ currentUser \in User
  BY TaskType DEF Revoke, Types, FieldSet
<1>2. [task[r] EXCEPT !.at = "out"] \in Task /\ [task[r] EXCEPT !.at = "out"].at = "out"
  BY <1>1 DEF Leaving, Task
<1>3. task[r].user \in User /\ jar[task[r].user] \in Jar
  BY <1>1 DEF Leaving, Types, TypeOK, Jar
<1>4. out \in Jar /\ out.token = 0 /\ ~ out.live /\ out.otp = jar[task[r].user].otp
  BY <1>3, Cleared DEF Jar
<1> HIDE DEF out
<1>5. jar' = jar \/ jar' = [jar EXCEPT ![task[r].user] = out]
  BY DEF Revoke, out
<1>6. /\ jar' \in [User -> Jar]
      /\ \A u \in User : \/ jar'[u] = jar[u]
                         \/ jar'[u] = out /\ out.otp = jar[u].otp
  BY <1>3, <1>4, <1>5 DEF Types, TypeOK, Jar
<1>7. /\ jar' \in [User -> [token : 0..MaxRevokes + 1, live : BOOLEAN, otp : BOOLEAN]]
      /\ \A u \in User : /\ jar'[u].live => jar'[u].token > 0
                         /\ jar'[u].token > 0 /\ u \in Checked => u \in verified
                         /\ jar'[u].otp => u \in enrolled
  BY <1>4, <1>6 DEF Types, TypeOK, Jar
<1>8. epoch' \in [User -> Epoch]
  BY <1>1, SessionAssumption DEF Revoke, Types, TypeOK, Epoch
<1>9. task' \in [Request -> Task]
  BY <1>2 DEF Revoke, Types, TypeOK
<1>10. TypeOK'
  BY <1>7, <1>8, <1>9 DEF Revoke, Types, TypeOK, rights, NoEntry
<1> QED
  BY <1>1, <1>2, <1>7, <1>10 DEF Revoke, Types, TypeOK, FieldSet

LEMMA RequestTypes ==
  ASSUME Types, NEW r \in Request, RequestStep(r)
  PROVE  Types'
<1> USE DEF Types
<1>1. Idle \in Task /\ Idle.at = "idle"
  BY DEF Task, Idle
<1>2. ASSUME NEW u \in User, SignOut(r, u) PROVE Types'
  <2>1. [at |-> "forget", user |-> u, token |-> jar[u].token, raced |-> FALSE] \in Task
    <3>1. jar[u].token \in Epoch
      BY <1>2 DEF SignOut, Enter, Admitted, TypeOK
    <3> QED
      BY <3>1 DEF Task
  <2> QED
    BY <1>2, <2>1, EnterTypes DEF SignOut
<1>3. ASSUME NEW u \in User, GetUserInfo(r, u) PROVE Types'
  <2>1. [at |-> "read", user |-> u, raced |-> FALSE] \in Task
    BY DEF Task
  <2> QED
    BY <1>3, <2>1, EnterTypes DEF GetUserInfo
<1>4. ASSUME NEW u \in User, Ask(r, u) PROVE Types'
  <2>1. [at |-> "check", user |-> u] \in Task
    BY <1>4 DEF Ask, Task
  <2> QED
    BY <1>4, <2>1, GoTypes DEF Ask, TypeOK, rights
<1>5. CASE Forget(r)
  <2>1. task[r] \in Leaving
    BY <1>5, TaskType DEF Forget
  <2>2. [task[r] EXCEPT !.at = "revoke"] \in Task
    BY <2>1 DEF Leaving, Task
  <2>3. /\ perm' \in [Member -> [val : {"unknown", "yes", "no"}, left : 0..TTL]]
        /\ \A u \in Member : perm'[u].left = 0 <=> perm'[u] = NoEntry
    BY <1>5, SessionAssumption DEF Forget, TypeOK, NoEntry
  <2> QED
    BY <1>5, <2>2, <2>3, GoTypes DEF Forget, TypeOK
<1>6. CASE GetLoginUserDetails(r)
  <2>1. task[r] \in Reading /\ currentUser \in User
    BY <1>6, TaskType DEF GetLoginUserDetails, FieldSet
  <2>2. [at |-> "told", user |-> task[r].user, who |-> currentUser, raced |-> task[r].raced]
          \in Task
    BY <2>1 DEF Reading, Task
  <2> QED
    BY <1>6, <2>2, GoTypes DEF GetLoginUserDetails, TypeOK, rights
<1>7. CASE CheckPermission(r)
  <2>1. task[r] \in Checking
    BY <1>7, TaskType DEF CheckPermission
  <2> DEFINE x == RoleOf[task[r].user]
             v == IF memo[x] = "unknown" THEN Answer(x \in granted) ELSE memo[x]
  <2>2. x \in Role
    BY <2>1, SessionAssumption DEF Checking
  <2>3. v \in {"yes", "no"}
    BY <2>2 DEF Answer, TypeOK
  <2>4. [at |-> "set", user |-> task[r].user, val |-> v] \in Task
    BY <2>1, <2>3 DEF Checking, Task
  <2>5. memo' \in [Role -> {"unknown", "yes", "no"}]
    BY <1>7, <2>3 DEF CheckPermission, TypeOK
  <2> QED
    BY <1>7, <2>4, <2>5, GoTypes DEF CheckPermission, TypeOK
<1>8. CASE SetPermission(r)
  <2>1. task[r] \in Setting
    BY <1>8, TaskType DEF SetPermission
  <2>2. [val |-> task[r].val, left |-> TTL] \in [val : {"unknown", "yes", "no"}, left : 0..TTL]
    BY <2>1, SessionAssumption DEF Setting
  <2>3. [val |-> task[r].val, left |-> TTL].left # 0
    BY SessionAssumption
  <2>4. NoEntry.left = 0
    BY DEF NoEntry
  <2>5. /\ perm' \in [Member -> [val : {"unknown", "yes", "no"}, left : 0..TTL]]
        /\ \A u \in Member : perm'[u].left = 0 <=> perm'[u] = NoEntry
    BY <1>8, <2>2, <2>3, <2>4 DEF SetPermission, TypeOK
  <2> QED
    BY <1>1, <1>8, <2>5, GoTypes DEF SetPermission, TypeOK
<1>9. CASE Fail(r)
  BY <1>1, <1>9, GoTypes DEF Fail, TypeOK, rights
<1> QED
  BY <1>2, <1>3, <1>4, <1>5, <1>6, <1>7, <1>8, <1>9, RevokeTypes DEF RequestStep

LEMMA StepTypes == Types /\ [Next]_vars => Types'
<1> SUFFICES ASSUME Types, [Next]_vars PROVE Types'
  OBVIOUS
<1> USE DEF Types
<1>1. CASE UNCHANGED vars
  BY <1>1 DEF vars, accounts, rights, TypeOK, FieldSet
<1>2. ASSUME NEW x \in Role, Change(x) PROVE Types'
  <2>1. changes' \in 0..MaxChanges
    BY <1>2, SessionAssumption DEF Change, TypeOK
  <2>2. granted' \in SUBSET Role
    BY <1>2 DEF Change, TypeOK
  <2> QED
    BY <1>2, <2>1, <2>2 DEF Change, TypeOK, FieldSet, accounts, NoEntry
<1>3. CASE Tick
  <2>1. ASSUME NEW u \in Member
        PROVE  /\ Aged(perm[u]) \in [val : {"unknown", "yes", "no"}, left : 0..TTL]
               /\ Aged(perm[u]).left = 0 <=> Aged(perm[u]) = NoEntry
    <3>1. perm[u] \in [val : {"unknown", "yes", "no"}, left : 0..TTL]
      BY DEF TypeOK
    <3>2. NoEntry \in [val : {"unknown", "yes", "no"}, left : 0..TTL] /\ NoEntry.left = 0
      BY SessionAssumption DEF NoEntry
    <3>3. CASE perm[u].left <= 1
      BY <3>2, <3>3 DEF Aged
    <3>4. CASE ~ (perm[u].left <= 1)
      <4>1. /\ Aged(perm[u]) = [perm[u] EXCEPT !.left = perm[u].left - 1]
            /\ Aged(perm[u]).left = perm[u].left - 1
            /\ Aged(perm[u]) \in [val : {"unknown", "yes", "no"}, left : 0..TTL]
        BY <3>1, <3>4, SessionAssumption DEF Aged
      <4> QED
        BY <3>1, <3>2, <3>4, <4>1, SessionAssumption
    <3> QED
      BY <3>3, <3>4
  <2>2. TypeOK'
    BY <1>3, <2>1 DEF Tick, TypeOK, accounts
  <2> QED
    BY <1>3, <2>2 DEF Tick, FieldSet, accounts
<1>4. CASE Restart
  <2>1. Idle \in Task /\ Idle.at = "idle"
    BY DEF Task, Idle
  <2> QED
    BY <1>4, <2>1 DEF Restart, TypeOK, FieldSet, accounts, NoEntry
<1> QED
  BY <1>1, <1>2, <1>3, <1>4, ClientTypes, RequestTypes DEF Next

LEMMA TypesAlways == Spec => []Types
BY InitTypes, StepTypes, PTL DEF Spec

\* Tokens, requests and permissions stay well formed, and the portals of landlords and tenants
\* hold no tokens of a user whose address is not verified: neither a second factor nor an
\* exchange of refresh tokens, which do not look at it, gets around it.
THEOREM Typing == Spec => []TypeOK
<1>1. Types => TypeOK
  BY DEF Types
<1> QED
  BY <1>1, TypesAlways, PTL
-----------------------------------------------------------------------------
(* Who is answered for whom.  While a request that nobody raced waits, the  *)
(* field still names its user; and the tokens it came with are no younger   *)
(* than the last revocation, until its own makes them older.                *)

FieldKept ==
  \A r \in Request : task[r].at \in UsesField /\ ~ task[r].raced => currentUser = task[r].user

TokensOld ==
  \A r \in Request : task[r].at \in {"forget", "revoke"} => task[r].token <= epoch[task[r].user]

Owned == FieldKept /\ TokensOld /\ OwnUnlessRaced

\* Neither the field nor the requests change, and revocations only go forward.
LEMMA QuietOwned ==
  ASSUME Types, Owned, UNCHANGED <<epoch, currentUser, task>>
  PROVE  Owned'
BY DEF Owned, FieldKept, TokensOld, OwnUnlessRaced

\* A request goes on to something the invariant says nothing about.
LEMMA GoOwned ==
  ASSUME Types, Owned, NEW r \in Request, NEW x \in Task, Go(r, x),
         UNCHANGED <<epoch, currentUser>>,
         x.at \notin UsesField \cup {"out", "told"}
  PROVE  Owned'
BY DEF Owned, FieldKept, TokensOld, OwnUnlessRaced, Types, TypeOK

\* Entering makes the field name the user, and marks whoever counted on another.
LEMMA EnterOwned ==
  ASSUME Types, Owned, NEW r \in Request, NEW u \in User, NEW x \in Task, Enter(r, u, x),
         x.at \in {"forget", "read"}, x.user = u,
         x.at = "forget" => x.token <= epoch[u]
  PROVE  Owned'
<1>1. /\ task'[r] = x /\ currentUser' = u /\ epoch' = epoch
      /\ \A q \in Request \ {r} :
           \/ task'[q] = task[q] /\ ~ (task[q].at \in UsesField /\ task[q].user # u)
           \/ /\ task'[q] = [task[q] EXCEPT !.raced = TRUE]
              /\ task[q].at \in UsesField
  BY DEF Enter, accounts
<1>2. ASSUME NEW q \in Request, q # r
      PROVE  /\ task'[q].at = task[q].at
             /\ task[q].at \in UsesField \cup {"out", "told"} => task'[q].user = task[q].user
             /\ task[q].at \in {"forget", "revoke", "out"} => task'[q].token = task[q].token
             /\ \/ task'[q] = task[q] /\ ~ (task[q].at \in UsesField /\ task[q].user # u)
                \/ task[q].at \in UsesField /\ task'[q].raced
  <2>1. CASE task'[q] = task[q] /\ ~ (task[q].at \in UsesField /\ task[q].user # u)
    BY <2>1
  <2>2. CASE task'[q] = [task[q] EXCEPT !.raced = TRUE] /\ task[q].at \in UsesField
    <3>1. task[q] \in Leaving \/ task[q] \in Reading
      BY <2>2, TaskType DEF Types
    <3> QED
      BY <2>2, <3>1 DEF Leaving, Reading
  <2> QED
    BY <1>1, <1>2, <2>1, <2>2
<1>3. FieldKept'
  BY <1>1, <1>2 DEF FieldKept
<1>4. TokensOld'
  BY <1>1, <1>2 DEF Owned, TokensOld
<1>5. OwnUnlessRaced'
  BY <1>1, <1>2 DEF Owned, OwnUnlessRaced
<1> QED
  BY <1>3, <1>4, <1>5 DEF Owned

LEMMA ForgetOwned ==
  ASSUME Types, Owned, NEW r \in Request, Forget(r)
  PROVE  Owned'
<1>1. task[r] \in Leaving
  BY TaskType DEF Forget, Types
<1>2. /\ task'[r] = [task[r] EXCEPT !.at = "revoke"]
      /\ \A q \in Request \ {r} : task'[q] = task[q]
      /\ task[r].at = "forget" /\ epoch' = epoch /\ currentUser' = currentUser
  BY DEF Forget, Types, TypeOK, accounts
<1>3. /\ task'[r].at = "revoke" /\ task'[r].user = task[r].user
      /\ task'[r].token = task[r].token /\ task'[r].raced = task[r].raced
  BY <1>1, <1>2 DEF Leaving
<1>4. FieldKept'
  BY <1>2, <1>3 DEF Owned, FieldKept
<1>5. TokensOld'
  BY <1>2, <1>3 DEF Owned, TokensOld
<1>6. OwnUnlessRaced'
  BY <1>2, <1>3 DEF Owned, OwnUnlessRaced
<1> QED
  BY <1>4, <1>5, <1>6 DEF Owned

LEMMA RevokeOwned ==
  ASSUME Types, Owned, NEW r \in Request, NEW lost \in BOOLEAN, Revoke(r, lost)
  PROVE  Owned'
<1>1. task[r] \in Leaving /\ task[r].at = "revoke" /\ currentUser \in User
  BY TaskType DEF Revoke, Types, FieldSet
<1>2. /\ task'[r] = [task[r] EXCEPT !.at = "out"]
      /\ \A q \in Request \ {r} : task'[q] = task[q]
      /\ epoch' = [epoch EXCEPT ![currentUser] = epoch[currentUser] + 1]
      /\ currentUser' = currentUser
  BY DEF Revoke, Types, TypeOK
<1>3. /\ task'[r].at = "out" /\ task'[r].user = task[r].user
      /\ task'[r].token = task[r].token /\ task'[r].raced = task[r].raced
  BY <1>1, <1>2 DEF Leaving
<1>4. /\ \A u \in User : epoch[u] \in Nat /\ epoch'[u] \in Nat /\ epoch'[u] >= epoch[u]
      /\ epoch'[currentUser] = epoch[currentUser] + 1
  BY <1>1, <1>2, SessionAssumption DEF Types, TypeOK, Epoch
<1>5. ASSUME NEW q \in Request, task[q].at \in {"forget", "revoke", "out"}
      PROVE  task[q].user \in User /\ task[q].token \in Nat
  BY <1>5, TaskType, SessionAssumption DEF Types, Leaving, Epoch
<1>6. FieldKept'
  BY <1>2, <1>3 DEF Owned, FieldKept
<1>7. TokensOld'
  <2> SUFFICES ASSUME NEW q \in Request, task'[q].at \in {"forget", "revoke"}
               PROVE  task'[q].token <= epoch'[task'[q].user]
    BY DEF TokensOld
  <2>1. task'[q] = task[q]
    BY <1>2, <1>3
  <2>2. task[q].user \in User /\ task[q].token \in Nat /\ task[q].token <= epoch[task[q].user]
    BY <1>5, <2>1 DEF Owned, TokensOld
  <2> QED
    BY <1>4, <2>1, <2>2
<1>8. ~ task[r].raced => epoch'[task[r].user] > task[r].token
  BY <1>1, <1>4, <1>5 DEF Owned, FieldKept, TokensOld
<1>9. OwnUnlessRaced'
  <2>1. ASSUME NEW q \in Request, q # r, task[q].at = "out", ~ task[q].raced
        PROVE  epoch'[task[q].user] > task[q].token
    <3>1. task[q].user \in User /\ task[q].token \in Nat
      BY <1>5, <2>1
    <3>2. epoch[task[q].user] > task[q].token
      BY <2>1 DEF Owned, OwnUnlessRaced
    <3> QED
      BY <1>4, <3>1, <3>2
  <2> QED
    BY <1>2, <1>3, <1>8, <2>1 DEF Owned, OwnUnlessRaced
<1> QED
  BY <1>6, <1>7, <1>9 DEF Owned

LEMMA ReadOwned ==
  ASSUME Types, Owned, NEW r \in Request, GetLoginUserDetails(r)
  PROVE  Owned'
<1> DEFINE x == [at |-> "told", user |-> task[r].user, who |-> currentUser, raced |-> task[r].raced]
<1>1. /\ task'[r] = x /\ task[r].at = "read"
      /\ \A q \in Request \ {r} : task'[q] = task[q]
      /\ epoch' = epoch /\ currentUser' = currentUser
  BY DEF GetLoginUserDetails, Types, TypeOK, accounts
<1>2. /\ x.at = "told" /\ x.user = task[r].user /\ x.who = currentUser
      /\ x.raced = task[r].raced
  OBVIOUS
<1> HIDE DEF x
<1>3. ~ x.raced => x.who = x.user
  BY <1>1, <1>2 DEF Owned, FieldKept
<1> QED
  BY <1>1, <1>2, <1>3 DEF Owned, FieldKept, TokensOld, OwnUnlessRaced

LEMMA RequestOwned ==
  ASSUME Types, Owned, NEW r \in Request, RequestStep(r)
  PROVE  Owned'
<1>1. Idle \in Task /\ Idle.at = "idle"
  BY DEF Task, Idle
<1>2. ASSUME NEW u \in User, SignOut(r, u) PROVE Owned'
  <2> DEFINE x == [at |-> "forget", user |-> u, token |-> jar[u].token, raced |-> FALSE]
  <2>1. jar[u].token = epoch[u] /\ epoch[u] \in Epoch
    BY <1>2 DEF SignOut, Enter, Admitted, Types, TypeOK
  <2>2. x \in Task /\ x.at = "forget" /\ x.user = u /\ x.token <= epoch[u]
    BY <2>1, SessionAssumption DEF Task, Epoch
  <2>3. Enter(r, u, x)
    BY <1>2 DEF SignOut
  <2> HIDE DEF x
  <2> QED
    BY <2>2, <2>3, EnterOwned
<1>3. ASSUME NEW u \in User, GetUserInfo(r, u) PROVE Owned'
  <2> DEFINE x == [at |-> "read", user |-> u, raced |-> FALSE]
  <2>1. x \in Task /\ x.at = "read" /\ x.user = u
    BY DEF Task
  <2>2. Enter(r, u, x)
    BY <1>3 DEF GetUserInfo
  <2> HIDE DEF x
  <2> QED
    BY <2>1, <2>2, EnterOwned
<1>4. ASSUME NEW u \in User, Ask(r, u) PROVE Owned'
  <2>1. [at |-> "check", user |-> u] \in Task
    BY <1>4 DEF Ask, Task
  <2> QED
    BY <1>4, <2>1, GoOwned DEF Ask, accounts
<1>5. CASE CheckPermission(r)
  <2> DEFINE v == IF memo[RoleOf[task[r].user]] = "unknown"
                  THEN Answer(RoleOf[task[r].user] \in granted)
                  ELSE memo[RoleOf[task[r].user]]
             x == [at |-> "set", user |-> task[r].user, val |-> v]
  <2>1. Go(r, x)
    BY <1>5 DEF CheckPermission
  <2>2. /\ \A q \in Request \ {r} : task'[q] = task[q]
        /\ task'[r].at = "set"
        /\ epoch' = epoch /\ currentUser' = currentUser
    BY <1>5, <2>1 DEF CheckPermission, Types, TypeOK, accounts
  <2> QED
    BY <2>2 DEF Owned, FieldKept, TokensOld, OwnUnlessRaced
<1>6. CASE SetPermission(r) \/ Fail(r)
  BY <1>1, <1>6, GoOwned DEF SetPermission, Fail, accounts
<1> QED
  BY <1>2, <1>3, <1>4, <1>5, <1>6, ForgetOwned, RevokeOwned, ReadOwned DEF RequestStep

LEMMA StepOwned == Types /\ Owned /\ [Next]_vars => Owned'
<1> SUFFICES ASSUME Types, Owned, [Next]_vars PROVE Owned'
  OBVIOUS
<1>1. CASE UNCHANGED vars
  BY <1>1, QuietOwned DEF vars, accounts
<1>2. ASSUME NEW u \in User, ClientStep(u) PROVE Owned'
  BY <1>2, QuietOwned
     DEF ClientStep, VerifyEmail, SignIn, AskSecondFactor, VerifyMfaOtp, OtpExpires, TokenExpires,
         ExchangeRefreshToken, ExchangeFails
<1>3. ASSUME NEW x \in Role, Change(x) PROVE Owned'
  BY <1>3, QuietOwned DEF Change, accounts
<1>4. CASE Tick
  BY <1>4, QuietOwned DEF Tick, accounts
<1>5. CASE Restart
  BY <1>5 DEF Restart, Idle, Owned, FieldKept, TokensOld, OwnUnlessRaced
<1> QED
  BY <1>1, <1>2, <1>3, <1>4, <1>5, RequestOwned DEF Next

\* Who signs out is out and who asks is told of itself, unless another request set the field
\* in between.
THEOREM OwnUnlessRacedAlways == Spec => []OwnUnlessRaced
<1>1. Init => Owned
  BY DEF Init, Idle, Owned, FieldKept, TokensOld, OwnUnlessRaced
<1>2. Owned => OwnUnlessRaced
  BY DEF Owned
<1> QED
  BY <1>1, <1>2, TypesAlways, StepOwned, PTL DEF Spec

-----------------------------------------------------------------------------
(* Who is out stays out.                                                    *)

\* The client holds tokens that are not revoked.
Current(u) == jar[u].token = epoch[u]

BackBySigningIn == \A u \in User : ~Current(u) /\ Current(u)' => SignIn(u) \/ VerifyMfaOtp(u)

\* No client holds tokens from after the last revocation, which the next one would not reach.
TokensPast == \A u \in User : jar[u].token <= epoch[u]

\* Tokens and revocations are counted.
LEMMA TokenTypes ==
  ASSUME TypeOK, NEW u \in User
  PROVE  jar[u] \in Jar /\ jar[u].token \in Nat /\ epoch[u] \in Nat \ {0}
BY SessionAssumption DEF TypeOK, Jar, Epoch

\* A client gets new tokens by signing in or by handing in the current ones.
LEMMA ClientBack ==
  ASSUME TypeOK, TokensPast, NEW u \in User, ClientStep(u)
  PROVE  TokensPast' /\ BackBySigningIn
<1>1. epoch' = epoch /\ \A v \in User \ {u} : jar'[v] = jar[v]
  BY DEF ClientStep, VerifyEmail, SignIn, AskSecondFactor, VerifyMfaOtp, OtpExpires, TokenExpires,
         ExchangeRefreshToken, ExchangeFails, TypeOK
<1>2. jar[u] \in Jar /\ jar[u].token \in Nat /\ epoch[u] \in Nat \ {0}
  BY TokenTypes
<1>3. ASSUME SignIn(u) \/ VerifyMfaOtp(u) \/ ExchangeRefreshToken(u)
      PROVE  jar'[u].token = epoch[u]
  <2>1. jar'[u] = Tokens(u)
    BY <1>3 DEF SignIn, VerifyMfaOtp, ExchangeRefreshToken, TypeOK
  <2> QED
    BY <2>1 DEF Tokens
<1>4. ASSUME ~SignIn(u), ~VerifyMfaOtp(u), ~ExchangeRefreshToken(u)
      PROVE  jar'[u].token \in {0, jar[u].token}
  <2>1. CASE VerifyEmail(u)
    BY <2>1 DEF VerifyEmail
  <2>2. CASE AskSecondFactor(u) \/ OtpExpires(u) \/ TokenExpires(u)
    <3>1. \/ \E b \in BOOLEAN : jar'[u] = [jar[u] EXCEPT !.otp = b]
          \/ jar'[u] = [jar[u] EXCEPT !.live = FALSE]
      BY <2>2 DEF AskSecondFactor, OtpExpires, TokenExpires, TypeOK
    <3> QED
      BY <1>2, <3>1 DEF Jar
  <2>3. CASE ExchangeFails(u)
    <3>1. jar'[u] = [SignedOut EXCEPT !.otp = jar[u].otp] /\ jar[u].otp \in BOOLEAN
      BY <1>2, <2>3 DEF ExchangeFails, TypeOK, Jar
    <3> QED
      BY <3>1, Cleared
  <2> QED
    BY <1>4, <2>1, <2>2, <2>3 DEF ClientStep
<1>5. TokensPast'
  BY <1>1, <1>2, <1>3, <1>4 DEF TokensPast
<1>6. ~Current(u) /\ Current(u)' => SignIn(u) \/ VerifyMfaOtp(u)
  <2>1. ExchangeRefreshToken(u) => Current(u)
    BY DEF ExchangeRefreshToken, Current
  <2> QED
    BY <1>1, <1>2, <1>4, <2>1 DEF Current
<1> QED
  BY <1>1, <1>5, <1>6 DEF BackBySigningIn, Current

\* A revocation, whoever's it is, makes no other tokens current, and clears at most some.
LEMMA RevokeBack ==
  ASSUME TypeOK, FieldSet, TokensPast, NEW r \in Request, NEW lost \in BOOLEAN, Revoke(r, lost)
  PROVE  TokensPast' /\ \A u \in User : Current(u)' => Current(u)
<1>1. currentUser \in User /\ task[r] \in Leaving
  BY TaskType DEF Revoke, FieldSet
<1>2. \A u \in User : jar[u].token \in Nat /\ epoch[u] \in Nat \ {0} /\ jar[u].otp \in BOOLEAN
  BY TokenTypes DEF Jar
<1>3. ASSUME NEW u \in User
      PROVE  epoch'[u] = epoch[u] \/ (u = currentUser /\ epoch'[u] = epoch[u] + 1)
  BY <1>1 DEF Revoke, TypeOK
<1>4. ASSUME NEW u \in User
      PROVE  jar'[u] = jar[u] \/ jar'[u].token = 0
  <2>1. jar'[u] = jar[u] \/ jar'[u] = [SignedOut EXCEPT !.otp = jar[u].otp]
    BY <1>1 DEF Revoke, Leaving, TypeOK
  <2> QED
    BY <1>2, <2>1, Cleared
<1> QED
  BY <1>2, <1>3, <1>4 DEF TokensPast, Current

\* Nothing but a client's own step makes its tokens current.
LEMMA StepBack == Types /\ TokensPast /\ [Next]_vars => TokensPast' /\ [BackBySigningIn]_vars
<1> SUFFICES ASSUME Types, TokensPast, [Next]_vars PROVE TokensPast' /\ [BackBySigningIn]_vars
  OBVIOUS
<1>1. ASSUME UNCHANGED <<jar, epoch>> PROVE TokensPast' /\ BackBySigningIn
  BY <1>1 DEF TokensPast, BackBySigningIn, Current
<1>2. ASSUME NEW r \in Request, RequestStep(r), ~\E lost \in BOOLEAN : Revoke(r, lost)
      PROVE  UNCHANGED <<jar, epoch>>
  BY <1>2 DEF RequestStep, SignOut, GetUserInfo, Enter, Ask, Forget, GetLoginUserDetails,
              CheckPermission, SetPermission, Fail, accounts
<1>3. ASSUME NEW r \in Request, NEW lost \in BOOLEAN, Revoke(r, lost)
      PROVE  TokensPast' /\ BackBySigningIn
  BY <1>3, RevokeBack DEF Types, BackBySigningIn
<1>4. ASSUME NEW x \in Role, Change(x) PROVE UNCHANGED <<jar, epoch>>
  BY <1>4 DEF Change, accounts
<1>5. Tick \/ Restart \/ UNCHANGED vars => UNCHANGED <<jar, epoch>>
  BY DEF Tick, Restart, vars, accounts
<1> QED
  BY <1>1, <1>2, <1>3, <1>4, <1>5, ClientBack DEF Next, Types

\* Tokens that a sign-out, whoever's, has revoked never come to count again: no exchange of
\* refresh tokens, overlapping request, lost answer or restart lets a client back in, but a new
\* sign-in of that user does, which a second factor completes where there is one.
THEOREM OutUntilSignIn == Spec => [][BackBySigningIn]_vars
<1>1. Init => TokensPast
  <2> SUFFICES ASSUME Init PROVE TokensPast
    OBVIOUS
  <2>1. ASSUME NEW u \in User PROVE jar[u].token = 0 /\ epoch[u] = 1
    <3>1. jar[u] = SignedOut /\ epoch[u] = 1
      BY DEF Init
    <3> QED
      BY <3>1 DEF SignedOut
  <2>2. 0 <= 1
    OBVIOUS
  <2> QED
    BY <2>1, <2>2 DEF TokensPast
<1> QED
  BY <1>1, StepBack, TypesAlways, PTL DEF Spec
================================================================================
