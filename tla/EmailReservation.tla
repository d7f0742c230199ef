--------------------------- MODULE EmailReservation ---------------------------
(***************************************************************************)
(* What signing up promises about an email address, whichever service      *)
(* holds which half of the record: at most one sign-up has a claim on it   *)
(* at a time, only the one that has the claim can enrol, and an enrolled   *)
(* address is never taken over by another sign-up.                         *)
(***************************************************************************)

CONSTANTS Email, Req, NoOne

VARIABLES
  claim,     \* the sign-up that holds the address, or NoOne
  enrolled   \* the sign-up whose user owns the address, or NoOne

vars == <<claim, enrolled>>

Init ==
  /\ claim = [e \in Email |-> NoOne]
  /\ enrolled = [e \in Email |-> NoOne]

Claim(e, r) ==
  /\ claim[e] = NoOne
  /\ claim' = [claim EXCEPT ![e] = r]
  /\ UNCHANGED enrolled

\* Giving up leaves the address to others, or, when it was enrolled, to nobody.
Release(e) ==
  /\ claim[e] # NoOne
  /\ claim' = [claim EXCEPT ![e] = NoOne]
  /\ UNCHANGED enrolled

Enrol(e) ==
  /\ claim[e] # NoOne
  /\ enrolled[e] = NoOne
  /\ enrolled' = [enrolled EXCEPT ![e] = claim[e]]
  /\ UNCHANGED claim

Withdraw(e) ==
  /\ enrolled[e] # NoOne
  /\ claim[e] = enrolled[e]
  /\ enrolled' = [enrolled EXCEPT ![e] = NoOne]
  /\ UNCHANGED claim

Next == \E e \in Email : \/ \E r \in Req : Claim(e, r)
                         \/ Release(e)
                         \/ Enrol(e)
                         \/ Withdraw(e)

Spec == Init /\ [][Next]_vars

=============================================================================
