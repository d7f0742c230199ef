--------------------------------- MODULE Inbox ---------------------------------
(***************************************************************************)
(* What the service of notifications promises its users, whichever queues, *)
(* rows and processes are behind it: an event tells a user once and all    *)
(* of its users at the same time; while the event is being delivered what  *)
(* the user has read may come back as unread, and afterwards never again;  *)
(* what the user has deleted is gone for good.                             *)
(***************************************************************************)

CONSTANTS Event, User

VARIABLES
  item,      \* what a user sees of an event
  delivery   \* how far telling the user of it has come

vars == <<item, delivery>>

Item == Event \X User
Of(e) == {e} \X User

Init ==
  /\ item = [i \in Item |-> "none"]
  /\ delivery = [i \in Item |-> "before"]

Open(e) ==
  /\ \A i \in Of(e) : delivery[i] = "before"
  /\ delivery' = [i \in Item |-> IF i \in Of(e) THEN "open" ELSE delivery[i]]
  /\ UNCHANGED item

Tell(e, told) ==
  /\ \A i \in Of(e) : item[i] = "none" /\ delivery[i] = "open"
  /\ item' = [i \in Item |-> IF i \in {e} \X told THEN "unread" ELSE item[i]]
  /\ UNCHANGED delivery

Read(i) ==
  /\ item[i] = "unread"
  /\ item' = [item EXCEPT ![i] = "read"]
  /\ UNCHANGED delivery

\* It may be the last thing that the delivery does.
Unmark(i) ==
  /\ item[i] = "read" /\ delivery[i] = "open"
  /\ item' = [item EXCEPT ![i] = "unread"]
  /\ \E d \in {"open", "over"} : delivery' = [delivery EXCEPT ![i] = d]

Delete(i) ==
  /\ item[i] \in {"unread", "read"}
  /\ item' = [item EXCEPT ![i] = "deleted"]
  /\ UNCHANGED delivery

\* Deliveries end: done, or lost in a crash together with others.
Close(some) ==
  /\ \A i \in some : delivery[i] = "open"
  /\ delivery' = [i \in Item |-> IF i \in some THEN "over" ELSE delivery[i]]
  /\ UNCHANGED item

Next ==
  \/ \E e \in Event : Open(e) \/ \E told \in SUBSET User : Tell(e, told)
  \/ \E i \in Item : Read(i) \/ Unmark(i) \/ Delete(i)
  \/ \E some \in SUBSET Item : Close(some)

Spec == Init /\ [][Next]_vars

================================================================================
