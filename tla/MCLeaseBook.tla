---------------------------- MODULE MCLeaseBook ----------------------------
(* Values and symmetry for the runs of LeaseBook. *)
EXTENDS LeaseBook, TLC

\* A lease that is due soon and one that starts in the middle of it.
MCTerms == {[start |-> 1, end |-> 3], [start |-> 2, end |-> 3]}

\* A correction of the end date, an empty body, and one that only touches the status.
MCPatches == {[status |-> Keep, start |-> Keep, end |-> 2],
              [status |-> "Cancelled", start |-> Keep, end |-> Keep]}

Symmetry == Permutations(Req) \cup Permutations(Lease) \cup Permutations(Job)

=============================================================================
