------------------------------- MODULE MCTenancy -------------------------------
(* One organization with one lease, for the run of Tenancy. *)
EXTENDS Tenancy

CONSTANTS t1, l1, o1, q1, q2

MCOrgOf == [l \in Lease |-> o1]
================================================================================
