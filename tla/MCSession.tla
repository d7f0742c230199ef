------------------------------ MODULE MCSession --------------------------------
(***************************************************************************)
(* A member of an organization who uses the landlords' portal, and         *)
(* somebody without one, with a client of its own, whose address may be    *)
(* verified or not and who may have a second factor.                       *)
(***************************************************************************)
EXTENDS Session

CONSTANTS u1, u2, member

MCPortal == {u1}
MCChecked == {u1}
MCMfa == {u2}
MCMember == {u1}
MCRoleOf == [u \in {u1} |-> member]
================================================================================
