---------------------------- MODULE MCOrgCache ----------------------------
(* Keys for the run of OrgCache: the metrics, the preferences of a user    *)
(* and the details of an item that may be changed as a lease or as a       *)
(* property, which leaves it more to do than either.                       *)
EXTENDS OrgCache

CONSTANTS metrics, item, prefs

MCResourceOf == [k \in ListKey |-> "dashboard"]

=============================================================================
