---------------------------- MODULE MCCachedLists ----------------------------
(* Each service of CachedLists that differs from the others, with two rows. *)
EXTENDS CachedLists

CONSTANTS q1, q2, r1, r2, v1, v2

MCStyles ==
  {Permissions, Features, FeaturePermissions, Roles, Categories, Purposes, Statuses,
   PropertyTypes, Amenities, Plans}
==============================================================================
