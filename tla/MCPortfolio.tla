----------------------------- MODULE MCPortfolio -------------------------------
(***************************************************************************)
(* Two properties and a unit, plans for one and for two properties, up to  *)
(* two subscriptions and two requests at a time.                           *)
(***************************************************************************)
EXTENDS Portfolio, TLC

CONSTANTS small, large

MCLimit == small :> 1 @@ large :> 2
MCSymmetry == Permutations(Property) \cup Permutations(Request)
================================================================================
