----------------------------- MODULE MCAutoPlan -----------------------------
(***************************************************************************)
(* Values for model checking AutoPlan.                                     *)
(***************************************************************************)
EXTENDS AutoPlan, TLC

Symmetry == Permutations(Calls)
=============================================================================
