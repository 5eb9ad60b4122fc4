---------------------------- MODULE MCWorkOrder -----------------------------
(***************************************************************************)
(* Values for model checking WorkOrder: two engineers, a supervisor and    *)
(* one of the front office, who may not advance an order.                  *)
(***************************************************************************)
EXTENDS WorkOrder, TLC

CONSTANTS eng1, eng2, sup, desk

MCRoleOf == [u \in Users |-> CASE u = sup -> "supervisor" [] u = desk -> "front_office"
                               [] OTHER -> "engineering"]

Symmetry == Permutations(Calls)
=============================================================================
