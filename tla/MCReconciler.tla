----------------------------- MODULE MCReconciler -----------------------------
(***************************************************************************)
(* Small instances of Reconciler for TLC.                                  *)
(***************************************************************************)
EXTENDS Reconciler, TLC

CONSTANTS a1, c1, q1, q2, q3
ToFirst  == [c \in Change |-> a1]
PortSym  == Permutations(Port)
===============================================================================
