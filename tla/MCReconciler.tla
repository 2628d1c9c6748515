---------------------------- MODULE MCReconciler ----------------------------
(***************************************************************************)
(* Reconciler for TLC. The constants are given values in the cfg files.    *)
(***************************************************************************)
EXTENDS Reconciler

=============================================================================
