-------------------------- MODULE MCReplicationSkip --------------------------
(***************************************************************************)
(* ReplicationSkip for TLC.                                                *)
(***************************************************************************)
EXTENDS ReplicationSkip, TLC

\* Skippable transactions are interchangeable.
TxnSymmetry == Permutations(Skippable)

=============================================================================
