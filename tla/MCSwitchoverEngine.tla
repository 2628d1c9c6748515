------------------------ MODULE MCSwitchoverEngine ------------------------
(***************************************************************************)
(* SwitchoverEngine for TLC.                                               *)
(***************************************************************************)
EXTENDS SwitchoverEngine, TLC

\* The ProxySQL instances are interchangeable.
InstanceSymmetry == Permutations(Instances)

=============================================================================
