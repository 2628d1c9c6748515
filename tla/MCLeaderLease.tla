---------------------------- MODULE MCLeaderLease ----------------------------
(***************************************************************************)
(* LeaderLease for TLC. The constants are given values in the cfg files.   *)
(***************************************************************************)
EXTENDS LeaderLease

=============================================================================
