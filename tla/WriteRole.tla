------------------------------ MODULE WriteRole ------------------------------
(***************************************************************************)
(* What a switchover promises, seen from outside: a write role that at     *)
(* most one of two clusters holds, moved by releasing and acquiring it,    *)
(* and reports that can be believed.                                       *)
(*                                                                         *)
(* The promise can be waived: the detailed specification says when, and    *)
(* once it is, nothing more is promised.                                   *)
(***************************************************************************)

CONSTANTS
    Old,        \* the holder before the switchover
    New         \* the intended holder after it

VARIABLES
    holders,    \* the clusters that hold the write role
    waived,     \* whether the promise has been given up
    outcome     \* the last report

roleVars == <<holders, waived, outcome>>

Outcomes == {"none", "success", "failed", "rolledBack", "crashed"}

RoleInit == holders = {Old} /\ ~waived /\ outcome = "none"

Release(c) ==
    /\ c \in holders
    /\ holders' = holders \ {c}
    /\ UNCHANGED <<waived, outcome>>

\* The role is taken only when nobody holds it.
Acquire(c) ==
    /\ holders = {}
    /\ holders' = {c}
    /\ UNCHANGED <<waived, outcome>>

\* Success: the role has moved. Rolled back: it has not.
Report(r) ==
    /\ outcome' = r
    /\ r = "success" => holders = {New}
    /\ r = "rolledBack" => New \notin holders
    /\ UNCHANGED <<holders, waived>>

Unpromised ==
    /\ waived'
    /\ holders' \subseteq {Old, New}
    /\ outcome' \in Outcomes

RoleNext ==
    \/ \E c \in {Old, New} : Release(c) \/ Acquire(c)
    \/ \E r \in Outcomes : Report(r)
    \/ Unpromised

RoleSpec == RoleInit /\ [][RoleNext]_roleVars

=============================================================================
