--------------------------- MODULE MANOSwitchover ---------------------------
(***************************************************************************)
(* The switchover engine over the MANO managers. The phases are those of   *)
(* module SwitchoverEngine; the ProxySQL phases are reduced to their       *)
(* outcome, since here they share nothing with the managers.               *)
(***************************************************************************)
EXTENDS MANOManager

CONSTANT MaxAttempts        \* bound: how many times Execute runs

ASSUME AttemptsAssumption == MaxAttempts \in Nat

VARIABLES
    pc, attempts, result,
    before,         \* history: isSource when the attempt began
    risk            \* history: the errors of this engine's own that it went past

engineVars == <<pc, attempts, result, before, risk>>
vars == <<manoVars, engineVars>>

Init ==
    /\ MANOInit
    /\ pc = "Idle" /\ attempts = 0 /\ result = "none"
    /\ before = {Local} /\ risk = {}

\* The call of phase p has returned r.
Returned(p, r) == pc = p /\ step = "none" /\ ret = r

GotoPhase(p) == pc' = p /\ UNCHANGED <<attempts, result, before, risk>>

Finish(r) == pc' = "Idle" /\ result' = r /\ UNCHANGED <<attempts, before, risk>>

\* The client is built for one Reconcile: a cached token ends with it.
DropClient == token' = IF StaticToken THEN token ELSE "none"

CallsDone == DropClient /\ UNCHANGED <<clusterVars, opVars, frameVars>>

Outside == UNCHANGED <<clusterVars, token, opVars>>

Execute ==
    /\ pc = "Idle" /\ attempts < MaxAttempts
    /\ pc' = "PreFlight" /\ attempts' = attempts + 1 /\ result' = "none"
    /\ before' = isSource
    /\ UNCHANGED <<manoVars, risk>>

\* Check C1, then the fence.
PreFlightPass ==
    /\ pc = "PreFlight"
    /\ Remote \notin writable
    /\ GotoPhase("Fence")
    /\ CallSetIsSource(Local, "replica")
    /\ Outside

PreFlightFail == pc = "PreFlight" /\ Finish("failed") /\ CallsDone

\* Slip: promoting after a fence that returned an error.
FenceAppliedAnyway ==
    /\ pc = "Fence" /\ step = "none"
    /\ GotoPhase("Promote")
    /\ CallSetIsSource(Remote, "source")
    /\ Outside

FenceApplied ==
    /\ Returned("Fence", "ok")
    /\ GotoPhase("Promote")
    /\ CallSetIsSource(Remote, "source")
    /\ Outside

\* The local cluster answers the probe: nothing is promoted, and a fence that
\* is still under way at MANO is not taken back.
FenceRefused ==
    /\ Returned("Fence", "err")
    /\ Finish("rolledBack")
    /\ CallsDone

\* It does not: the ProxySQL blackhole, which may fail.
FenceBlackhole ==
    /\ Returned("Fence", "err")
    /\ \/ /\ pc' = "Promote" /\ risk' = risk \cup {"blackhole"}
          /\ CallSetIsSource(Remote, "source")
          /\ Outside /\ UNCHANGED <<attempts, result, before>>
       \/ Finish("rolledBack") /\ CallsDone

Promoted ==
    /\ Returned("Promote", "ok")
    /\ GotoPhase("Routing")
    /\ UNCHANGED manoVars

\* Slip: the fence is not among the phases rolled back.
PromoteFailedNoRestore ==
    /\ Returned("Promote", "err")
    /\ Finish("rolledBack")
    /\ CallsDone

\* Rollback of Fence alone: Promote is not among the completed phases.
PromoteFailed ==
    /\ Returned("Promote", "err")
    /\ GotoPhase("RbFence")
    /\ CallSetIsSource(Local, "source")
    /\ Outside

RoutingOk == pc = "Routing" /\ GotoPhase("Verify") /\ UNCHANGED manoVars

RoutingFailed ==
    /\ pc = "Routing"
    /\ GotoPhase("RbPromote")
    /\ CallSetIsSource(Remote, "replica")
    /\ Outside

VerifyOk ==
    /\ pc = "Verify"
    /\ Remote \in writable
    /\ Finish("success")
    /\ CallsDone

VerifyFail == pc = "Verify" /\ Finish("failed") /\ CallsDone

\* A demotion that returned an error is logged, and the rollback goes on.
RollbackPromoteDone ==
    /\ pc = "RbPromote" /\ step = "none"
    /\ pc' = "RbFence"
    /\ risk' = IF ret = "err" THEN risk \cup {"demoteFailed"} ELSE risk
    /\ CallSetIsSource(Local, "source")
    /\ Outside /\ UNCHANGED <<attempts, result, before>>

RollbackFenceDone ==
    /\ pc = "RbFence" /\ step = "none"
    /\ pc' = "Idle" /\ result' = "rolledBack"
    /\ risk' = IF ret = "err" THEN risk \cup {"restoreFailed"} ELSE risk
    /\ CallsDone /\ UNCHANGED <<attempts, before>>

\* The controller stops; the operation its call was waiting for goes on.
Crash ==
    /\ pc # "Idle"
    /\ pc' = "Idle" /\ result' = "crashed"
    /\ step' = "none" /\ polls' = 0
    /\ Leave("err") /\ DropClient
    /\ UNCHANGED <<clusterVars, on, goal, ret, attempts, before, risk>>

EngineStep ==
    \/ PreFlightPass \/ PreFlightFail
    \/ FenceApplied \/ FenceRefused \/ FenceBlackhole
    \/ Promoted \/ PromoteFailed \/ RoutingOk \/ RoutingFailed
    \/ VerifyOk \/ VerifyFail \/ RollbackPromoteDone \/ RollbackFenceDone

CallStep == ClientStep /\ UNCHANGED engineVars

Next ==
    \/ Execute \/ EngineStep \/ CallStep \/ Crash
    \/ ServiceStep /\ UNCHANGED engineVars

Spec == Init /\ [][Next]_vars

\* Every wait of a call is bounded by a timeout of the client; nothing is
\* promised of MANO or of the operator.
FairSpec == Spec /\ WF_vars(EngineStep) /\ WF_vars(CallStep)

-----------------------------------------------------------------------------
(***************************************************************************)
(* Properties.                                                             *)
(***************************************************************************)

\* Every variable keeps its type, a call is in progress only in the phases that
\* wait for one, and an operation is followed only by a call that polls it.
TypeOK ==
    /\ MANOTypeOK
    /\ pc \in {"Idle", "PreFlight", "Fence", "Promote", "Routing", "Verify", "RbPromote", "RbFence"}
    /\ attempts \in 0..MaxAttempts
    /\ result \in {"none", "success", "failed", "rolledBack", "crashed"}
    /\ before \subseteq Clusters
    /\ risk \subseteq {"blackhole", "demoteFailed", "restoreFailed"}
    /\ step # "none" => pc \in {"Fence", "Promote", "RbPromote", "RbFence"}

\* Split-brain under MANO needs an operation that did not do what its call said,
\* or an error the rollback went past: both clusters accept writes only if an
\* enabling operation outlived its call (pollLcmOpOcc timed out, its answer was
\* lost, or verifyWrite failed and nothing took the promotion back), a fence was
\* reported COMPLETED before the operator acted, a demotion failed in rollback,
\* or the fence was a blackhole.
DualWritersNeedLostOperation ==
    Local \in writable /\ Remote \in writable =>
        \/ surprises \cap {"enabled", "earlyFence"} # {}
        \/ risk \cap {"blackhole", "demoteFailed"} # {}

\* What Execute reports is what MANO will enforce: as long as no operation has
\* outlived its call and no error was passed over, success leaves the remote
\* cluster the only source and a rollback leaves the local one, if it was.
ReportsMatchSources ==
    pc = "Idle" /\ risk = {} /\ surprises \subseteq {"earlyFence"} =>
        /\ result = "success" => isSource = {Remote}
        /\ result = "rolledBack" /\ before = {Local} => isSource = {Local}

\* Every call of the manager returns, whatever MANO does: the poll loop has a
\* deadline and every request a timeout.
CallsReturn == (step # "none") ~> (step = "none")

=============================================================================
