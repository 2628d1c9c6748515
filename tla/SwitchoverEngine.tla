-------------------------- MODULE SwitchoverEngine --------------------------
(***************************************************************************)
(* The switchover engine (internal/switchover/engine.go): Execute and its  *)
(* phases PreFlight, Fence, Promote, Routing, ReverseReplica and Verify,   *)
(* and rollback. It drives the managers of the two clusters (PXCManager)   *)
(* and of the local ProxySQL instances (ProxySQL).                         *)
(*                                                                         *)
(* pc is the phase in progress, "Idle" between attempts. While a manager   *)
(* call is in progress (step # "none") the engine waits for its return.    *)
(* The controller process can stop between any two steps.                  *)
(***************************************************************************)
EXTENDS PXCManager, FiniteSets

CONSTANTS
    Instances,          \* the local ProxySQL instances
    WriterServesReads,  \* see module ProxySQL
    MaxAttempts,        \* bound: how many times Execute runs
    MaxRestarts,        \* bound: how many times a ProxySQL instance restarts
    MayCrash            \* whether the controller process may stop during Execute

ASSUME BoundsAssumption == MaxAttempts \in Nat /\ MaxRestarts \in Nat
ASSUME FlagAssumption == WriterServesReads \in BOOLEAN /\ MayCrash \in BOOLEAN

VARIABLES
    mem, runtime, disk, todo, loopErrs, answered,   \* see module ProxySQL
    pc, attempts, result,
    restarts,       \* how many instances have restarted so far
    unstaged,       \* history: instances restarted since the prepare loop began
    reopened        \* history: instances restarted in the middle of being blackholed

Proxy == INSTANCE ProxySQL WITH OldWriter <- Local, NewWriter <- Remote

historyVars == <<restarts, unstaged, reopened>>
proxyVars == <<mem, runtime, disk, todo, loopErrs, answered, historyVars>>
engineVars == <<pc, attempts, result>>
vars == <<managerVars, proxyVars, engineVars>>

ForwardPhases == {"PreFlight", "Drain", "Fence", "Blackhole", "Promote",
                  "Prepare", "Commit", "ReverseReplica", "Verify"}
RollbackPhases == {"RbPromote", "RbFence"}
RoutingPhases == {"Prepare", "Commit", "ReverseReplica", "Verify"}

Init ==
    /\ ManagerInit
    /\ Proxy!ProxyInit
    /\ pc = "Idle" /\ attempts = 0 /\ result = "none"
    /\ restarts = 0 /\ unstaged = {} /\ reopened = {}

\* Execute returns: r is the Result the controller sees.
Finish(r) ==
    /\ pc' = "Idle" /\ result' = r
    /\ UNCHANGED attempts

GotoPhase(p) == pc' = p /\ UNCHANGED <<attempts, result>>

\* The manager call made by the current phase has returned r.
Returned(p, r) == pc = p /\ step = "none" /\ ret = r

ManagerFrame == UNCHANGED <<clusterVars, ctx, risk>>

-----------------------------------------------------------------------------
(***************************************************************************)
(* PreFlight and the drain wait.                                           *)
(***************************************************************************)

Execute ==
    /\ pc = "Idle" /\ attempts < MaxAttempts
    /\ pc' = "PreFlight" /\ attempts' = attempts + 1
    /\ result' = "none"
    /\ ctx' = "live"
    /\ Proxy!DropLoop /\ unstaged' = {}
    /\ UNCHANGED <<clusterVars, callVars, risk, mem, runtime, disk, restarts, reopened>>

\* Check C1 requires the remote cluster reachable and read-only; the other
\* hard checks may fail for reasons outside this module.
PreFlightPass ==
    /\ pc = "PreFlight"
    /\ Remote \in reachable /\ ctx = "live" /\ Remote \notin writable
    /\ GotoPhase("Drain")
    /\ UNCHANGED <<managerVars, proxyVars>>

PreFlightFail ==
    /\ pc = "PreFlight"
    /\ Finish("failed")
    /\ UNCHANGED <<managerVars, proxyVars>>

\* The drain is cut short by the deadline: no phase is rolled back.
DrainCancelled ==
    /\ pc = "Drain" /\ ctx = "done"
    /\ Finish("failed")
    /\ UNCHANGED <<managerVars, proxyVars>>

-----------------------------------------------------------------------------
(***************************************************************************)
(* phaseFence.                                                             *)
(***************************************************************************)

DrainElapsed ==
    /\ pc = "Drain"
    /\ GotoPhase("Fence")
    /\ CallSetReadOnly(Local)
    /\ ManagerFrame /\ UNCHANGED proxyVars

FenceApplied ==
    /\ Returned("Fence", "ok")
    /\ pc' = "Promote"
    /\ CallSetReadWrite(Remote)
    /\ ManagerFrame /\ UNCHANGED <<proxyVars, attempts, result>>

\* SQL fence failed and the probe answered: refuse to promote. Only PreFlight
\* is completed, so rollback has nothing to undo.
FenceRefused ==
    /\ Returned("Fence", "err")
    /\ Local \in reachable /\ ctx = "live"
    /\ Finish("rolledBack")
    /\ UNCHANGED <<managerVars, proxyVars>>

\* The probe did not answer within its budget: blackhole the local writer.
FenceEscalate ==
    /\ Returned("Fence", "err")
    /\ GotoPhase("Blackhole")
    /\ Proxy!StartLoop
    /\ UNCHANGED <<managerVars, mem, runtime, disk, historyVars>>

BlackholeOne(i) ==
    /\ pc = "Blackhole"
    /\ \/ ctx = "live" /\ Proxy!BlackholeOk(i)
       \/ Proxy!BlackholeRefused(i)
       \/ Proxy!BlackholeFail(i)
    /\ UNCHANGED <<managerVars, engineVars, historyVars>>

\* Slip: promoting although some instance could not be blackholed.
BlackholeAppliedPartly ==
    /\ pc = "Blackhole" /\ todo = {}
    /\ pc' = "Promote"
    /\ CallSetReadWrite(Remote)
    /\ risk' = risk \cup {"blackhole"}
    /\ UNCHANGED <<clusterVars, ctx, proxyVars, attempts, result>>

BlackholeApplied ==
    /\ pc = "Blackhole" /\ todo = {} /\ loopErrs = {}
    /\ pc' = "Promote"
    /\ CallSetReadWrite(Remote)
    /\ risk' = risk \cup {"blackhole"}
    /\ UNCHANGED <<clusterVars, ctx, proxyVars, attempts, result>>

BlackholeFailed ==
    /\ pc = "Blackhole" /\ todo = {} /\ loopErrs # {}
    /\ Finish("rolledBack")
    /\ UNCHANGED <<managerVars, proxyVars>>

-----------------------------------------------------------------------------
(***************************************************************************)
(* phasePromote and phaseRouting.                                          *)
(***************************************************************************)

\* An error that leaves the cluster writable is invisible to the engine.
NoteLeftWritable ==
    risk' = IF ret = "err" /\ Remote \in writable THEN risk \cup {"leftWritable"} ELSE risk

Promoted ==
    /\ Returned("Promote", "ok")
    /\ GotoPhase("Prepare")
    /\ Proxy!StartLoop
    /\ UNCHANGED <<managerVars, mem, runtime, disk, historyVars>>

\* Rollback of Fence: writes are re-enabled on the former source.
PromoteFailed ==
    /\ Returned("Promote", "err")
    /\ GotoPhase("RbFence")
    /\ CallSetReadWrite(Local)
    /\ NoteLeftWritable
    /\ UNCHANGED <<clusterVars, ctx, proxyVars>>

PrepareOne(i) ==
    /\ pc = "Prepare"
    /\ (ctx = "live" /\ Proxy!PrepareOk(i)) \/ Proxy!PrepareFail(i)
    /\ UNCHANGED <<managerVars, engineVars, historyVars>>

AllPrepared ==
    /\ pc = "Prepare" /\ todo = {} /\ loopErrs = {}
    /\ GotoPhase("Commit")
    /\ Proxy!StartLoop
    /\ UNCHANGED <<managerVars, mem, runtime, disk, historyVars>>

CommitOne(i) ==
    /\ pc = "Commit"
    /\ (ctx = "live" /\ Proxy!CommitOk(i)) \/ Proxy!CommitFail(i)
    /\ UNCHANGED <<managerVars, engineVars, historyVars>>

\* Slip: the commit errors are logged and dropped.
AllCommittedAnyway ==
    /\ pc = "Commit" /\ todo = {}
    /\ GotoPhase("ReverseReplica")
    /\ UNCHANGED <<managerVars, proxyVars>>

AllCommitted ==
    /\ pc = "Commit" /\ todo = {} /\ loopErrs = {}
    /\ GotoPhase("ReverseReplica")
    /\ UNCHANGED <<managerVars, proxyVars>>

\* Slip: rollback starts at Fence and never demotes the new source.
RoutingFailedNoDemote ==
    /\ pc \in {"Prepare", "Commit"} /\ todo = {} /\ loopErrs # {}
    /\ GotoPhase("RbFence")
    /\ CallSetReadWrite(Local)
    /\ ManagerFrame /\ UNCHANGED proxyVars

\* Slip: a failed routing is reported as rolled back with nothing undone.
RoutingFailedNoRollback ==
    /\ pc \in {"Prepare", "Commit"} /\ todo = {} /\ loopErrs # {}
    /\ Finish("rolledBack")
    /\ UNCHANGED <<managerVars, proxyVars>>

\* Rollback of Promote: the new source is demoted first.
RoutingFailed ==
    /\ pc \in {"Prepare", "Commit"} /\ todo = {} /\ loopErrs # {}
    /\ GotoPhase("RbPromote")
    /\ CallSetReadOnly(Remote)
    /\ ManagerFrame /\ UNCHANGED proxyVars

-----------------------------------------------------------------------------
(***************************************************************************)
(* ReverseReplica (best-effort) and Verify.                                *)
(***************************************************************************)

ReverseReplica ==
    /\ pc = "ReverseReplica"
    /\ GotoPhase("Verify")
    /\ UNCHANGED <<managerVars, proxyVars>>

VerifyOk ==
    /\ pc = "Verify"
    /\ Remote \in reachable /\ ctx = "live" /\ Remote \in writable
    /\ Finish("success")
    /\ UNCHANGED <<managerVars, proxyVars>>

VerifyFail ==
    /\ pc = "Verify"
    /\ Finish("failed")
    /\ UNCHANGED <<managerVars, proxyVars>>

-----------------------------------------------------------------------------
(***************************************************************************)
(* rollback: completed phases in reverse order, each step best-effort.     *)
(***************************************************************************)

RollbackPromoteDone ==
    /\ pc = "RbPromote" /\ step = "none"
    /\ pc' = "RbFence"
    /\ CallSetReadWrite(Local)
    /\ NoteLeftWritable
    /\ UNCHANGED <<clusterVars, ctx, proxyVars, attempts, result>>

\* Slip: Execute reports the rollback without waiting for SetReadWrite.
RollbackFenceNotAwaited ==
    /\ pc = "RbFence"
    /\ pc' = "Idle" /\ result' = "rolledBack"
    /\ UNCHANGED <<managerVars, proxyVars, attempts>>

RollbackFenceDone ==
    /\ pc = "RbFence" /\ step = "none"
    /\ pc' = "Idle" /\ result' = "rolledBack"
    /\ UNCHANGED <<managerVars, proxyVars, attempts>>

-----------------------------------------------------------------------------
(***************************************************************************)
(* Deadline, process crash, environment.                                   *)
(***************************************************************************)

ContextExpires ==
    /\ pc # "Idle" /\ ctx = "live"
    /\ ctx' = "done"
    /\ UNCHANGED <<clusterVars, callVars, risk, proxyVars, engineVars>>

\* The controller pod stops; the call or loop in progress is abandoned.
Crash ==
    /\ pc # "Idle" /\ MayCrash
    /\ pc' = "Idle" /\ result' = "crashed"
    /\ step' = "none"
    /\ Proxy!DropLoop
    /\ UNCHANGED <<clusterVars, ctx, on, op, tries, ret, risk, mem, runtime, disk,
                   historyVars, attempts>>

EngineStep ==
    \/ PreFlightPass \/ PreFlightFail \/ DrainCancelled \/ DrainElapsed
    \/ FenceApplied \/ FenceRefused \/ FenceEscalate
    \/ BlackholeApplied \/ BlackholeFailed
    \/ Promoted \/ PromoteFailed \/ AllPrepared \/ AllCommitted \/ RoutingFailed
    \/ ReverseReplica \/ VerifyOk \/ VerifyFail
    \/ RollbackPromoteDone \/ RollbackFenceDone
    \/ \E i \in Instances : BlackholeOne(i) \/ PrepareOne(i) \/ CommitOne(i)

CallStep == ManagerStep /\ UNCHANGED <<proxyVars, engineVars>>

\* A ProxySQL instance restarts, maybe between two statements of a visit.
RestartOne(i) ==
    /\ restarts < MaxRestarts /\ restarts' = restarts + 1
    /\ Proxy!ProxyRestart(i)
    /\ unstaged' = IF pc \in RoutingPhases THEN unstaged \cup {i} ELSE unstaged
    /\ reopened' = IF pc = "Blackhole" /\ answered[i] > 0 THEN reopened \cup {i} ELSE reopened
    /\ UNCHANGED <<managerVars, engineVars>>

World ==
    \/ Environment /\ UNCHANGED <<proxyVars, engineVars>>
    \/ \E i \in Instances : RestartOne(i)

Next == Execute \/ EngineStep \/ CallStep \/ ContextExpires \/ Crash \/ World

Spec == Init /\ [][Next]_vars

\* A running Execute keeps taking steps; nothing else is promised.
FairSpec == Spec /\ WF_vars(EngineStep) /\ WF_vars(CallStep)

-----------------------------------------------------------------------------
(***************************************************************************)
(* Properties.                                                             *)
(***************************************************************************)

\* Every variable keeps its type, and a manager call is in progress only in
\* the phases that wait for one.
TypeOK ==
    /\ ManagerTypeOK
    /\ Proxy!ProxyTypeOK
    /\ restarts \in 0..MaxRestarts
    /\ unstaged \subseteq Instances /\ reopened \subseteq Instances
    /\ pc \in {"Idle"} \cup ForwardPhases \cup RollbackPhases
    /\ attempts \in 0..MaxAttempts
    /\ result \in {"none", "success", "failed", "rolledBack", "crashed"}
    /\ step # "none" => pc \in {"Fence", "Promote", "RbPromote", "RbFence"}

\* No split-brain by the controller's own hand: the two clusters accept writes
\* at the same time only if one of the four recorded ways past the fence was
\* taken (phaseFence, phasePromote, rollback): a demotion confirmed on the CRD
\* alone, an operator acting on a CRD the controller left behind, a remote
\* cluster left writable by a failed call, or the ProxySQL fence.
DualWritersExplained ==
    Local \in writable /\ Remote \in writable => risk # {}

\* The ProxySQL fence holds where it applies: if it was the only way past the
\* SQL fence, no two local instances deliver client writes to different
\* clusters (Blackhole, ApplyFailoverRouting). An instance that restarted
\* between two statements of runBlackholeSteps is excepted: the rest of the
\* visit then activates and saves the rows read from disk, the old writer's
\* among them, and Blackhole still reports no error.
SingleWritePath ==
    (\E i \in Instances \ reopened, j \in Instances :
        /\ Local \in writable /\ Proxy!RoutesWritesTo(i, Local)
        /\ Remote \in writable /\ Proxy!RoutesWritesTo(j, Remote))
    => risk \ {"blackhole"} # {}

\* When Execute reports success the new source is writable and every instance
\* sends writes to it and to it alone, unless that instance restarted after
\* its rows were staged (phaseRouting, phaseVerify).
SuccessMeansSwitched ==
    [][result' = "success" /\ result # "success" =>
          /\ Remote \in writable
          /\ \A i \in Instances \ unstaged :
                /\ Proxy!RoutesWritesTo(i, Remote)
                /\ ~Proxy!RoutesWritesTo(i, Local)]_vars

\* writable, risk and result seen as the state of module WriteRole.
Role == INSTANCE WriteRole WITH
    Old <- Local, New <- Remote,
    holders <- writable, waived <- risk # {}, outcome <- result

\* The engine implements the write role: until a risk is recorded, writes are
\* enabled on a cluster only while they are disabled on the other, Execute
\* reports success only when the role has moved, and a rollback only when the
\* remote cluster does not hold it.
MovesWriteRole == Role!RoleSpec

\* Execute returns: every retry loop and every wait of Execute and of the
\* managers it calls is bounded.
ExecuteReturns == (pc # "Idle") ~> (pc = "Idle")

=============================================================================
