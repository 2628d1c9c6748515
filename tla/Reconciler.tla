------------------------------ MODULE Reconciler ------------------------------
(***************************************************************************)
(* The ClusterSwitchPolicy reconciler (internal/controller): Reconcile,    *)
(* the failover decision (decision.go), the attempt checkpoints            *)
(* (progress.go), abandonment of a stuck attempt, recovery from Degraded   *)
(* and the finalizer (finalizer.go).                                       *)
(*                                                                         *)
(* The custom resource lives in the API server and survives the            *)
(* controller: object ... lastAnnotation. Reconcile is cut into one action *)
(* per write to the server, because a write can fail and the controller    *)
(* can stop between any two. What Reconcile holds in memory meanwhile is   *)
(* pc ... outcome. The switchover engine is seen through its reporter: the *)
(* phase it is in, the checkpoints it writes and the result it returns.    *)
(*                                                                         *)
(* Durations are flags that an action of the clock raises: the age of an   *)
(* attempt against resumeStuckTimeout, the cooldown, the auto-recovery     *)
(* interval. A failure counter stops at its threshold, which is all the    *)
(* decision compares it with.                                              *)
(***************************************************************************)
EXTENDS Naturals

CONSTANTS
    FailureThreshold,            \* spec.healthCheck.failureThreshold
    RemoteUnreachableThreshold,  \* spec.healthCheck.remoteUnreachableThreshold, 0 = off
    AutoFailover,                \* spec.autoFailover: "on" or "off"
    AllowDataLossFailover,       \* spec.allowDataLossFailover: "on" or "off"
    AutoRecovery,                \* whether spec.recovery.autoRecoveryInterval > 0
    MaxAttempts,                 \* bound: attempts started
    MaxRequests,                 \* bound: manual requests and recovery annotations
    MaxFaults                    \* bound: failed writes and controller stops

ASSUME ReconcilerAssumption ==
    /\ FailureThreshold \in Nat \ {0}
    /\ RemoteUnreachableThreshold \in Nat
    /\ AutoFailover \in {"on", "off"} /\ AllowDataLossFailover \in {"on", "off"}
    /\ AutoRecovery \in {"on", "off"}
    /\ MaxAttempts \in Nat /\ MaxRequests \in Nat /\ MaxFaults \in Nat

VARIABLES
    \* The custom resource.
    object,             \* "present", "deleting" (deletionTimestamp set) or "gone"
    finalizer,          \* "absent" or "set"
    manual,             \* spec.manualSwitchoverTarget: "" or "promote-remote"
    annotation,         \* the recover-degraded annotation; 0 = unset
    phase,              \* status.phase
    prog,               \* status.switchoverProgress
    failures,           \* status.consecutiveLocalFailures
    unreachable,        \* status.consecutiveLocalUnreachable
    remoteUnreachable,  \* status.consecutiveRemoteUnreachable
    active,             \* status.activeCluster: "", "local" or "remote"
    cooldown,           \* "active" while lastSwitchoverTime is recent, else "over"
    recoveryDue,        \* whether autoRecoveryInterval has elapsed: "yes" or "no"
    lastAnnotation,     \* status.lastRecoveryAnnotation
    \* The running Reconcile.
    pc, obs, policy, reason, attempt, at, outcome,
    \* History and bounds.
    requests,           \* manual requests made
    manualAttempts,     \* attempts started for a manual request
    badStreak,          \* consecutive saved checks that found local not healthy
    faults

crVars == <<object, finalizer, manual, annotation, phase, prog, failures, unreachable,
            remoteUnreachable, active, cooldown, recoveryDue, lastAnnotation>>
runVars == <<pc, obs, policy, reason, attempt, at, outcome>>
historyVars == <<requests, manualAttempts, badStreak>>
vars == <<crVars, runVars, historyVars, faults>>

specVars == <<object, finalizer, manual, annotation>>
counterVars == <<failures, unreachable, remoteUnreachable>>
statusVars == <<phase, prog, counterVars, active, cooldown, recoveryDue, lastAnnotation>>

EnginePhases == {"PreFlight", "Fence", "Promote", "Routing", "ReverseReplica", "Verify"}

Following(p) ==
    CASE p = "PreFlight" -> "Fence"
      [] p = "Fence" -> "Promote"
      [] p = "Promote" -> "Routing"
      [] p = "Routing" -> "ReverseReplica"
      [] p = "ReverseReplica" -> "Verify"

\* SwitchoverProgress; attempt 0 stands for a nil pointer.
NoProgress == [attempt |-> 0, current |-> "", failed |-> "", age |-> "fresh"]
Started(a) == [attempt |-> a, current |-> "PreFlight", failed |-> "", age |-> "fresh"]

\* ClusterHealth as Check builds it: a healthy cluster answered, so whether it
\* is writable is known; an unhealthy one may have answered ("yes", "no"), or
\* not, or not been asked because its CRD was not ready ("unknown").
Health ==
    {[healthy |-> h, writable |-> w] : h \in {"yes", "no"}, w \in {"yes", "no", "unknown"}}
        \ {[healthy |-> "yes", writable |-> "unknown"]}
NoHealth == [healthy |-> "no", writable |-> "unknown"]
NoObs == [local |-> NoHealth, remote |-> NoHealth]
NoPolicy == [manual |-> "", annotation |-> 0, quarantined |-> "no"]

\* Every variable keeps its type, and while the engine runs the CR says so and
\* carries the record of this very attempt.
TypeOK ==
    /\ object \in {"present", "deleting", "gone"} /\ finalizer \in {"absent", "set"}
    /\ manual \in {"", "promote-remote"}
    /\ annotation \in 0..MaxRequests /\ lastAnnotation \in 0..MaxRequests
    /\ phase \in {"", "Initializing", "Monitoring", "SwitchingOver", "Degraded"}
    /\ prog \in [attempt : 0..MaxAttempts, current : EnginePhases \cup {"", "Done"},
                 failed : EnginePhases \cup {"", "Done"}, age : {"fresh", "stuck"}]
    /\ failures \in 0..FailureThreshold /\ unreachable \in 0..FailureThreshold
    /\ remoteUnreachable \in 0..RemoteUnreachableThreshold
    /\ active \in {"", "local", "remote"}
    /\ cooldown \in {"active", "over"} /\ recoveryDue \in {"yes", "no"}
    /\ pc \in {"idle", "health", "decide", "clear", "start", "begin", "run", "result"}
    /\ obs \in [local : Health, remote : Health]
    /\ policy \in [manual : {"", "promote-remote"}, annotation : 0..MaxRequests,
                   quarantined : {"yes", "no"}]
    /\ reason \in {"", "manual", "local", "remote"}
    /\ attempt \in 0..MaxAttempts
    /\ at \in EnginePhases /\ outcome \in EnginePhases \cup {"", "Done"}
    /\ requests \in 0..MaxRequests /\ manualAttempts \in 0..MaxAttempts
    /\ badStreak \in 0..FailureThreshold
    /\ faults \in 0..MaxFaults
    /\ pc \in {"begin", "run", "result"} => phase = "SwitchingOver" /\ prog.attempt = attempt

Init ==
    /\ object = "present" /\ finalizer = "absent" /\ manual = "" /\ annotation = 0
    /\ phase = "" /\ prog = NoProgress
    /\ failures = 0 /\ unreachable = 0 /\ remoteUnreachable = 0
    /\ active = "" /\ cooldown = "over" /\ recoveryDue = "yes" /\ lastAnnotation = 0
    /\ pc = "idle" /\ obs = NoObs /\ policy = NoPolicy /\ reason = "" /\ attempt = 0
    /\ at = "PreFlight" /\ outcome = ""
    /\ requests = 0 /\ manualAttempts = 0 /\ badStreak = 0 /\ faults = 0

\* Reconcile returns; what it held in memory is gone.
Return ==
    /\ pc' = "idle" /\ obs' = NoObs /\ policy' = NoPolicy /\ reason' = ""
    /\ at' = "PreFlight" /\ outcome' = ""

\* A write to the API server failed: Reconcile returns the error.
WriteFails ==
    /\ faults < MaxFaults /\ faults' = faults + 1
    /\ Return /\ UNCHANGED <<crVars, attempt, historyVars>>

-----------------------------------------------------------------------------
(***************************************************************************)
(* The head of Reconcile: deletion, finalizer, first phase.                *)
(***************************************************************************)

\* handleDeletion: a switchover younger than resumeStuckTimeout holds the CR.
HandleDeletion ==
    /\ pc = "idle" /\ object = "deleting" /\ finalizer = "set"
    /\ ~(phase = "SwitchingOver" /\ prog.attempt # 0 /\ prog.age = "fresh")
    /\ finalizer' = "absent" /\ object' = "gone"
    /\ UNCHANGED <<manual, annotation, statusVars, runVars, historyVars, faults>>

EnsureFinalizer ==
    /\ pc = "idle" /\ object = "present" /\ finalizer = "absent"
    /\ finalizer' = "set"
    /\ UNCHANGED <<object, manual, annotation, statusVars, runVars, historyVars, faults>>

\* Slip: work starts on a CR that does not hold the finalizer yet.
BeginWithoutFinalizer ==
    /\ pc = "idle" /\ object = "present"
    /\ phase' = IF phase = "" THEN "Initializing" ELSE phase
    /\ pc' = "health"
    /\ UNCHANGED <<specVars, prog, counterVars, active, cooldown, recoveryDue,
                   lastAnnotation, obs, policy, reason, attempt, at, outcome,
                   historyVars, faults>>

\* Initialise status.phase on first sight, then check the health.
BeginReconcile ==
    /\ pc = "idle" /\ object = "present" /\ finalizer = "set"
    /\ phase' = IF phase = "" THEN "Initializing" ELSE phase
    /\ pc' = "health"
    /\ UNCHANGED <<specVars, prog, counterVars, active, cooldown, recoveryDue,
                   lastAnnotation, obs, policy, reason, attempt, at, outcome,
                   historyVars, faults>>

-----------------------------------------------------------------------------
(***************************************************************************)
(* Health checks: updateHealthStatus and the patch that saves it.          *)
(***************************************************************************)

Bump(n, limit) == IF n < limit THEN n + 1 ELSE n

\* Slip: a healthy check does not reset the failures.
LocalFailuresNoReset(h) ==
    IF h.healthy = "no" /\ h.writable # "unknown" THEN Bump(failures, FailureThreshold)
    ELSE failures

LocalFailures(h) ==
    IF h.healthy = "yes" THEN 0
    ELSE IF h.writable = "unknown" THEN failures ELSE Bump(failures, FailureThreshold)

LocalUnreachable(h) ==
    IF h.healthy = "yes" THEN 0
    ELSE IF h.writable = "unknown" THEN Bump(unreachable, FailureThreshold) ELSE unreachable

RemoteUnreachable(h) ==
    IF h.healthy = "no" /\ h.writable = "unknown"
    THEN Bump(remoteUnreachable, RemoteUnreachableThreshold) ELSE 0

\* activeCluster is set once from what is writable and corrected to local
\* whenever local is writable, never to remote.
ActiveSeen(l, r) ==
    IF l.writable = "yes" THEN "local"
    ELSE IF active = "" /\ r.writable = "yes" THEN "remote" ELSE active

\* The health patch succeeds; its response refreshes the policy in memory.
\* Whether the replica is quarantined comes from the replication-error part.
SaveHealth(l, r, q) ==
    /\ pc = "health"
    /\ failures' = LocalFailures(l)
    /\ unreachable' = LocalUnreachable(l)
    /\ remoteUnreachable' = RemoteUnreachable(r)
    /\ active' = ActiveSeen(l, r)
    /\ obs' = [local |-> l, remote |-> r]
    /\ policy' = [manual |-> manual, annotation |-> annotation, quarantined |-> q]
    /\ pc' = "decide"
    /\ badStreak' = IF l.healthy = "yes" THEN 0 ELSE Bump(badStreak, FailureThreshold)
    /\ UNCHANGED <<specVars, phase, prog, cooldown, recoveryDue, lastAnnotation, reason,
                   attempt, at, outcome, requests, manualAttempts, faults>>

SaveHealthFails == pc = "health" /\ WriteFails

-----------------------------------------------------------------------------
(***************************************************************************)
(* handleStuckSwitchover and handleDegradedRecovery.                       *)
(***************************************************************************)

\* Slip: the age of the attempt is never looked at.
StuckNever == FALSE

\* A checkpoint without a failed phase that is older than resumeStuckTimeout.
Stuck == prog.attempt # 0 /\ prog.failed = "" /\ prog.age = "stuck"

AbandonStuck ==
    /\ pc = "decide" /\ Stuck
    /\ phase' = "Degraded" /\ prog' = [prog EXCEPT !.failed = prog.current]
    /\ Return
    /\ UNCHANGED <<specVars, counterVars, active, cooldown, recoveryDue, lastAnnotation,
                   attempt, historyVars, faults>>

AbandonStuckFails == pc = "decide" /\ Stuck /\ WriteFails

RecoveryTriggered ==
    \/ policy.annotation # 0 /\ policy.annotation # lastAnnotation
    \/ AutoRecovery = "on" /\ recoveryDue = "yes"

\* Slip: it is enough that some cluster is writable.
SomeWritable == obs.local.writable = "yes" \/ obs.remote.writable = "yes"

ExactlyOneWritable == (obs.local.writable = "yes") # (obs.remote.writable = "yes")

DegradedRecovery ==
    /\ pc = "decide" /\ ~Stuck /\ phase = "Degraded"
    /\ IF RecoveryTriggered
       THEN /\ recoveryDue' = "no"
            /\ lastAnnotation' = IF policy.annotation # 0 THEN policy.annotation
                                 ELSE lastAnnotation
            /\ IF obs.local.healthy = "yes" /\ obs.remote.healthy = "yes" /\ ExactlyOneWritable
               THEN phase' = "Monitoring" /\ prog' = NoProgress
               ELSE UNCHANGED <<phase, prog>>
       ELSE UNCHANGED <<recoveryDue, lastAnnotation, phase, prog>>
    /\ Return
    /\ UNCHANGED <<specVars, counterVars, active, cooldown, attempt, historyVars, faults>>

DegradedRecoveryFails ==
    pc = "decide" /\ ~Stuck /\ phase = "Degraded" /\ RecoveryTriggered /\ WriteFails

-----------------------------------------------------------------------------
(***************************************************************************)
(* decideSwitchover and EvaluateSwitchover.                                *)
(***************************************************************************)

LocalDown == failures >= FailureThreshold \/ unreachable >= FailureThreshold

\* The remote cluster can be promoted: it answered, is read-only and healthy,
\* and the local one is not known to be read-only too.
RemotePromotable ==
    /\ obs.remote.writable = "no" /\ obs.remote.healthy = "yes"
    /\ obs.local.writable # "no"

RemoteGone ==
    RemoteUnreachableThreshold > 0 /\ remoteUnreachable >= RemoteUnreachableThreshold

\* EvaluateSwitchover: the trigger that fires, "" when none does. The cooldown
\* holds back a manual request too.
Evaluate ==
    IF cooldown = "active" THEN ""
    ELSE IF policy.manual # "" THEN "manual"
    ELSE IF AutoFailover = "off" THEN ""
    ELSE IF RemoteGone THEN (IF AllowDataLossFailover = "on" THEN "remote" ELSE "")
    ELSE IF LocalDown /\ RemotePromotable THEN "local" ELSE ""

Deciding == pc = "decide" /\ ~Stuck /\ phase # "Degraded"

\* No flip: the decision or the peer-lease gate said no.
NoSwitch ==
    /\ Deciding
    /\ phase' = IF phase = "SwitchingOver" THEN phase ELSE "Monitoring"
    /\ Return
    /\ UNCHANGED <<specVars, prog, counterVars, active, cooldown, recoveryDue,
                   lastAnnotation, attempt, historyVars, faults>>

NoSwitchFails == Deciding /\ phase # "SwitchingOver" /\ WriteFails

\* A manual request is refused, and kept, while the replica is quarantined.
ManualRefused ==
    /\ Deciding /\ Evaluate # "" /\ policy.manual # "" /\ policy.quarantined = "yes"
    /\ Return
    /\ UNCHANGED <<crVars, attempt, historyVars, faults>>

Switch ==
    /\ Deciding /\ Evaluate # "" /\ attempt < MaxAttempts
    /\ ~(policy.manual # "" /\ policy.quarantined = "yes")
    /\ reason' = Evaluate
    /\ pc' = IF policy.manual # "" THEN "clear" ELSE "start"
    /\ obs' = NoObs /\ policy' = NoPolicy      \* not read again
    /\ UNCHANGED <<crVars, attempt, at, outcome, historyVars, faults>>

\* Slip: the attempt starts with the manual trigger still set.
ClearManualKept ==
    /\ pc = "clear"
    /\ pc' = "start"
    /\ UNCHANGED <<crVars, obs, policy, reason, attempt, at, outcome, historyVars, faults>>

\* The manual trigger is cleared before the attempt starts.
ClearManual ==
    /\ pc = "clear"
    /\ manual' = "" /\ pc' = "start"
    /\ UNCHANGED <<object, finalizer, annotation, statusVars, obs, policy, reason, attempt,
                   at, outcome, historyVars, faults>>

ClearManualFails == pc = "clear" /\ WriteFails

\* Slip: the attempt runs although its start could not be recorded.
StartAttemptUnrecorded ==
    /\ pc = "start"
    /\ attempt' = attempt + 1
    /\ UNCHANGED <<phase, prog>> \/ (phase' = "SwitchingOver" /\ prog' = Started(attempt + 1))
    /\ pc' = "begin" /\ at' = "PreFlight"
    /\ manualAttempts' = IF reason = "manual" THEN manualAttempts + 1 ELSE manualAttempts
    /\ UNCHANGED <<specVars, counterVars, active, cooldown, recoveryDue, lastAnnotation,
                   obs, policy, reason, outcome, requests, badStreak, faults>>

\* phase = SwitchingOver and a new progress record.
StartAttempt ==
    /\ pc = "start"
    /\ attempt' = attempt + 1
    /\ phase' = "SwitchingOver" /\ prog' = Started(attempt + 1)
    /\ pc' = "begin" /\ at' = "PreFlight"
    /\ manualAttempts' = IF reason = "manual" THEN manualAttempts + 1 ELSE manualAttempts
    /\ UNCHANGED <<specVars, counterVars, active, cooldown, recoveryDue, lastAnnotation,
                   obs, policy, reason, outcome, requests, badStreak, faults>>

StartAttemptFails == pc = "start" /\ WriteFails

-----------------------------------------------------------------------------
(***************************************************************************)
(* Execute, through its progress reporter. A lost checkpoint is ignored.   *)
(***************************************************************************)

\* writeProgress; a record of another attempt is replaced.
Checkpointed(current, failed) ==
    LET base == IF prog.attempt = attempt THEN prog ELSE Started(attempt)
    IN [base EXCEPT !.current = current, !.failed = IF failed = "" THEN @ ELSE failed]

Checkpoint(current, failed) ==
    \/ prog' = Checkpointed(current, failed) /\ UNCHANGED faults
    \/ UNCHANGED prog /\ faults < MaxFaults /\ faults' = faults + 1

EngineFrame ==
    UNCHANGED <<specVars, phase, counterVars, active, cooldown, recoveryDue,
                lastAnnotation, obs, policy, reason, attempt, historyVars>>

PhaseStart ==
    /\ pc = "begin"
    /\ Checkpoint(at, "")
    /\ pc' = "run"
    /\ EngineFrame /\ UNCHANGED <<at, outcome>>

\* executeSwitchover configures no reverse replication source, so the phase
\* ReverseReplica always ends in an error.
PhaseComplete ==
    /\ pc = "run" /\ at # "ReverseReplica"
    /\ Checkpoint(at, "")
    /\ IF at = "Verify"
       THEN pc' = "result" /\ outcome' = "Done" /\ UNCHANGED at
       ELSE pc' = "begin" /\ at' = Following(at) /\ UNCHANGED outcome
    /\ EngineFrame

\* An error in ReverseReplica is reported and Execute goes on.
PhaseError ==
    /\ pc = "run"
    /\ Checkpoint(at, at)
    /\ IF at = "ReverseReplica"
       THEN pc' = "begin" /\ at' = "Verify" /\ UNCHANGED outcome
       ELSE pc' = "result" /\ outcome' = at /\ UNCHANGED at
    /\ EngineFrame

\* The deadline cut the drain short: Fence failed without a checkpoint.
DrainCancelled ==
    /\ pc = "begin" /\ at = "Fence"
    /\ pc' = "result" /\ outcome' = "Fence"
    /\ EngineFrame /\ UNCHANGED <<at, prog, faults>>

\* writeSwitchoverResult. The patch is the difference with the policy as it was
\* before Execute, so a FailedPhase a checkpoint wrote stays on the server.
ResultSuccess ==
    /\ pc = "result" /\ outcome = "Done"
    /\ phase' = "Monitoring" /\ cooldown' = "active"
    /\ failures' = 0 /\ unreachable' = 0 /\ remoteUnreachable' = 0
    /\ active' = IF active = "local" THEN "remote" ELSE "local"
    /\ prog' = [prog EXCEPT !.current = "Done"]
    /\ Return
    /\ UNCHANGED <<specVars, recoveryDue, lastAnnotation, attempt, historyVars, faults>>

ResultFailure ==
    /\ pc = "result" /\ outcome # "Done"
    /\ phase' = "Degraded"
    /\ prog' = [prog EXCEPT !.failed = outcome]
    /\ Return
    /\ UNCHANGED <<specVars, counterVars, active, cooldown, recoveryDue, lastAnnotation,
                   attempt, historyVars, faults>>

ResultLost == pc = "result" /\ WriteFails

-----------------------------------------------------------------------------
(***************************************************************************)
(* Clock, users, controller stops.                                         *)
(***************************************************************************)

AttemptAges ==
    /\ prog.attempt # 0 /\ prog.age = "fresh"
    /\ prog' = [prog EXCEPT !.age = "stuck"]
    /\ UNCHANGED <<specVars, phase, counterVars, active, cooldown, recoveryDue,
                   lastAnnotation, runVars, historyVars, faults>>

CooldownEnds ==
    /\ cooldown = "active"
    /\ cooldown' = "over"
    /\ UNCHANGED <<specVars, phase, prog, counterVars, active, recoveryDue, lastAnnotation,
                   runVars, historyVars, faults>>

RecoveryIntervalElapses ==
    /\ recoveryDue = "no"
    /\ recoveryDue' = "yes"
    /\ UNCHANGED <<specVars, phase, prog, counterVars, active, cooldown, lastAnnotation,
                   runVars, historyVars, faults>>

RequestManual ==
    /\ object = "present" /\ manual = "" /\ requests < MaxRequests
    /\ manual' = "promote-remote" /\ requests' = requests + 1
    /\ UNCHANGED <<object, finalizer, annotation, statusVars, runVars, manualAttempts,
                   badStreak, faults>>

AnnotateRecover ==
    /\ object = "present" /\ annotation < MaxRequests
    /\ annotation' = annotation + 1
    /\ UNCHANGED <<object, finalizer, manual, statusVars, runVars, historyVars, faults>>

DeleteObject ==
    /\ object = "present"
    /\ object' = IF finalizer = "set" THEN "deleting" ELSE "gone"
    /\ UNCHANGED <<finalizer, manual, annotation, statusVars, runVars, historyVars, faults>>

\* The controller stops during Reconcile; another one starts over.
Crash ==
    /\ pc # "idle" /\ faults < MaxFaults /\ faults' = faults + 1
    /\ Return
    /\ UNCHANGED <<crVars, attempt, historyVars>>

ControllerStep ==
    \/ HandleDeletion \/ EnsureFinalizer \/ BeginReconcile
    \/ \E l, r \in Health, q \in {"yes", "no"} : SaveHealth(l, r, q)
    \/ SaveHealthFails \/ AbandonStuck \/ AbandonStuckFails
    \/ DegradedRecovery \/ DegradedRecoveryFails
    \/ NoSwitch \/ NoSwitchFails \/ ManualRefused \/ Switch
    \/ ClearManual \/ ClearManualFails \/ StartAttempt \/ StartAttemptFails
    \/ PhaseStart \/ PhaseComplete \/ PhaseError \/ DrainCancelled
    \/ ResultSuccess \/ ResultFailure \/ ResultLost

Next ==
    \/ ControllerStep \/ Crash
    \/ AttemptAges \/ CooldownEnds \/ RecoveryIntervalElapses
    \/ RequestManual \/ AnnotateRecover \/ DeleteObject

Spec == Init /\ [][Next]_vars

\* Every return of Reconcile is requeued, and attempts grow old.
FairSpec == Spec /\ WF_vars(ControllerStep) /\ WF_vars(AttemptAges)

-----------------------------------------------------------------------------
(***************************************************************************)
(* Properties.                                                             *)
(***************************************************************************)

\* A manual request is good for one attempt, whatever fails on the way and
\* however often the controller restarts (Reconcile, the trigger is cleared
\* before the attempt).
ManualOneAttempt == manualAttempts <= requests

\* An automatic failover of the local cluster starts only after enough saved
\* checks in a row found it not healthy (updateHealthStatus, EvaluateSwitchover).
FailoverSustained ==
    pc \in {"start", "begin", "run", "result"} /\ reason = "local"
        => badStreak >= FailureThreshold

\* The CR outlives the attempt: it is not removed while the engine runs, nor
\* before resumeStuckTimeout once the controller died under it (finalizer.go).
NotDeletedMidAttempt ==
    \/ pc \in {"begin", "run", "result"}
    \/ phase = "SwitchingOver" /\ prog.age = "fresh"
    => object # "gone"

\* Degraded is left only through a recovery that saw both clusters healthy and
\* one of them, not both, writable (handleDegradedRecovery); in particular no
\* attempt starts from Degraded.
DegradedHolds ==
    [][phase = "Degraded" /\ phase' # "Degraded" =>
          /\ phase' = "Monitoring"
          /\ obs.local.healthy = "yes" /\ obs.remote.healthy = "yes"
          /\ {obs.local.writable, obs.remote.writable} = {"yes", "no"}]_vars

\* An attempt the controller died under, without a failure on record, does not
\* stay SwitchingOver for ever (handleStuckSwitchover).
StuckAttemptEnds ==
    (phase = "SwitchingOver" /\ prog.failed = "")
        ~> (phase # "SwitchingOver" \/ prog.failed # "" \/ object = "gone")

-----------------------------------------------------------------------------
(***************************************************************************)
(* What comments of the code say and the code does not do.                 *)
(***************************************************************************)

\* "so the reconciler can resume after a pod restart instead of leaving the CR
\* stuck in PhaseSwitchingOver forever" (clusterswitchpolicy_types.go).
SwitchingOverEnds ==
    (phase = "SwitchingOver") ~> (phase # "SwitchingOver" \/ object = "gone")

=============================================================================
