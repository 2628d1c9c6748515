-------------------------- MODULE ReconcilerProofs --------------------------
(***************************************************************************)
(* Proofs about Reconciler, for any thresholds, any switches of the policy *)
(* and any number of requests, attempts, lost writes and restarts.         *)
(***************************************************************************)
EXTENDS Reconciler, TLAPS

-----------------------------------------------------------------------------
(***************************************************************************)
(* A manual request is good for one attempt.                               *)
(*                                                                         *)
(* manualAttempts <= requests is not inductive: a step may start an        *)
(* attempt with no request left to pay for it. The strengthening counts    *)
(* the requests that are still due: the one in the spec, and the one that  *)
(* Reconcile has taken out of the spec and not yet turned into an attempt. *)
(***************************************************************************)

InSpec == manual # ""
InFlight == pc = "start" /\ reason = "manual"

\* What Reconcile has read of the trigger is still in the spec until it is
\* cleared: users only set it, and only when it is empty.
TriggerHeld ==
    /\ pc = "decide" /\ policy.manual # "" => manual # ""
    /\ pc = "clear" => manual # ""

ManualInv ==
    /\ requests \in Nat /\ manualAttempts \in Nat
    /\ TriggerHeld
    /\ manualAttempts <= requests
    /\ InSpec \/ InFlight => manualAttempts + 1 <= requests
    /\ InSpec /\ InFlight => manualAttempts + 2 <= requests

LEMMA ManualInit == Init => ManualInv
  <1> SUFFICES ASSUME Init PROVE ManualInv
    OBVIOUS
  <1>1. manual = "" /\ pc = "idle"
    BY DEF Init
  <1>2. TriggerHeld /\ ~InSpec /\ ~InFlight
    BY <1>1 DEF TriggerHeld, InSpec, InFlight
  <1>3. requests = 0 /\ manualAttempts = 0
    BY DEF Init
  <1> QED BY <1>2, <1>3 DEF ManualInv

\* Only a trigger that Reconcile has read is a manual reason.
LEMMA ManualReason == Evaluate = "manual" => policy.manual # ""
  BY DEF Evaluate

\* The steps that touch neither the trigger nor the counters and do not lead to
\* an attempt.
LEMMA ManualFrame ==
    ASSUME ManualInv, UNCHANGED <<manual, requests, manualAttempts>>,
           \/ pc' \notin {"decide", "clear", "start"}
           \/ UNCHANGED <<pc, policy, reason>>
    PROVE  ManualInv'
  BY DEF ManualInv, TriggerHeld, InSpec, InFlight

LEMMA ManualStep == ASSUME ManualInv, [Next]_vars PROVE ManualInv'
  <1> USE DEF specVars, crVars, runVars, historyVars, Return, WriteFails, EngineFrame
  <1>1. CASE HandleDeletion \/ EnsureFinalizer \/ BeginReconcile
    BY <1>1, ManualFrame DEF HandleDeletion, EnsureFinalizer, BeginReconcile
  <1>2. CASE \E l, r \in Health, q \in {"yes", "no"} : SaveHealth(l, r, q)
    <2>1. /\ pc' = "decide" /\ UNCHANGED <<manual, requests, manualAttempts>>
          /\ pc # "start" /\ policy'.manual = manual
      BY <1>2 DEF SaveHealth
    <2> QED BY <2>1 DEF ManualInv, TriggerHeld, InSpec, InFlight
  <1>3. CASE \/ SaveHealthFails \/ AbandonStuckFails \/ DegradedRecoveryFails \/ NoSwitchFails
             \/ ClearManualFails \/ StartAttemptFails \/ ResultLost \/ Crash
    BY <1>3, ManualFrame
    DEF SaveHealthFails, AbandonStuckFails, DegradedRecoveryFails, NoSwitchFails,
        ClearManualFails, StartAttemptFails, ResultLost, Crash
  <1>4. CASE AbandonStuck \/ DegradedRecovery \/ NoSwitch \/ ManualRefused
    BY <1>4, ManualFrame DEF AbandonStuck, DegradedRecovery, NoSwitch, ManualRefused
  <1>5. CASE Switch
    BY <1>5, ManualReason
    DEF Switch, Deciding, ManualInv, TriggerHeld, InSpec, InFlight
  <1>6. CASE ClearManual
    BY <1>6 DEF ClearManual, ManualInv, TriggerHeld, InSpec, InFlight
  <1>7. CASE StartAttempt
    <2>1. /\ pc = "start" /\ pc' = "begin" /\ UNCHANGED <<manual, requests>>
          /\ manualAttempts' = IF reason = "manual" THEN manualAttempts + 1 ELSE manualAttempts
      BY <1>7 DEF StartAttempt
    <2>2. TriggerHeld' /\ ~InFlight' /\ (InSpec' <=> InSpec) /\ (InFlight <=> reason = "manual")
      BY <2>1 DEF TriggerHeld, InSpec, InFlight
    <2> QED BY <2>1, <2>2 DEF ManualInv
  <1>8. CASE \/ PhaseStart \/ PhaseComplete \/ PhaseError \/ DrainCancelled
             \/ ResultSuccess \/ ResultFailure
    BY <1>8, ManualFrame
    DEF PhaseStart, PhaseComplete, PhaseError, DrainCancelled, ResultSuccess, ResultFailure
  <1>9. CASE AttemptAges \/ CooldownEnds \/ RecoveryIntervalElapses \/ AnnotateRecover
             \/ DeleteObject
    BY <1>9, ManualFrame
    DEF AttemptAges, CooldownEnds, RecoveryIntervalElapses, AnnotateRecover, DeleteObject
  <1>10. CASE RequestManual
    <2>1. /\ manual = "" /\ manual' = "promote-remote"
          /\ UNCHANGED <<pc, policy, reason>>
      BY <1>10 DEF RequestManual
    <2>2. TriggerHeld' /\ ~InSpec /\ InSpec' /\ (InFlight' <=> InFlight)
      BY <2>1 DEF TriggerHeld, InSpec, InFlight
    <2>3. requests' = requests + 1 /\ manualAttempts' = manualAttempts
      BY <1>10 DEF RequestManual
    <2> QED BY <2>2, <2>3 DEF ManualInv
  <1>11. CASE UNCHANGED vars
    BY <1>11, ManualFrame DEF vars
  <1> QED BY <1>1, <1>2, <1>3, <1>4, <1>5, <1>6, <1>7, <1>8, <1>9, <1>10, <1>11
          DEF Next, ControllerStep

\* However many writes are lost and however often the controller restarts, the
\* attempts started for manual requests never outnumber the requests.
THEOREM ManualAttemptsBounded == Spec => []ManualOneAttempt
  <1>1. ManualInv => ManualOneAttempt
    BY DEF ManualInv, ManualOneAttempt, InSpec, InFlight
  <1> QED BY ManualInit, ManualStep, <1>1, PTL DEF Spec

-----------------------------------------------------------------------------
(***************************************************************************)
(* Types. The bound on attempts is checked when Reconcile decides, and an  *)
(* attempt counts as a manual one at most once.                            *)
(***************************************************************************)

AttemptInv ==
    /\ pc \in {"clear", "start"} => attempt < MaxAttempts
    /\ manualAttempts <= attempt

PhaseNames == EnginePhases \cup {"", "Done"}
Ages == {"fresh", "stuck"}
ProgressRecords ==
    [attempt : 0..MaxAttempts, current : PhaseNames, failed : PhaseNames, age : Ages]
ObsRecords == [local : Health, remote : Health]
PolicyRecords ==
    [manual : {"", "promote-remote"}, annotation : 0..MaxRequests, quarantined : {"yes", "no"}]

\* TypeOK by parts.
SpecTypes ==
    /\ object \in {"present", "deleting", "gone"} /\ finalizer \in {"absent", "set"}
    /\ manual \in {"", "promote-remote"}
    /\ annotation \in 0..MaxRequests /\ lastAnnotation \in 0..MaxRequests
StatusTypes ==
    /\ phase \in {"", "Initializing", "Monitoring", "SwitchingOver", "Degraded"}
    /\ prog \in ProgressRecords /\ active \in {"", "local", "remote"}
    /\ cooldown \in {"active", "over"} /\ recoveryDue \in {"yes", "no"}
CounterTypes ==
    /\ failures \in 0..FailureThreshold /\ unreachable \in 0..FailureThreshold
    /\ remoteUnreachable \in 0..RemoteUnreachableThreshold
    /\ badStreak \in 0..FailureThreshold
RunTypes ==
    /\ pc \in {"idle", "health", "decide", "clear", "start", "begin", "run", "result"}
    /\ obs \in ObsRecords /\ policy \in PolicyRecords
    /\ reason \in {"", "manual", "local", "remote"}
    /\ at \in EnginePhases /\ outcome \in PhaseNames
CountTypes ==
    /\ attempt \in 0..MaxAttempts /\ faults \in 0..MaxFaults
    /\ requests \in 0..MaxRequests /\ manualAttempts \in 0..MaxAttempts
EngineRecorded ==
    pc \in {"begin", "run", "result"} => phase = "SwitchingOver" /\ prog.attempt = attempt

TypeInv ==
    /\ SpecTypes /\ StatusTypes /\ CounterTypes /\ RunTypes /\ CountTypes /\ EngineRecorded
    /\ AttemptInv

\* What the proofs use of the constants.
LEMMA Bounds ==
    /\ FailureThreshold \in Nat /\ FailureThreshold >= 1 /\ RemoteUnreachableThreshold \in Nat
    /\ MaxAttempts \in Nat /\ MaxRequests \in Nat /\ MaxFaults \in Nat
  BY ReconcilerAssumption

\* The parts are all of TypeOK.
LEMMA TypeParts == TypeInv => TypeOK
  BY DEF TypeInv, TypeOK, SpecTypes, StatusTypes, CounterTypes, RunTypes, CountTypes, EngineRecorded,
     ProgressRecords, ObsRecords, PolicyRecords, PhaseNames, Ages

\* The names of the phases, and what Reconcile's memory is reset to.
LEMMA NameTypes ==
    /\ EnginePhases \subseteq PhaseNames /\ "" \in PhaseNames /\ "Done" \in PhaseNames
    /\ "PreFlight" \in EnginePhases /\ "Fence" \in EnginePhases /\ "Verify" \in EnginePhases
    /\ "fresh" \in Ages /\ "stuck" \in Ages
    /\ \A p \in EnginePhases \ {"ReverseReplica", "Verify"} : Following(p) \in EnginePhases
  <1>1. \A p \in EnginePhases \ {"ReverseReplica", "Verify"} : Following(p) \in EnginePhases
    BY DEF EnginePhases, Following
  <1> QED BY <1>1 DEF EnginePhases, PhaseNames, Ages

LEMMA MemoryTypes == NoObs \in ObsRecords /\ NoPolicy \in PolicyRecords
  <1>1. NoHealth \in Health
    BY DEF NoHealth, Health
  <1>2. 0 \in 0..MaxRequests
    BY ReconcilerAssumption
  <1> QED BY <1>1, <1>2 DEF NoObs, NoPolicy, ObsRecords, PolicyRecords

\* The records that StartAttempt, the result, the abandonment and the clock write
\* are progress records and keep the attempt they are about.
LEMMA ProgressMade ==
    ASSUME NEW a \in 0..MaxAttempts
    PROVE  Started(a) \in ProgressRecords /\ Started(a).attempt = a /\ NoProgress \in ProgressRecords
  <1>0. \A n \in 0..MaxAttempts, c, f \in PhaseNames, g \in Ages :
           [attempt |-> n, current |-> c, failed |-> f, age |-> g] \in ProgressRecords
    BY DEF ProgressRecords
  <1>1. 0 \in 0..MaxAttempts
    BY ReconcilerAssumption
  <1> QED BY <1>0, <1>1, NameTypes DEF Started, NoProgress

LEMMA ProgressChanged ==
    ASSUME NEW p \in ProgressRecords, NEW c \in PhaseNames, NEW g \in Ages
    PROVE  /\ p.current \in PhaseNames
           /\ [p EXCEPT !.failed = c] \in ProgressRecords
           /\ [p EXCEPT !.current = c] \in ProgressRecords
           /\ [p EXCEPT !.age = g] \in ProgressRecords
           /\ [p EXCEPT !.age = g].attempt = p.attempt
  BY DEF ProgressRecords

\* A checkpoint is a progress record of the running attempt.
LEMMA CheckpointTypes ==
    ASSUME prog \in ProgressRecords, attempt \in 0..MaxAttempts,
           NEW c \in PhaseNames, NEW f \in PhaseNames
    PROVE  Checkpointed(c, f) \in ProgressRecords /\ Checkpointed(c, f).attempt = attempt
  <1> DEFINE base == IF prog.attempt = attempt THEN prog ELSE Started(attempt)
  <1>1. base \in ProgressRecords /\ base.attempt = attempt
    BY ProgressMade
  <1>2. Checkpointed(c, f) = [base EXCEPT !.current = c, !.failed = IF f = "" THEN @ ELSE f]
    BY DEF Checkpointed
  <1> HIDE DEF base
  <1> QED BY <1>1, <1>2 DEF ProgressRecords

\* Each part is about its own variables.
LEMMA TypeFrames ==
    ASSUME TypeInv
    PROVE  /\ UNCHANGED <<object, finalizer, manual, annotation, lastAnnotation>> => SpecTypes'
           /\ UNCHANGED <<phase, prog, active, cooldown, recoveryDue>> => StatusTypes'
           /\ UNCHANGED <<failures, unreachable, remoteUnreachable, badStreak>> => CounterTypes'
           /\ UNCHANGED <<pc, obs, policy, reason, at, outcome>> => RunTypes'
           /\ UNCHANGED <<attempt, faults, requests, manualAttempts>> => CountTypes'
           /\ pc' \notin {"begin", "run", "result"} => EngineRecorded'
           /\ UNCHANGED <<pc, phase, attempt>> /\ prog'.attempt = prog.attempt => EngineRecorded'
           /\ pc' \notin {"clear", "start"} /\ UNCHANGED <<attempt, manualAttempts>> => AttemptInv'
           /\ UNCHANGED <<pc, attempt, manualAttempts>> => AttemptInv'
           /\ Return => RunTypes' /\ pc' = "idle"
  <1> USE DEF TypeInv
  <1>1. UNCHANGED <<object, finalizer, manual, annotation, lastAnnotation>> => SpecTypes'
    BY DEF SpecTypes
  <1>2. UNCHANGED <<phase, prog, active, cooldown, recoveryDue>> => StatusTypes'
    BY DEF StatusTypes
  <1>3. UNCHANGED <<failures, unreachable, remoteUnreachable, badStreak>> => CounterTypes'
    BY DEF CounterTypes
  <1>4. UNCHANGED <<pc, obs, policy, reason, at, outcome>> => RunTypes'
    BY DEF RunTypes
  <1>5. UNCHANGED <<attempt, faults, requests, manualAttempts>> => CountTypes'
    BY DEF CountTypes
  <1>6. /\ pc' \notin {"begin", "run", "result"} => EngineRecorded'
        /\ UNCHANGED <<pc, phase, attempt>> /\ prog'.attempt = prog.attempt => EngineRecorded'
    BY DEF EngineRecorded
  <1>7. /\ pc' \notin {"clear", "start"} /\ UNCHANGED <<attempt, manualAttempts>> => AttemptInv'
        /\ UNCHANGED <<pc, attempt, manualAttempts>> => AttemptInv'
    BY DEF AttemptInv
  <1>8. Return => RunTypes' /\ pc' = "idle"
    BY MemoryTypes, NameTypes DEF Return, RunTypes
  <1> QED BY <1>1, <1>2, <1>3, <1>4, <1>5, <1>6, <1>7, <1>8

LEMMA TypeStep == ASSUME TypeInv, [Next]_vars PROVE TypeInv'
  <1> USE Bounds
      DEF specVars, crVars, runVars, historyVars, statusVars, counterVars
  <1>p. SpecTypes /\ StatusTypes /\ CounterTypes /\ RunTypes /\ CountTypes /\ EngineRecorded /\ AttemptInv
    BY DEF TypeInv
  <1>q. ASSUME SpecTypes', StatusTypes', CounterTypes', RunTypes', CountTypes', EngineRecorded', AttemptInv'
        PROVE  TypeInv'
    BY <1>q DEF TypeInv
  <1>1. CASE HandleDeletion \/ EnsureFinalizer
    <2>1. SpecTypes'
      BY <1>1, <1>p DEF HandleDeletion, EnsureFinalizer, SpecTypes
    <2> QED BY <1>1, <1>q, <2>1, TypeFrames DEF HandleDeletion, EnsureFinalizer
  <1>2. CASE BeginReconcile
    <2>1. StatusTypes' /\ RunTypes'
      BY <1>2, <1>p DEF BeginReconcile, StatusTypes, RunTypes
    <2>2. pc' = "health"
      BY <1>2 DEF BeginReconcile
    <2> QED BY <1>2, <1>q, <2>1, <2>2, TypeFrames DEF BeginReconcile
  <1>3. CASE \E l, r \in Health, q \in {"yes", "no"} : SaveHealth(l, r, q)
    <2> PICK l, r \in Health, q \in {"yes", "no"} : SaveHealth(l, r, q)
      BY <1>3
    <2>1. CounterTypes'
      BY <1>p DEF SaveHealth, CounterTypes, LocalFailures, LocalUnreachable, RemoteUnreachable, Bump
    <2>2. StatusTypes'
      BY <1>p DEF SaveHealth, ActiveSeen, StatusTypes
    <2>3. obs' \in ObsRecords /\ policy' \in PolicyRecords
      BY <1>p DEF SaveHealth, ObsRecords, PolicyRecords, SpecTypes
    <2>4. RunTypes' /\ pc' = "decide"
      BY <1>p, <2>3 DEF SaveHealth, RunTypes
    <2> QED BY <1>q, <2>1, <2>2, <2>4, TypeFrames DEF SaveHealth
  <1>4. CASE \/ SaveHealthFails \/ AbandonStuckFails \/ DegradedRecoveryFails \/ NoSwitchFails
             \/ ClearManualFails \/ StartAttemptFails \/ ResultLost \/ Crash
    <2>1. /\ Return /\ faults < MaxFaults /\ faults' = faults + 1
          /\ UNCHANGED <<crVars, attempt, historyVars>>
      BY <1>4
      DEF SaveHealthFails, AbandonStuckFails, DegradedRecoveryFails, NoSwitchFails,
          ClearManualFails, StartAttemptFails, ResultLost, Crash, WriteFails
    <2>2. CountTypes'
      BY <2>1, <1>p DEF CountTypes
    <2> QED BY <1>q, <2>1, <2>2, TypeFrames
  <1>5. CASE AbandonStuck
    <2>1. prog' \in ProgressRecords
      BY <1>5, <1>p, ProgressChanged, NameTypes DEF AbandonStuck, StatusTypes
    <2>2. StatusTypes'
      BY <1>5, <1>p, <2>1 DEF AbandonStuck, StatusTypes
    <2> QED BY <1>5, <1>q, <2>2, TypeFrames DEF AbandonStuck
  <1>6. CASE DegradedRecovery
    <2>1. NoProgress \in ProgressRecords
      BY ProgressMade
    <2>2. StatusTypes'
      BY <1>6, <1>p, <2>1 DEF DegradedRecovery, StatusTypes
    <2>3. lastAnnotation' \in 0..MaxRequests
      BY <1>6, <1>p DEF DegradedRecovery, SpecTypes, RunTypes, PolicyRecords
    <2>4. SpecTypes'
      BY <1>6, <1>p, <2>3 DEF DegradedRecovery, SpecTypes
    <2> QED BY <1>6, <1>q, <2>2, <2>4, TypeFrames DEF DegradedRecovery
  <1>7. CASE NoSwitch
    <2>1. StatusTypes'
      BY <1>7, <1>p DEF NoSwitch, StatusTypes
    <2> QED BY <1>7, <1>q, <2>1, TypeFrames DEF NoSwitch
  <1>8. CASE ManualRefused
    BY <1>8, <1>q, TypeFrames DEF ManualRefused
  <1>9. CASE Switch
    <2>1. reason' \in {"", "manual", "local", "remote"}
      BY <1>9 DEF Switch, Evaluate
    <2>2. pc' \in {"clear", "start"}
      BY <1>9 DEF Switch
    <2>3. RunTypes'
      BY <1>9, <1>p, <2>1, <2>2, MemoryTypes DEF Switch, RunTypes
    <2>4. AttemptInv'
      BY <1>9, <1>p DEF Switch, AttemptInv
    <2> QED BY <1>9, <1>q, <2>2, <2>3, <2>4, TypeFrames DEF Switch
  <1>10. CASE ClearManual
    <2>1. SpecTypes' /\ RunTypes' /\ AttemptInv' /\ pc' = "start"
      BY <1>10, <1>p DEF ClearManual, SpecTypes, RunTypes, AttemptInv
    <2> QED BY <1>10, <1>q, <2>1, TypeFrames DEF ClearManual
  <1>11. CASE StartAttempt
    <2>1. attempt + 1 \in 0..MaxAttempts /\ attempt' = attempt + 1
      BY <1>11, <1>p DEF StartAttempt, CountTypes, AttemptInv
    <2>2. prog' \in ProgressRecords /\ prog'.attempt = attempt'
      BY <1>11, <2>1, ProgressMade DEF StartAttempt
    <2>3. manualAttempts' \in 0..MaxAttempts /\ manualAttempts' <= attempt'
      BY <1>11, <1>p, <2>1 DEF StartAttempt, CountTypes, AttemptInv
    <2>4. StatusTypes'
      BY <1>11, <1>p, <2>2 DEF StartAttempt, StatusTypes
    <2>5. RunTypes'
      BY <1>11, <1>p, NameTypes DEF StartAttempt, RunTypes
    <2>6. CountTypes'
      BY <1>11, <1>p, <2>1, <2>3 DEF StartAttempt, CountTypes
    <2>7. EngineRecorded' /\ AttemptInv'
      BY <1>11, <2>2, <2>3 DEF StartAttempt, EngineRecorded, AttemptInv
    <2> QED BY <1>11, <1>q, <2>4, <2>5, <2>6, <2>7, TypeFrames DEF StartAttempt
  <1>12. CASE PhaseStart \/ PhaseComplete \/ PhaseError \/ DrainCancelled
    <2>1. at \in EnginePhases /\ at \in PhaseNames /\ "" \in PhaseNames /\ attempt \in 0..MaxAttempts
      BY <1>p, NameTypes DEF RunTypes, CountTypes
    <2>2. \A f \in {"", at} : /\ Checkpointed(at, f) \in ProgressRecords
                             /\ Checkpointed(at, f).attempt = attempt
      BY <1>p, <2>1, CheckpointTypes DEF StatusTypes
    <2>3. pc \in {"begin", "run"} /\ EngineFrame
      BY <1>12 DEF PhaseStart, PhaseComplete, PhaseError, DrainCancelled
    <2>4. /\ prog \in ProgressRecords /\ prog.attempt = attempt /\ faults \in 0..MaxFaults
          /\ phase = "SwitchingOver"
      BY <1>p, <2>3 DEF StatusTypes, EngineRecorded, CountTypes
    <2>5. prog' \in ProgressRecords /\ prog'.attempt = attempt /\ faults' \in 0..MaxFaults
      <3>0. ASSUME faults < MaxFaults, faults' = faults + 1 PROVE faults' \in 0..MaxFaults
        BY <1>p, <3>0 DEF CountTypes
      <3>1. ASSUME NEW f \in {"", at}, Checkpoint(at, f)
            PROVE  prog' \in ProgressRecords /\ prog'.attempt = attempt /\ faults' \in 0..MaxFaults
        <4>1. CASE prog' = Checkpointed(at, f) /\ UNCHANGED faults
          BY <2>2, <2>4, <4>1
        <4>2. CASE UNCHANGED prog /\ faults < MaxFaults /\ faults' = faults + 1
          BY <2>4, <3>0, <4>2
        <4> QED BY <3>1, <4>1, <4>2 DEF Checkpoint
      <3>2. CASE PhaseStart \/ PhaseComplete \/ PhaseError
        <4>1. Checkpoint(at, "") \/ Checkpoint(at, at)
          BY <3>2 DEF PhaseStart, PhaseComplete, PhaseError
        <4> QED BY <3>1, <4>1
      <3>3. CASE DrainCancelled
        BY <2>4, <3>3 DEF DrainCancelled
      <3> QED BY <1>12, <3>2, <3>3
    <2>6. at' \in EnginePhases /\ outcome' \in PhaseNames /\ pc' \in {"begin", "run", "result"}
      BY <1>12, <1>p, <2>1, NameTypes
      DEF PhaseStart, PhaseComplete, PhaseError, DrainCancelled, RunTypes
    <2>7. StatusTypes'
      BY <1>p, <2>3, <2>5 DEF EngineFrame, StatusTypes
    <2>8. RunTypes'
      BY <1>p, <2>3, <2>6 DEF EngineFrame, RunTypes
    <2>9. CountTypes'
      BY <1>p, <2>3, <2>5 DEF EngineFrame, CountTypes
    <2>10. EngineRecorded' /\ AttemptInv'
      BY <1>p, <2>3, <2>4, <2>5, <2>6 DEF EngineFrame, EngineRecorded, AttemptInv
    <2> QED BY <1>q, <2>3, <2>7, <2>8, <2>9, <2>10, TypeFrames DEF EngineFrame
  <1>13. CASE ResultSuccess
    <2>1. prog' \in ProgressRecords
      BY <1>13, <1>p, ProgressChanged, NameTypes DEF ResultSuccess, StatusTypes
    <2>2. StatusTypes'
      BY <1>13, <1>p, <2>1 DEF ResultSuccess, StatusTypes
    <2>3. CounterTypes'
      BY <1>13, <1>p DEF ResultSuccess, CounterTypes
    <2> QED BY <1>13, <1>q, <2>2, <2>3, TypeFrames DEF ResultSuccess
  <1>14. CASE ResultFailure
    <2>1. prog' \in ProgressRecords
      BY <1>14, <1>p, ProgressChanged, NameTypes DEF ResultFailure, StatusTypes, RunTypes
    <2>2. StatusTypes'
      BY <1>14, <1>p, <2>1 DEF ResultFailure, StatusTypes
    <2> QED BY <1>14, <1>q, <2>2, TypeFrames DEF ResultFailure
  <1>15. CASE AttemptAges
    <2>1. prog' \in ProgressRecords /\ prog'.attempt = prog.attempt
      BY <1>15, <1>p, ProgressChanged, NameTypes DEF AttemptAges, StatusTypes
    <2>2. StatusTypes'
      BY <1>15, <1>p, <2>1 DEF AttemptAges, StatusTypes
    <2> QED BY <1>15, <1>q, <2>1, <2>2, TypeFrames DEF AttemptAges
  <1>16. CASE CooldownEnds \/ RecoveryIntervalElapses
    <2>1. StatusTypes'
      BY <1>16, <1>p DEF CooldownEnds, RecoveryIntervalElapses, StatusTypes
    <2> QED BY <1>16, <1>q, <2>1, TypeFrames DEF CooldownEnds, RecoveryIntervalElapses
  <1>17. CASE AnnotateRecover \/ DeleteObject
    <2>0. annotation' \in 0..MaxRequests /\ object' \in {"present", "deleting", "gone"}
      <3>1. CASE AnnotateRecover
        <4>1. annotation < MaxRequests /\ annotation' = annotation + 1 /\ UNCHANGED object
          BY <3>1 DEF AnnotateRecover
        <4>2. annotation \in 0..MaxRequests /\ object \in {"present", "deleting", "gone"}
          BY <1>p DEF SpecTypes
        <4>3. annotation' \in 0..MaxRequests
          BY <4>1, <4>2
        <4> QED BY <4>1, <4>2, <4>3
      <3>2. CASE DeleteObject
        BY <1>p, <3>2 DEF DeleteObject, SpecTypes
      <3> QED BY <1>17, <3>1, <3>2
    <2>1. SpecTypes'
      BY <1>17, <1>p, <2>0 DEF AnnotateRecover, DeleteObject, SpecTypes
    <2> QED BY <1>17, <1>q, <2>1, TypeFrames DEF AnnotateRecover, DeleteObject
  <1>18. CASE RequestManual
    <2>0. requests' \in 0..MaxRequests
      <3>1. requests < MaxRequests /\ requests' = requests + 1
        BY <1>18 DEF RequestManual
      <3> QED BY <1>p, <3>1 DEF CountTypes
    <2>1. SpecTypes' /\ CountTypes'
      BY <1>18, <1>p, <2>0 DEF RequestManual, SpecTypes, CountTypes
    <2> QED BY <1>18, <1>q, <2>1, TypeFrames DEF RequestManual
  <1>19. CASE UNCHANGED vars
    BY <1>19, <1>q, TypeFrames DEF vars
  <1> QED BY <1>1, <1>2, <1>3, <1>4, <1>5, <1>6, <1>7, <1>8, <1>9, <1>10, <1>11, <1>12, <1>13, <1>14,
             <1>15, <1>16, <1>17, <1>18, <1>19 DEF Next, ControllerStep

LEMMA TypeInit == Init => TypeInv
  <1> SUFFICES ASSUME Init PROVE TypeInv
    OBVIOUS
  <1>1. NoProgress \in ProgressRecords
    BY ProgressMade, ReconcilerAssumption
  <1>2. /\ object = "present" /\ finalizer = "absent" /\ manual = ""
        /\ annotation = 0 /\ lastAnnotation = 0
    BY DEF Init
  <1>3. /\ failures = 0 /\ unreachable = 0 /\ remoteUnreachable = 0 /\ badStreak = 0
        /\ attempt = 0 /\ faults = 0 /\ requests = 0 /\ manualAttempts = 0 /\ pc = "idle"
    BY DEF Init
  <1>b. 0 \in 0..MaxRequests
    BY Bounds
  <1>4. SpecTypes
    BY <1>2, <1>b DEF SpecTypes
  <1>5. CounterTypes /\ CountTypes /\ AttemptInv
    BY <1>3, Bounds DEF CounterTypes, CountTypes, AttemptInv
  <1>7. EngineRecorded
    BY <1>3 DEF EngineRecorded
  <1>6. StatusTypes /\ RunTypes
    BY <1>1, MemoryTypes, NameTypes DEF Init, StatusTypes, RunTypes
  <1> QED BY <1>4, <1>5, <1>6, <1>7 DEF TypeInv

\* Every variable keeps its type; in particular, while the engine runs the CR is
\* in SwitchingOver with the record of this very attempt (executeSwitchover).
THEOREM ReconcilerTypes == Spec => []TypeOK
  <1> QED BY TypeInit, TypeStep, TypeParts, PTL DEF Spec

-----------------------------------------------------------------------------
(***************************************************************************)
(* A failover is sustained. The counters the decision compares with the    *)
(* threshold never run ahead of the checks that found local not healthy,   *)
(* and no check is saved between the decision and the end of the attempt.  *)
(***************************************************************************)

StreakInv ==
    /\ failures <= badStreak /\ unreachable <= badStreak
    /\ pc \in {"clear", "start", "begin", "run", "result"} /\ reason = "local"
         => badStreak >= FailureThreshold

LEMMA StreakStep == ASSUME TypeInv, StreakInv, [Next]_vars PROVE StreakInv'
  <1> USE DEF specVars, crVars, runVars, historyVars, statusVars, counterVars
  <1>t. CounterTypes
    BY DEF TypeInv
  <1>a. ASSUME UNCHANGED <<counterVars, badStreak>>, \/ UNCHANGED <<pc, reason>>
                                                    \/ pc' \notin {"clear", "start", "begin", "run", "result"}
        PROVE  StreakInv'
    BY <1>a DEF StreakInv
  <1>b. ASSUME UNCHANGED <<counterVars, badStreak, reason>>,
               pc \in {"clear", "start", "begin", "run", "result"}
        PROVE  StreakInv'
    BY <1>b DEF StreakInv
  <1>1. CASE HandleDeletion \/ EnsureFinalizer \/ BeginReconcile
    BY <1>1, <1>a DEF HandleDeletion, EnsureFinalizer, BeginReconcile
  <1>2. CASE \E l, r \in Health, q \in {"yes", "no"} : SaveHealth(l, r, q)
    <2> PICK l, r \in Health, q \in {"yes", "no"} : SaveHealth(l, r, q)
      BY <1>2
    <2>1. /\ failures' = LocalFailures(l) /\ unreachable' = LocalUnreachable(l) /\ pc' = "decide"
          /\ badStreak' = IF l.healthy = "yes" THEN 0 ELSE Bump(badStreak, FailureThreshold)
      BY DEF SaveHealth
    <2>2. failures' <= badStreak' /\ unreachable' <= badStreak'
      BY <1>t, <2>1, Bounds DEF StreakInv, CounterTypes, LocalFailures, LocalUnreachable, Bump
    <2> QED BY <2>1, <2>2 DEF StreakInv
  <1>3. CASE \/ SaveHealthFails \/ AbandonStuckFails \/ DegradedRecoveryFails \/ NoSwitchFails
             \/ ClearManualFails \/ StartAttemptFails \/ ResultLost \/ Crash
    BY <1>3, <1>a
    DEF SaveHealthFails, AbandonStuckFails, DegradedRecoveryFails, NoSwitchFails,
        ClearManualFails, StartAttemptFails, ResultLost, Crash, WriteFails, Return
  <1>4. CASE AbandonStuck \/ DegradedRecovery \/ NoSwitch \/ ManualRefused \/ ResultFailure
    BY <1>4, <1>a DEF AbandonStuck, DegradedRecovery, NoSwitch, ManualRefused, ResultFailure, Return
  <1>5. CASE Switch
    <2>1. Evaluate = "local" => LocalDown
      BY DEF Evaluate
    <2>2. LocalDown => badStreak >= FailureThreshold
      BY <1>t, Bounds DEF LocalDown, StreakInv, CounterTypes
    <2>3. reason' = Evaluate /\ UNCHANGED <<counterVars, badStreak>>
      BY <1>5 DEF Switch
    <2> QED BY <2>1, <2>2, <2>3 DEF StreakInv
  <1>6. CASE ClearManual \/ StartAttempt
    BY <1>6, <1>b DEF ClearManual, StartAttempt
  <1>7. CASE PhaseStart \/ PhaseComplete \/ PhaseError \/ DrainCancelled
    BY <1>7, <1>b DEF PhaseStart, PhaseComplete, PhaseError, DrainCancelled, EngineFrame
  <1>8. CASE ResultSuccess
    <2>1. /\ failures' = 0 /\ unreachable' = 0 /\ pc' = "idle" /\ UNCHANGED badStreak
      BY <1>8 DEF ResultSuccess, Return
    <2> QED BY <1>t, <2>1, Bounds DEF StreakInv, CounterTypes
  <1>9. CASE \/ AttemptAges \/ CooldownEnds \/ RecoveryIntervalElapses \/ RequestManual
             \/ AnnotateRecover \/ DeleteObject
    BY <1>9, <1>a DEF AttemptAges, CooldownEnds, RecoveryIntervalElapses, RequestManual,
       AnnotateRecover, DeleteObject
  <1>10. CASE UNCHANGED vars
    BY <1>10, <1>a DEF vars
  <1> QED BY <1>1, <1>2, <1>3, <1>4, <1>5, <1>6, <1>7, <1>8, <1>9, <1>10 DEF Next, ControllerStep

\* No automatic failover of the local cluster is under way unless at least
\* FailureThreshold saved checks in a row found it not healthy, with restarts
\* and lost patches anywhere in between (updateHealthStatus, EvaluateSwitchover).
THEOREM FailoverIsSustained == Spec => []FailoverSustained
  <1>1. Init => StreakInv
    <2>1. Init => failures = 0 /\ unreachable = 0 /\ badStreak = 0 /\ pc = "idle"
      BY DEF Init
    <2> QED BY <2>1 DEF StreakInv
  <1>2. StreakInv => FailoverSustained
    BY DEF StreakInv, FailoverSustained
  <1> QED BY <1>1, <1>2, TypeInit, TypeStep, StreakStep, PTL DEF Spec

-----------------------------------------------------------------------------
(***************************************************************************)
(* The CR outlives the attempt. A running Reconcile holds the finalizer, a *)
(* CR in SwitchingOver has a progress record to be judged by, and holds    *)
(* the finalizer until that record is too old.                             *)
(***************************************************************************)

HeldInv ==
    /\ pc # "idle" => finalizer = "set" /\ object # "gone"
    /\ phase = "SwitchingOver" => prog.attempt # 0
    /\ phase = "SwitchingOver" => finalizer = "set" \/ object = "gone"
    /\ phase = "SwitchingOver" /\ prog.age = "fresh" => object # "gone"

LEMMA HeldStep == ASSUME TypeInv, HeldInv, [Next]_vars PROVE HeldInv'
  <1> USE DEF specVars, crVars, runVars, historyVars, statusVars, counterVars
  <1>a. ASSUME UNCHANGED <<object, finalizer, phase, prog>>, pc' = "idle" \/ pc # "idle"
        PROVE  HeldInv'
    BY <1>a DEF HeldInv
  <1>b. ASSUME UNCHANGED <<object, finalizer>>, phase' # "SwitchingOver", pc' = "idle" \/ pc # "idle"
        PROVE  HeldInv'
    BY <1>b DEF HeldInv
  <1>1. CASE HandleDeletion
    <2>1. ~(phase = "SwitchingOver" /\ prog.age = "fresh") /\ pc' = "idle"
      BY <1>1 DEF HandleDeletion, HeldInv
    <2>2. UNCHANGED <<phase, prog>> /\ object' = "gone"
      BY <1>1 DEF HandleDeletion
    <2> QED BY <2>1, <2>2 DEF HeldInv
  <1>2. CASE EnsureFinalizer
    BY <1>2 DEF EnsureFinalizer, HeldInv
  <1>3. CASE BeginReconcile
    BY <1>3 DEF BeginReconcile, HeldInv
  <1>4. CASE \E l, r \in Health, q \in {"yes", "no"} : SaveHealth(l, r, q)
    BY <1>4, <1>a DEF SaveHealth
  <1>5. CASE \/ SaveHealthFails \/ AbandonStuckFails \/ DegradedRecoveryFails \/ NoSwitchFails
             \/ ClearManualFails \/ StartAttemptFails \/ ResultLost \/ Crash
    BY <1>5, <1>a
    DEF SaveHealthFails, AbandonStuckFails, DegradedRecoveryFails, NoSwitchFails,
        ClearManualFails, StartAttemptFails, ResultLost, Crash, WriteFails, Return
  <1>6. CASE AbandonStuck \/ DegradedRecovery \/ ResultSuccess \/ ResultFailure
    BY <1>6, <1>b DEF AbandonStuck, DegradedRecovery, ResultSuccess, ResultFailure, Return
  <1>7. CASE NoSwitch \/ ManualRefused
    <2>1. /\ UNCHANGED <<object, finalizer, prog>> /\ pc' = "idle"
          /\ phase' = phase \/ phase' # "SwitchingOver"
      BY <1>7 DEF NoSwitch, ManualRefused, Return
    <2> QED BY <2>1, <1>a, <1>b
  <1>8. CASE Switch \/ ClearManual
    BY <1>8, <1>a DEF Switch, Deciding, ClearManual
  <1>9. CASE StartAttempt
    <2>1. prog'.attempt # 0
      <3>1. attempt \in Nat
        BY Bounds DEF TypeInv, CountTypes
      <3>2. prog'.attempt = attempt + 1
        BY <1>9 DEF StartAttempt, Started
      <3> QED BY <3>1, <3>2
    <2>2. pc = "start" /\ UNCHANGED <<object, finalizer>>
      BY <1>9 DEF StartAttempt
    <2> QED BY <2>1, <2>2 DEF HeldInv
  <1>10. CASE PhaseStart \/ PhaseComplete \/ PhaseError \/ DrainCancelled
    <2>1. /\ pc \in {"begin", "run"} /\ UNCHANGED <<object, finalizer, phase>>
          /\ \/ UNCHANGED prog
             \/ \E f \in {"", at} : prog' = Checkpointed(at, f)
      BY <1>10 DEF PhaseStart, PhaseComplete, PhaseError, DrainCancelled, EngineFrame, Checkpoint
    <2>2. prog \in ProgressRecords /\ attempt \in 0..MaxAttempts /\ at \in PhaseNames /\ "" \in PhaseNames
      BY NameTypes DEF TypeInv, StatusTypes, CountTypes, RunTypes
    <2>3. phase = "SwitchingOver" /\ prog.attempt = attempt /\ attempt # 0
      BY <2>1 DEF TypeInv, EngineRecorded, HeldInv
    <2>4. prog'.attempt # 0
      BY <2>1, <2>2, <2>3, CheckpointTypes
    <2> QED BY <2>1, <2>4 DEF HeldInv
  <1>11. CASE AttemptAges
    <2>1. prog'.attempt = prog.attempt /\ prog'.age = "stuck"
      <3>1. prog \in ProgressRecords
        BY DEF TypeInv, StatusTypes
      <3> QED BY <1>11, <3>1 DEF AttemptAges, ProgressRecords
    <2> QED BY <1>11, <2>1 DEF AttemptAges, HeldInv
  <1>12. CASE CooldownEnds \/ RecoveryIntervalElapses \/ RequestManual \/ AnnotateRecover
    <2>1. UNCHANGED <<object, finalizer, phase, prog, pc>>
      BY <1>12 DEF CooldownEnds, RecoveryIntervalElapses, RequestManual, AnnotateRecover
    <2> QED BY <2>1, <1>a
  <1>13. CASE DeleteObject
    BY <1>13 DEF DeleteObject, HeldInv
  <1>14. CASE UNCHANGED vars
    <2>1. UNCHANGED <<object, finalizer, phase, prog, pc>>
      BY <1>14 DEF vars
    <2> QED BY <2>1, <1>a
  <1> QED BY <1>1, <1>2, <1>3, <1>4, <1>5, <1>6, <1>7, <1>8, <1>9, <1>10, <1>11, <1>12, <1>13, <1>14
          DEF Next, ControllerStep

\* The CR is not removed under a running attempt, nor before resumeStuckTimeout
\* after the controller died under one, wherever the deletion is requested
\* (ensureFinalizer, handleDeletion).
THEOREM NotDeleted == Spec => []NotDeletedMidAttempt
  <1>1. Init => HeldInv
    BY DEF Init, HeldInv
  <1>2. HeldInv => NotDeletedMidAttempt
    BY DEF HeldInv, NotDeletedMidAttempt
  <1> QED BY <1>1, <1>2, TypeInit, TypeStep, HeldStep, PTL DEF Spec

-----------------------------------------------------------------------------
(***************************************************************************)
(* Degraded holds. Between the decision to switch and the start of the     *)
(* attempt nothing turns the CR Degraded.                                  *)
(***************************************************************************)

DecidedInv == pc \in {"clear", "start"} => phase # "Degraded"

LEMMA DecidedStep == ASSUME DecidedInv, [Next]_vars PROVE DecidedInv'
  <1> USE DEF specVars, crVars, runVars, historyVars, statusVars, counterVars, DecidedInv
  <1>1. CASE HandleDeletion \/ EnsureFinalizer \/ BeginReconcile
    BY <1>1 DEF HandleDeletion, EnsureFinalizer, BeginReconcile
  <1>2. CASE \E l, r \in Health, q \in {"yes", "no"} : SaveHealth(l, r, q)
    BY <1>2 DEF SaveHealth
  <1>3. CASE \/ SaveHealthFails \/ AbandonStuckFails \/ DegradedRecoveryFails \/ NoSwitchFails
             \/ ClearManualFails \/ StartAttemptFails \/ ResultLost \/ Crash
    BY <1>3
    DEF SaveHealthFails, AbandonStuckFails, DegradedRecoveryFails, NoSwitchFails,
        ClearManualFails, StartAttemptFails, ResultLost, Crash, WriteFails, Return
  <1>4. CASE AbandonStuck \/ DegradedRecovery \/ NoSwitch \/ ManualRefused \/ ResultSuccess \/ ResultFailure
    BY <1>4 DEF AbandonStuck, DegradedRecovery, NoSwitch, ManualRefused, ResultSuccess, ResultFailure, Return
  <1>5. CASE Switch
    BY <1>5 DEF Switch, Deciding
  <1>6. CASE ClearManual \/ StartAttempt
    BY <1>6 DEF ClearManual, StartAttempt
  <1>7. CASE PhaseStart \/ PhaseComplete \/ PhaseError \/ DrainCancelled
    BY <1>7 DEF PhaseStart, PhaseComplete, PhaseError, DrainCancelled
  <1>8. CASE \/ AttemptAges \/ CooldownEnds \/ RecoveryIntervalElapses \/ RequestManual
             \/ AnnotateRecover \/ DeleteObject
    BY <1>8 DEF AttemptAges, CooldownEnds, RecoveryIntervalElapses, RequestManual, AnnotateRecover,
       DeleteObject
  <1>9. CASE UNCHANGED vars
    BY <1>9 DEF vars
  <1> QED BY <1>1, <1>2, <1>3, <1>4, <1>5, <1>6, <1>7, <1>8, <1>9 DEF Next, ControllerStep

\* A cluster that answered as healthy is known to be writable or read-only.
LEMMA HealthyAnswered ==
    ASSUME NEW h \in Health, h.healthy = "yes"
    PROVE  h.writable \in {"yes", "no"}
  BY DEF Health

\* A step leaves Degraded only by a recovery that saw both clusters healthy and
\* exactly one of them writable: no attempt starts from Degraded, and no result,
\* restart or first-sight initialisation overwrites it (handleDegradedRecovery).
THEOREM DegradedIsHeld == Spec => DegradedHolds
  <1> DEFINE Left ==
        phase = "Degraded" /\ phase' # "Degraded" =>
          /\ phase' = "Monitoring"
          /\ obs.local.healthy = "yes" /\ obs.remote.healthy = "yes"
          /\ {obs.local.writable, obs.remote.writable} = {"yes", "no"}
  <1>1. TypeInv /\ DecidedInv /\ [Next]_vars => [Left]_vars
    <2> SUFFICES ASSUME TypeInv, DecidedInv, Next, phase = "Degraded", phase' # "Degraded"
                 PROVE  /\ phase' = "Monitoring"
                        /\ obs.local.healthy = "yes" /\ obs.remote.healthy = "yes"
                        /\ {obs.local.writable, obs.remote.writable} = {"yes", "no"}
      OBVIOUS
    <2> USE DEF specVars, crVars, runVars, historyVars, statusVars, counterVars
    <2>1. ~StartAttempt /\ ~ResultSuccess
      BY DEF StartAttempt, ResultSuccess, DecidedInv, TypeInv, EngineRecorded
    <2>2. DegradedRecovery
      <3>1. ~BeginReconcile /\ ~HandleDeletion /\ ~EnsureFinalizer
        BY DEF BeginReconcile, HandleDeletion, EnsureFinalizer
      <3>2. ~\E l, r \in Health, q \in {"yes", "no"} : SaveHealth(l, r, q)
        BY DEF SaveHealth
      <3>3. /\ ~SaveHealthFails /\ ~AbandonStuckFails /\ ~DegradedRecoveryFails /\ ~NoSwitchFails
            /\ ~ClearManualFails /\ ~StartAttemptFails /\ ~ResultLost /\ ~Crash
        BY DEF SaveHealthFails, AbandonStuckFails, DegradedRecoveryFails, NoSwitchFails,
           ClearManualFails, StartAttemptFails, ResultLost, Crash, WriteFails
      <3>4. ~AbandonStuck /\ ~NoSwitch /\ ~ManualRefused /\ ~Switch /\ ~ClearManual /\ ~ResultFailure
        BY DEF AbandonStuck, NoSwitch, ManualRefused, Switch, ClearManual, ResultFailure, Deciding
      <3>5. ~PhaseStart /\ ~PhaseComplete /\ ~PhaseError /\ ~DrainCancelled
        BY DEF PhaseStart, PhaseComplete, PhaseError, DrainCancelled, EngineFrame
      <3>6. /\ ~AttemptAges /\ ~CooldownEnds /\ ~RecoveryIntervalElapses /\ ~RequestManual
            /\ ~AnnotateRecover /\ ~DeleteObject
        BY DEF AttemptAges, CooldownEnds, RecoveryIntervalElapses, RequestManual, AnnotateRecover,
           DeleteObject
      <3> QED BY <2>1, <3>1, <3>2, <3>3, <3>4, <3>5, <3>6 DEF Next, ControllerStep
    <2>3. /\ phase' = "Monitoring" /\ obs.local.healthy = "yes" /\ obs.remote.healthy = "yes"
          /\ ExactlyOneWritable
      BY <2>2 DEF DegradedRecovery
    <2>4. obs.local \in Health /\ obs.remote \in Health
      BY DEF TypeInv, RunTypes, ObsRecords
    <2>5. obs.local.writable \in {"yes", "no"} /\ obs.remote.writable \in {"yes", "no"}
      BY <2>3, <2>4, HealthyAnswered
    <2>6. \/ obs.local.writable = "yes" /\ obs.remote.writable = "no"
          \/ obs.local.writable = "no" /\ obs.remote.writable = "yes"
      BY <2>3, <2>5 DEF ExactlyOneWritable
    <2> QED BY <2>3, <2>6
  <1>2. Init => DecidedInv
    BY DEF Init, DecidedInv
  <1> QED BY <1>1, <1>2, TypeInit, TypeStep, DecidedStep, PTL DEF Spec, DegradedHolds

=============================================================================
