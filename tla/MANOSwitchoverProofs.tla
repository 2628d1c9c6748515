------------------------ MODULE MANOSwitchoverProofs ------------------------
(***************************************************************************)
(* Proofs about MANOSwitchover, for any number of polls, attempts and      *)
(* operations left behind, with cached or static tokens.                   *)
(***************************************************************************)
EXTENDS MANOSwitchover, TLAPS

-----------------------------------------------------------------------------
(***************************************************************************)
(* Type correctness. That an operation left behind is counted within       *)
(* MaxLate needs that its call found room for it.                          *)
(***************************************************************************)

RoomKept == occ = "processing" => late[Kind] < MaxLate

TypeInv == TypeOK /\ RoomKept

LEMMA TypeInit == Init => TypeInv
  BY MANOAssumption, AttemptsAssumption
  DEF Init, MANOInit, TypeInv, TypeOK, MANOTypeOK, RoomKept, Clusters, Goals, OccStates

LEMMA KindType == ASSUME MANOTypeOK PROVE Kind \in LateOps
  BY DEF Kind, LateOps, MANOTypeOK

\* Leaving an operation behind keeps the types of what is left.
LEMMA TypeLeave ==
    ASSUME MANOTypeOK, RoomKept, NEW r, Leave(r)
    PROVE  /\ occ' = "none" /\ late' \in [LateOps -> 0..MaxLate]
           /\ surprises' \subseteq Surprises
  <1>1. Kind \in LateOps
    BY KindType
  <1>2. ASSUME occ = "processing" PROVE late[Kind] + 1 \in 0..MaxLate
    BY <1>1, <1>2, MANOAssumption DEF RoomKept, MANOTypeOK
  <1>3. late' \in [LateOps -> 0..MaxLate]
    BY <1>1, <1>2 DEF Leave, MANOTypeOK
  <1>4. surprises' \subseteq Surprises
    BY DEF Leave, Surprise, MANOTypeOK, Surprises
  <1> QED BY <1>3, <1>4 DEF Leave

LEMMA TypeCall == ASSUME TypeInv, CallStep PROVE TypeInv'
  <1> USE MANOAssumption
      DEF TypeInv, TypeOK, MANOTypeOK, RoomKept, CallStep, engineVars, clusterVars,
          opVars, Goto, Return, Kind, OccStates
  <1>0. Kind \in LateOps
    BY KindType
  <1>a. ASSUME NEW r \in {"ok", "err"}, ReturnFromOp(r), UNCHANGED <<clusterVars, token>>
        PROVE  TypeInv'
    <2>1. /\ occ' = "none" /\ late' \in [LateOps -> 0..MaxLate]
          /\ surprises' \subseteq Surprises
      BY <1>a, TypeLeave DEF ReturnFromOp
    <2> QED BY <1>a, <2>1 DEF ReturnFromOp
  <1>1. CASE UseToken BY <1>1 DEF UseToken
  <1>2. CASE LoginOk BY <1>2 DEF LoginOk
  <1>3. CASE LoginFail BY <1>3 DEF LoginFail
  <1>4. CASE PostAccepted BY <1>4 DEF PostAccepted, Room
  <1>5. CASE PostUnanswered
    <2>1. late[Kind] + 1 \in 0..MaxLate
      BY <1>0, <1>5 DEF PostUnanswered, Room
    <2> QED BY <1>0, <1>5, <2>1 DEF PostUnanswered
  <1>6. CASE PostRefused BY <1>6 DEF PostRefused
  <1>7. CASE PollAgain BY <1>7 DEF PollAgain
  <1>8. CASE PollIntervalOver BY <1>8 DEF PollIntervalOver
  <1>9. CASE PollCompleted BY <1>a, <1>9 DEF PollCompleted
  <1>10. CASE PollFailed BY <1>a, <1>10 DEF PollFailed
  <1>11. CASE PollBroken BY <1>a, <1>11 DEF PollBroken
  <1>12. CASE PollDeadline BY <1>a, <1>12 DEF PollDeadline
  <1>13. CASE ProbeOk BY <1>a, <1>13 DEF ProbeOk
  <1>14. CASE ProbeFail BY <1>a, <1>14 DEF ProbeFail
  <1> QED BY <1>1, <1>2, <1>3, <1>4, <1>5, <1>6, <1>7, <1>8, <1>9, <1>10, <1>11,
             <1>12, <1>13, <1>14 DEF ClientStep

LEMMA TypeService ==
    ASSUME TypeInv, ServiceStep, UNCHANGED engineVars PROVE TypeInv'
  <1> USE MANOAssumption
      DEF TypeInv, TypeOK, MANOTypeOK, RoomKept, engineVars, clusterVars, opVars,
          frameVars, Kind, Goals, OccStates, Apply, Clusters
  <1>0. Kind \in LateOps
    BY KindType
  <1>1. CASE OccApply BY <1>1 DEF OccApply
  <1>2. CASE OccComplete
    <2>1. /\ occ' \in {"completed", "early"} /\ occ = "applied"
          /\ surprises' \in {surprises, surprises \cup {"earlyFence"}}
          /\ UNCHANGED <<clusterVars, token, late, frameVars>>
      BY <1>2 DEF OccComplete
    <2>2. surprises' \subseteq Surprises
      BY <2>1 DEF Surprises
    <2> QED BY <2>1, <2>2
  <1>3. CASE OccFail BY <1>3 DEF OccFail
  <1>4. ASSUME NEW o \in LateOps, LateApply(o) \/ LateFail(o) PROVE TypeInv'
    <2>a. late[o] \in 0..MaxLate /\ late[o] > 0
      BY <1>4 DEF LateApply, LateFail
    <2>b. o.on \in {Local, Remote}
      BY <1>4 DEF LateOps
    <2>1. late[o] - 1 \in 0..MaxLate /\ o.on \in {Local, Remote}
      BY <2>a, <2>b
    <2>2. /\ late' \in [LateOps -> 0..MaxLate]
          /\ RoomKept'
      BY <1>0, <1>4, <2>1 DEF LateApply, LateFail
    <2>3. surprises' \subseteq Surprises /\ isSource' \subseteq {Local, Remote}
      BY <1>4, <2>1 DEF LateApply, LateFail, Surprise, Surprises
    <2> QED BY <1>4, <2>2, <2>3 DEF LateApply, LateFail
  <1>5. ASSUME NEW c \in Clusters, OperatorEnforce(c) PROVE TypeInv'
    BY <1>5 DEF OperatorEnforce
  <1>6. CASE TokenExpires BY <1>6 DEF TokenExpires
  <1> QED BY <1>1, <1>2, <1>3, <1>4, <1>5, <1>6 DEF ServiceStep

LEMMA TypeEngine ==
    ASSUME TypeInv, Execute \/ EngineStep \/ Crash PROVE TypeInv'
  <1> USE MANOAssumption, AttemptsAssumption
      DEF TypeInv, TypeOK, MANOTypeOK, RoomKept, manoVars, clusterVars, opVars,
          frameVars, Kind, Goals, OccStates, Clusters, GotoPhase, Finish, Returned, CallSetIsSource,
          CallsDone, DropClient, Outside
  <1>1. CASE Execute BY <1>1 DEF Execute
  <1>2. CASE PreFlightPass BY <1>2 DEF PreFlightPass
  <1>3. CASE PreFlightFail BY <1>3 DEF PreFlightFail
  <1>4. CASE FenceApplied BY <1>4 DEF FenceApplied
  <1>5. CASE FenceRefused BY <1>5 DEF FenceRefused
  <1>6. CASE FenceBlackhole
    <2>1. CASE pc' = "Idle"
      BY <1>6, <2>1 DEF FenceBlackhole
    <2>2. CASE pc' = "Promote"
      <3>1. /\ risk' = risk \cup {"blackhole"}
            /\ step' = "token" /\ on' = Remote /\ goal' = "source" /\ polls' = 0
            /\ ret' = "none" /\ step = "none"
            /\ UNCHANGED <<writable, isSource, token, occ, late, surprises>>
            /\ UNCHANGED <<attempts, result, before>>
        BY <1>6, <2>2 DEF FenceBlackhole
      <3>2. occ' = "none"
        BY <3>1
      <3> QED BY <2>2, <3>1, <3>2
    <2> QED BY <1>6, <2>1, <2>2 DEF FenceBlackhole
  <1>7. CASE Promoted BY <1>7 DEF Promoted
  <1>8. CASE PromoteFailed BY <1>8 DEF PromoteFailed
  <1>9. CASE RoutingOk BY <1>9 DEF RoutingOk
  <1>10. CASE RoutingFailed BY <1>10 DEF RoutingFailed
  <1>11. CASE VerifyOk BY <1>11 DEF VerifyOk
  <1>12. CASE VerifyFail BY <1>12 DEF VerifyFail
  <1>13. CASE RollbackPromoteDone BY <1>13 DEF RollbackPromoteDone
  <1>14. CASE RollbackFenceDone BY <1>14 DEF RollbackFenceDone
  <1>15. CASE Crash
    <2>1. /\ occ' = "none" /\ late' \in [LateOps -> 0..MaxLate]
          /\ surprises' \subseteq Surprises
      BY <1>15, TypeLeave DEF Crash
    <2> QED BY <1>15, <2>1 DEF Crash
  <1> QED BY <1>1, <1>2, <1>3, <1>4, <1>5, <1>6, <1>7, <1>8, <1>9, <1>10, <1>11,
             <1>12, <1>13, <1>14, <1>15 DEF EngineStep

LEMMA TypeStep == ASSUME TypeInv, [Next]_vars PROVE TypeInv'
  <1>1. CASE UNCHANGED vars
    BY <1>1 DEF TypeInv, TypeOK, MANOTypeOK, RoomKept, vars, manoVars, engineVars, Kind,
           Clusters
  <1> QED BY <1>1, TypeCall, TypeService, TypeEngine DEF Next

\* Every reachable state is well typed: in particular the poll loop stays within
\* its deadline, and an operation is followed by exactly the calls that poll it,
\* through timeouts, lost answers and controller stops (pollLcmOpOcc, rollback).
THEOREM TypeCorrect == Spec => []TypeOK
  <1>1. TypeInv => TypeOK
    BY DEF TypeInv
  <1> QED BY TypeInit, TypeStep, <1>1, PTL DEF Spec

-----------------------------------------------------------------------------
(***************************************************************************)
(* Two writers need an operation that did not do what its call said.       *)
(*                                                                         *)
(* The property speaks of writable, but the operator makes writable follow *)
(* isSource later: the invariant is about the clusters that may come to    *)
(* accept writes. As long as nothing happened that the property excepts    *)
(* (Clean), at most one may, and each phase knows one that may not.        *)
(***************************************************************************)

\* Which cluster the call of each phase is on, and what it asks for.
CallPlaced ==
    /\ pc = "Fence" => on = Local /\ goal = "replica"
    /\ pc = "Promote" => on = Remote /\ goal = "source"
    /\ pc = "RbPromote" => on = Remote /\ goal = "replica"
    /\ pc = "RbFence" => on = Local /\ goal = "source"
    /\ pc \in {"Fence", "Promote", "RbPromote", "RbFence"} /\ step = "none" =>
          ret \in {"ok", "err"}
    /\ step # "none" => ret = "none"
    /\ step = "probe" => goal = "source"

\* Nothing has happened that DualWritersNeedLostOperation excepts.
Clean ==
    /\ surprises \cap {"enabled", "earlyFence"} = {}
    /\ risk \cap {"blackhole", "demoteFailed"} = {}

\* The cluster accepts writes, or the operator will make it.
MayWrite(c) == c \in writable \/ c \in isSource

\* The operation followed has had its effect at MANO.
Effective == occ \in {"applied", "completed", "early", "dirty"}

\* In a clean state at most one cluster may come to accept writes, and each
\* phase knows one that does not: the remote one up to its promotion and while
\* writes are given back, the local one from the end of the fence until then.
OneMayWrite ==
    /\ ~MayWrite(Local) \/ ~MayWrite(Remote)
    /\ \A c \in isSource \ writable : on = c /\ goal = "source" /\ Effective
    /\ goal = "replica" /\ occ = "applied" => on \notin isSource
    /\ goal = "replica" /\ occ = "completed" => ~MayWrite(on)
    /\ occ = "early" => goal = "source"
    /\ pc \in {"Fence", "RbPromote"} /\ step = "none" /\ ret = "ok" => ~MayWrite(on)
    /\ pc \in {"Fence", "RbFence"} => ~MayWrite(Remote)
    /\ pc = "Promote" /\ ~Effective /\ ret # "ok" => ~MayWrite(Remote)
    /\ pc \in {"Promote", "Routing", "Verify", "RbPromote"} => ~MayWrite(Local)

RoleInv == TypeInv /\ CallPlaced /\ (Clean => OneMayWrite)

LEMMA RoleInit == Init => RoleInv
  <1> SUFFICES ASSUME Init PROVE RoleInv
    OBVIOUS
  <1> QED BY TypeInit, MANOAssumption
      DEF Init, MANOInit, RoleInv, CallPlaced, OneMayWrite, MayWrite, Effective

\* A step of a call stays within the call.
LEMMA PlacedCall == ASSUME TypeInv, CallPlaced, CallStep PROVE CallPlaced'
  BY DEF CallPlaced, CallStep, engineVars, ClientStep, UseToken, LoginOk, LoginFail,
         PostAccepted, PostUnanswered, PostRefused, PollAgain, PollIntervalOver,
         PollCompleted, PollFailed, PollBroken, PollDeadline, ProbeOk, ProbeFail,
         ReturnFromOp, Return, Goto

LEMMA PlacedOther ==
    ASSUME TypeInv, CallPlaced,
           Execute \/ EngineStep \/ Crash \/ (ServiceStep /\ UNCHANGED engineVars)
    PROVE  CallPlaced'
  <1> USE DEF CallPlaced, GotoPhase, Finish, CallSetIsSource
  <1>1. CASE Execute BY <1>1 DEF Execute, manoVars
  <1>2. CASE Crash BY <1>2 DEF Crash
  <1>3. CASE EngineStep
    BY <1>3 DEF EngineStep, PreFlightPass, PreFlightFail, FenceApplied, FenceRefused,
           FenceBlackhole, Promoted, PromoteFailed, RoutingOk, RoutingFailed, VerifyOk,
           VerifyFail, RollbackPromoteDone, RollbackFenceDone, CallsDone, frameVars,
           manoVars
  <1>4. CASE ServiceStep /\ UNCHANGED engineVars
    BY <1>4 DEF ServiceStep, OccApply, OccComplete, OccFail, LateApply, LateFail,
           OperatorEnforce, TokenExpires, frameVars, engineVars
  <1> QED BY <1>1, <1>2, <1>3, <1>4

\* A step that ends in a clean state begins in one: nothing is forgotten.
LEMMA CleanBefore == ASSUME TypeInv, Next, Clean' PROVE Clean
  <1> USE DEF Clean
  <1>1. CASE CallStep
    BY <1>1 DEF CallStep, engineVars, ClientStep, UseToken, LoginOk, LoginFail,
         PostAccepted, PostUnanswered, PostRefused, PollAgain, PollIntervalOver,
         PollCompleted, PollFailed, PollBroken, PollDeadline, ProbeOk, ProbeFail,
         ReturnFromOp, Leave, Surprise, opVars
  <1>2. CASE Execute \/ Crash
    BY <1>2 DEF Execute, Crash, manoVars, Leave, Surprise
  <1>3. CASE EngineStep
    BY <1>3 DEF EngineStep, PreFlightPass, PreFlightFail, FenceApplied, FenceRefused,
           FenceBlackhole, Promoted, PromoteFailed, RoutingOk, RoutingFailed, VerifyOk,
           VerifyFail, RollbackPromoteDone, RollbackFenceDone, GotoPhase, Finish,
           CallsDone, Outside, manoVars, opVars
  <1>4. CASE ServiceStep /\ UNCHANGED engineVars
    BY <1>4 DEF ServiceStep, OccApply, OccComplete, OccFail, LateApply, LateFail,
           OperatorEnforce, TokenExpires, opVars, engineVars, Surprise
  <1> QED BY <1>1, <1>2, <1>3, <1>4 DEF Next

LEMMA RoleCall ==
    ASSUME TypeInv, CallPlaced, OneMayWrite, CallStep, Clean' PROVE OneMayWrite'
  <1> USE DEF TypeInv, TypeOK, MANOTypeOK, CallPlaced, OneMayWrite, MayWrite, Effective,
          CallStep, engineVars, clusterVars, opVars, Goto, Return, Clean, OccStates,
          Goals
  <1>1. CASE UseToken BY <1>1 DEF UseToken
  <1>2. CASE LoginOk BY <1>2 DEF LoginOk
  <1>3. CASE LoginFail BY <1>3 DEF LoginFail
  <1>4. CASE PostAccepted BY <1>4 DEF PostAccepted
  <1>5. CASE PostUnanswered BY <1>5 DEF PostUnanswered
  <1>6. CASE PostRefused BY <1>6 DEF PostRefused
  <1>7. CASE PollAgain BY <1>7 DEF PollAgain
  <1>8. CASE PollIntervalOver BY <1>8 DEF PollIntervalOver
  <1> USE DEF ReturnFromOp, Leave, Surprise
  <1>9. CASE PollCompleted BY <1>9 DEF PollCompleted
  <1>10. CASE PollFailed BY <1>10 DEF PollFailed
  <1>11. CASE PollBroken BY <1>11 DEF PollBroken
  <1>12. CASE PollDeadline BY <1>12 DEF PollDeadline
  <1>13. CASE ProbeOk BY <1>13 DEF ProbeOk
  <1>14. CASE ProbeFail BY <1>14 DEF ProbeFail
  <1> QED BY <1>1, <1>2, <1>3, <1>4, <1>5, <1>6, <1>7, <1>8, <1>9, <1>10, <1>11,
             <1>12, <1>13, <1>14 DEF ClientStep

LEMMA RoleService ==
    ASSUME TypeInv, CallPlaced, OneMayWrite, ServiceStep, UNCHANGED engineVars, Clean'
    PROVE  OneMayWrite'
  <1> USE MANOAssumption
      DEF TypeInv, TypeOK, MANOTypeOK, CallPlaced, OneMayWrite, MayWrite, Effective,
          engineVars, clusterVars, opVars, frameVars, Clean, OccStates, Goals, Apply,
          Clusters
  <1>1. CASE OccApply BY <1>1 DEF OccApply
  <1>2. CASE OccComplete BY <1>2 DEF OccComplete
  <1>3. CASE OccFail BY <1>3 DEF OccFail
  <1>4. ASSUME NEW o \in LateOps, LateApply(o) PROVE OneMayWrite'
    BY <1>4 DEF LateApply, Surprise
  <1>5. ASSUME NEW o \in LateOps, LateFail(o) PROVE OneMayWrite'
    BY <1>5 DEF LateFail
  <1>6. ASSUME NEW c \in Clusters, OperatorEnforce(c) PROVE OneMayWrite'
    BY <1>6 DEF OperatorEnforce
  <1>7. CASE TokenExpires BY <1>7 DEF TokenExpires
  <1> QED BY <1>1, <1>2, <1>3, <1>4, <1>5, <1>6, <1>7 DEF ServiceStep

LEMMA RoleEngine ==
    ASSUME TypeInv, CallPlaced, OneMayWrite, Execute \/ EngineStep \/ Crash, Clean'
    PROVE  OneMayWrite'
  <1> USE MANOAssumption
      DEF TypeInv, TypeOK, MANOTypeOK, CallPlaced, OneMayWrite, MayWrite, Effective,
          manoVars, clusterVars, opVars, frameVars, Clean, GotoPhase, Finish, Returned,
          CallSetIsSource, CallsDone, Outside, Clusters
  <1>1. CASE Execute BY <1>1 DEF Execute
  <1>2. CASE PreFlightPass BY <1>2 DEF PreFlightPass
  <1>3. CASE PreFlightFail BY <1>3 DEF PreFlightFail
  <1>4. CASE FenceApplied BY <1>4 DEF FenceApplied
  <1>5. CASE FenceRefused BY <1>5 DEF FenceRefused
  <1>6. CASE FenceBlackhole BY <1>6 DEF FenceBlackhole
  <1>7. CASE Promoted BY <1>7 DEF Promoted
  <1>8. CASE PromoteFailed BY <1>8 DEF PromoteFailed
  <1>9. CASE RoutingOk BY <1>9 DEF RoutingOk
  <1>10. CASE RoutingFailed BY <1>10 DEF RoutingFailed
  <1>11. CASE VerifyOk BY <1>11 DEF VerifyOk
  <1>12. CASE VerifyFail BY <1>12 DEF VerifyFail
  <1>13. CASE RollbackPromoteDone BY <1>13 DEF RollbackPromoteDone
  <1>14. CASE RollbackFenceDone BY <1>14 DEF RollbackFenceDone
  <1>15. CASE Crash BY <1>15 DEF Crash, Leave, Surprise
  <1> QED BY <1>1, <1>2, <1>3, <1>4, <1>5, <1>6, <1>7, <1>8, <1>9, <1>10, <1>11,
             <1>12, <1>13, <1>14, <1>15 DEF EngineStep

LEMMA RoleStep == ASSUME RoleInv, [Next]_vars PROVE RoleInv'
  <1>1. CASE Next
    <2>1. TypeInv'
      BY TypeStep DEF RoleInv
    <2>2. CallPlaced'
      BY <1>1, PlacedCall, PlacedOther DEF RoleInv, Next
    <2>3. ASSUME Clean' PROVE OneMayWrite'
      <3>1. OneMayWrite
        BY <1>1, <2>3, CleanBefore DEF RoleInv
      <3> QED BY <1>1, <2>3, <3>1, RoleCall, RoleService, RoleEngine DEF RoleInv, Next
    <2> QED BY <2>1, <2>2, <2>3 DEF RoleInv
  <1>2. CASE UNCHANGED vars
    <2>1. TypeInv'
      BY TypeStep DEF RoleInv
    <2> QED BY <1>2, <2>1 DEF RoleInv, CallPlaced, Clean, OneMayWrite, MayWrite,
               Effective, vars, manoVars, engineVars
  <1> QED BY <1>1, <1>2

\* Under MANO, whatever times out, fails or stops, and whenever the operator
\* acts: both clusters accept writes only after an operation that did not do
\* what its call said, or an error that rollback went past (SetIsSource,
\* pollLcmOpOcc, phaseFence, rollback).
THEOREM NoSplitBrainByReturnedCalls == Spec => []DualWritersNeedLostOperation
  <1>1. RoleInv => DualWritersNeedLostOperation
    BY DEF RoleInv, Clean, OneMayWrite, MayWrite, DualWritersNeedLostOperation
  <1> QED BY RoleInit, RoleStep, <1>1, PTL DEF Spec

-----------------------------------------------------------------------------
(***************************************************************************)
(* What Execute reports is what MANO will enforce.                         *)
(*                                                                         *)
(* The theorem above cannot be used: a fence reported COMPLETED too early  *)
(* takes nothing away from this property, which is about isSource alone.   *)
(* The invariant reconstructs isSource, phase by phase, from its value at  *)
(* the start of the attempt and from whether the call in progress has had  *)
(* its effect. An error tells that it has not, for an effect that the call *)
(* did not report is a surprise.                                           *)
(***************************************************************************)

\* Nothing has happened that ReportsMatchSources excepts.
Calm == risk = {} /\ surprises \subseteq {"earlyFence"}

\* The call of this phase has had its effect, known to the engine or not.
InForce == Effective \/ (step = "none" /\ ret = "ok")

\* The sources when the call of the phase has had its effect, or has not.
Sources(done, pending) == isSource = IF InForce THEN done ELSE pending

SourcesKnown ==
    /\ pc = "PreFlight" => isSource = before
    /\ pc = "Fence" => Sources(before \ {Local}, before)
    /\ pc = "Promote" => Sources({Remote}, before \ {Local})
    /\ pc \in {"Routing", "Verify"} => isSource = {Remote}
    /\ pc = "RbPromote" => Sources({}, {Remote})
    /\ pc = "RbFence" /\ before = {Local} => Sources({Local}, {})
    /\ pc = "Idle" /\ result = "success" => isSource = {Remote}
    /\ pc = "Idle" /\ result = "rolledBack" /\ before = {Local} => isSource = {Local}
    /\ step = "probe" => Effective

ReportInv == TypeInv /\ CallPlaced /\ (Calm => SourcesKnown)

LEMMA ReportInit == Init => ReportInv
  <1> SUFFICES ASSUME Init PROVE ReportInv
    OBVIOUS
  <1> QED BY TypeInit
      DEF Init, MANOInit, ReportInv, CallPlaced, SourcesKnown, Sources, InForce, Effective

\* A step that ends in a calm state begins in one: nothing is forgotten.
LEMMA CalmBefore == ASSUME TypeInv, Next, Calm' PROVE Calm
  <1> USE DEF Calm
  <1>1. CASE CallStep
    BY <1>1 DEF CallStep, engineVars, ClientStep, UseToken, LoginOk, LoginFail,
         PostAccepted, PostUnanswered, PostRefused, PollAgain, PollIntervalOver,
         PollCompleted, PollFailed, PollBroken, PollDeadline, ProbeOk, ProbeFail,
         ReturnFromOp, Leave, Surprise, opVars
  <1>2. CASE Execute \/ Crash
    BY <1>2 DEF Execute, Crash, manoVars, Leave, Surprise
  <1>3. CASE EngineStep
    BY <1>3 DEF EngineStep, PreFlightPass, PreFlightFail, FenceApplied, FenceRefused,
           FenceBlackhole, Promoted, PromoteFailed, RoutingOk, RoutingFailed, VerifyOk,
           VerifyFail, RollbackPromoteDone, RollbackFenceDone, GotoPhase, Finish,
           CallsDone, Outside, manoVars, opVars
  <1>4. CASE ServiceStep /\ UNCHANGED engineVars
    BY <1>4 DEF ServiceStep, OccApply, OccComplete, OccFail, LateApply, LateFail,
           OperatorEnforce, TokenExpires, opVars, engineVars, Surprise
  <1> QED BY <1>1, <1>2, <1>3, <1>4 DEF Next

\* While things stay calm, the operation of a call that returns an error has not
\* had its effect.
LEMMA CalmLeave ==
    ASSUME Calm', NEW r, Leave(r)
    PROVE  r = "err" => ~Effective
  BY DEF Calm, Leave, Surprise, Effective

LEMMA ReportCall ==
    ASSUME TypeInv, CallPlaced, SourcesKnown, CallStep, Calm' PROVE SourcesKnown'
  <1> USE DEF TypeInv, TypeOK, MANOTypeOK, CallPlaced, CallStep, engineVars, clusterVars,
          opVars, Goto, Return, OccStates, Goals
  <1>a. ASSUME InForce' = InForce, step' = "probe" => Effective', UNCHANGED isSource
        PROVE  SourcesKnown'
    BY <1>a DEF SourcesKnown, Sources
  <1> USE DEF InForce, Effective
  <1>1. CASE UseToken BY <1>a, <1>1 DEF UseToken
  <1>2. CASE LoginOk BY <1>a, <1>2 DEF LoginOk
  <1>3. CASE LoginFail BY <1>a, <1>3 DEF LoginFail
  <1>4. CASE PostAccepted BY <1>a, <1>4 DEF PostAccepted
  <1>5. CASE PostUnanswered BY <1>a, <1>5 DEF PostUnanswered
  <1>6. CASE PostRefused BY <1>a, <1>6 DEF PostRefused
  <1>7. CASE PollAgain BY <1>a, <1>7 DEF PollAgain
  <1>8. CASE PollIntervalOver BY <1>a, <1>8 DEF PollIntervalOver
  <1>b. ASSUME ReturnFromOp("err"), step # "none", UNCHANGED isSource PROVE SourcesKnown'
    BY <1>a, <1>b, CalmLeave DEF ReturnFromOp, Leave
  <1>c. ASSUME ReturnFromOp("ok"), Effective, UNCHANGED isSource PROVE SourcesKnown'
    BY <1>a, <1>c DEF ReturnFromOp, Leave
  <1>9. CASE PollCompleted BY <1>a, <1>c, <1>9 DEF PollCompleted
  <1>10. CASE PollFailed BY <1>b, <1>10 DEF PollFailed
  <1>11. CASE PollBroken BY <1>b, <1>11 DEF PollBroken
  <1>12. CASE PollDeadline BY <1>b, <1>12 DEF PollDeadline
  <1>13. CASE ProbeOk BY <1>c, <1>13 DEF ProbeOk, SourcesKnown
  <1>14. CASE ProbeFail BY <1>b, <1>14 DEF ProbeFail
  <1> QED BY <1>1, <1>2, <1>3, <1>4, <1>5, <1>6, <1>7, <1>8, <1>9, <1>10, <1>11,
             <1>12, <1>13, <1>14 DEF ClientStep

LEMMA ReportService ==
    ASSUME TypeInv, CallPlaced, SourcesKnown, ServiceStep, UNCHANGED engineVars, Calm'
    PROVE  SourcesKnown'
  <1> USE MANOAssumption
      DEF TypeInv, TypeOK, MANOTypeOK, CallPlaced, engineVars, clusterVars, opVars,
          frameVars, OccStates, Goals, Clusters
  <1>a. ASSUME InForce' = InForce, step' = "probe" => Effective', UNCHANGED isSource
        PROVE  SourcesKnown'
    BY <1>a DEF SourcesKnown, Sources
  <1>1. CASE OccApply
    <2>1. ~InForce /\ InForce' /\ Effective'
      BY <1>1 DEF OccApply, InForce, Effective
    <2>2. pc \in {"Fence", "Promote", "RbPromote", "RbFence"}
      BY <1>1 DEF OccApply
    <2> QED BY <1>1, <2>1, <2>2 DEF OccApply, Apply, SourcesKnown, Sources
  <1>2. CASE OccComplete BY <1>a, <1>2 DEF OccComplete, InForce, Effective
  <1>3. CASE OccFail BY <1>a, <1>3 DEF OccFail, InForce, Effective, SourcesKnown
  <1>4. ASSUME NEW o \in LateOps, LateApply(o) PROVE SourcesKnown'
    BY <1>4 DEF LateApply, Surprise, Calm
  <1>5. ASSUME NEW o \in LateOps, LateFail(o) PROVE SourcesKnown'
    BY <1>a, <1>5 DEF LateFail, InForce, Effective, SourcesKnown
  <1>6. ASSUME NEW c \in Clusters, OperatorEnforce(c) PROVE SourcesKnown'
    BY <1>a, <1>6 DEF OperatorEnforce, InForce, Effective, SourcesKnown
  <1>7. CASE TokenExpires BY <1>a, <1>7 DEF TokenExpires, InForce, Effective, SourcesKnown
  <1> QED BY <1>1, <1>2, <1>3, <1>4, <1>5, <1>6, <1>7 DEF ServiceStep

LEMMA ReportEngine ==
    ASSUME TypeInv, CallPlaced, SourcesKnown, Execute \/ EngineStep \/ Crash, Calm'
    PROVE  SourcesKnown'
  <1> USE MANOAssumption
      DEF TypeInv, TypeOK, MANOTypeOK, CallPlaced, SourcesKnown, Sources, InForce,
          Effective, manoVars, clusterVars, opVars, frameVars, Calm, GotoPhase, Finish,
          Returned, CallSetIsSource, CallsDone, Outside, Clusters
  <1>1. CASE Execute BY <1>1 DEF Execute
  <1>2. CASE PreFlightPass BY <1>2 DEF PreFlightPass
  <1>3. CASE PreFlightFail BY <1>3 DEF PreFlightFail
  <1>4. CASE FenceApplied BY <1>4 DEF FenceApplied
  <1>5. CASE FenceRefused BY <1>5 DEF FenceRefused
  <1>6. CASE FenceBlackhole BY <1>6 DEF FenceBlackhole
  <1>7. CASE Promoted BY <1>7 DEF Promoted
  <1>8. CASE PromoteFailed BY <1>8 DEF PromoteFailed
  <1>9. CASE RoutingOk BY <1>9 DEF RoutingOk
  <1>10. CASE RoutingFailed BY <1>10 DEF RoutingFailed
  <1>11. CASE VerifyOk BY <1>11 DEF VerifyOk
  <1>12. CASE VerifyFail BY <1>12 DEF VerifyFail
  <1>13. CASE RollbackPromoteDone BY <1>13 DEF RollbackPromoteDone
  <1>14. CASE RollbackFenceDone BY <1>14 DEF RollbackFenceDone
  <1>15. CASE Crash BY <1>15 DEF Crash, Leave
  <1> QED BY <1>1, <1>2, <1>3, <1>4, <1>5, <1>6, <1>7, <1>8, <1>9, <1>10, <1>11,
             <1>12, <1>13, <1>14, <1>15 DEF EngineStep

LEMMA ReportStep == ASSUME ReportInv, [Next]_vars PROVE ReportInv'
  <1>1. CASE Next
    <2>1. TypeInv'
      BY TypeStep DEF ReportInv
    <2>2. CallPlaced'
      BY <1>1, PlacedCall, PlacedOther DEF ReportInv, Next
    <2>3. ASSUME Calm' PROVE SourcesKnown'
      <3>1. SourcesKnown
        BY <1>1, <2>3, CalmBefore DEF ReportInv
      <3> QED BY <1>1, <2>3, <3>1, ReportCall, ReportService, ReportEngine
          DEF ReportInv, Next
    <2> QED BY <2>1, <2>2, <2>3 DEF ReportInv
  <1>2. CASE UNCHANGED vars
    <2>1. TypeInv'
      BY TypeStep DEF ReportInv
    <2> QED BY <1>2, <2>1 DEF ReportInv, CallPlaced, Calm, SourcesKnown, Sources, InForce,
               Effective, vars, manoVars, engineVars
  <1> QED BY <1>1, <1>2

\* What Execute reports under MANO is what MANO will enforce, through any order
\* of polls, timeouts, early completions and controller stops: success leaves
\* the remote cluster the only source, a rollback the local one if it was,
\* unless an operation outlived its call or an error was passed over (Execute,
\* rollback, pollLcmOpOcc).
THEOREM ReportsAreKept == Spec => []ReportsMatchSources
  <1>1. ReportInv => ReportsMatchSources
    BY DEF ReportInv, Calm, SourcesKnown, ReportsMatchSources
  <1> QED BY ReportInit, ReportStep, <1>1, PTL DEF Spec

=============================================================================
