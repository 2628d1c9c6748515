----------------------- MODULE SwitchoverEngineProofs -----------------------
(***************************************************************************)
(* Proofs about SwitchoverEngine, for any set of ProxySQL instances, any   *)
(* number of attempts and retries, and any choice of CRD-first or          *)
(* SQL-first managers.                                                     *)
(***************************************************************************)
EXTENDS SwitchoverEngine, TLAPS

-----------------------------------------------------------------------------
(***************************************************************************)
(* Type correctness.                                                       *)
(***************************************************************************)

LEMMA TypeInit == Init => TypeOK
  <1> SUFFICES ASSUME Init PROVE TypeOK
    OBVIOUS
  <1>1. ManagerTypeOK
    BY ManagerAssumption DEF Init, ManagerInit, ManagerTypeOK, Steps, Clusters, Risks
  <1>2. Proxy!InitialRows \subseteq Proxy!Rows
    BY DEF Proxy!InitialRows, Proxy!Rows, Proxy!Hostgroups
  <1>3. Proxy!ProxyTypeOK
    BY <1>2 DEF Init, Proxy!ProxyInit, Proxy!ProxyTypeOK
  <1> QED BY <1>1, <1>3, BoundsAssumption DEF Init, ManagerInit, TypeOK

\* A step of a manager call keeps the types of the manager's state.
LEMMA TypeCall == ASSUME TypeOK, CallStep PROVE TypeOK'
  <1> USE ManagerAssumption
      DEF TypeOK, ManagerTypeOK, Steps, ReadOnlySteps, ReadWriteSteps, Clusters,
          Risks, CallStep, proxyVars, historyVars, engineVars, clusterVars, Return, Goto,
          CRDFirst
  <1>0. Proxy!ProxyTypeOK'
    BY DEF Proxy!ProxyTypeOK, Proxy!Rows
  <1>1. CASE ReadOnlyCRDOk BY <1>0, <1>1 DEF ReadOnlyCRDOk
  <1>2. CASE ReadOnlyCRDFail BY <1>0, <1>2 DEF ReadOnlyCRDFail
  <1>3. CASE ReadOnlySQLOk BY <1>0, <1>3 DEF ReadOnlySQLOk
  <1>4. CASE ReadOnlySQLFail BY <1>0, <1>4 DEF ReadOnlySQLFail
  <1>5. CASE ReadOnlySync BY <1>0, <1>5 DEF ReadOnlySync
  <1>6. CASE ReadWriteCRDOk BY <1>0, <1>6 DEF ReadWriteCRDOk
  <1>7. CASE ReadWriteCRDFail BY <1>0, <1>7 DEF ReadWriteCRDFail
  <1>8. CASE ReadWriteSQLOk BY <1>0, <1>8 DEF ReadWriteSQLOk
  <1>9. CASE ReadWriteSQLFail BY <1>0, <1>9 DEF ReadWriteSQLFail
  <1>10. CASE ReadWriteVerifyOk BY <1>0, <1>10 DEF ReadWriteVerifyOk
  <1>11. CASE ReadWriteVerifyFail BY <1>0, <1>11 DEF ReadWriteVerifyFail
  <1>12. CASE ReadWriteSync BY <1>0, <1>12 DEF ReadWriteSync
  <1> QED BY <1>1, <1>2, <1>3, <1>4, <1>5, <1>6, <1>7, <1>8, <1>9, <1>10,
             <1>11, <1>12 DEF ManagerStep

\* No write row for the old source.
NoWriteRow(t) == <<"rw", Local>> \notin t

\* A statement of one of the three loops sent to instance i, or its failure.
Statement(i) ==
    \/ Proxy!BlackholeOk(i) \/ Proxy!BlackholeRefused(i) \/ Proxy!BlackholeFail(i)
    \/ Proxy!PrepareOk(i) \/ Proxy!PrepareFail(i)
    \/ Proxy!CommitOk(i) \/ Proxy!CommitFail(i)

\* What any of them can do to the tables: DML that adds no write row for the
\* old source, LOAD, SAVE, or nothing.
TableStep(i) ==
    \/ UNCHANGED <<mem, runtime, disk>>
    \/ \E rows \in SUBSET Proxy!Rows :
          (NoWriteRow(mem[i]) => NoWriteRow(rows)) /\ Proxy!Dml(i, rows)
    \/ Proxy!Load(i)
    \/ Proxy!Save(i)

\* The tables the DML statements produce are tables; none has a write row for
\* the old source that was not there before, and after the UPDATE none is left.
LEMMA DmlRows ==
    ASSUME NEW t \in SUBSET Proxy!Rows
    PROVE  /\ \A rows \in {t \ {<<"rw", Local>>}, t \cup {<<"rw", Remote>>},
                           t \cup {<<"ro", Remote>>}, t \cup {<<"bh", Local>>},
                           Proxy!Moved(t)} :
                 rows \in SUBSET Proxy!Rows /\ (NoWriteRow(t) => NoWriteRow(rows))
           /\ NoWriteRow(Proxy!Moved(t))
  <1>1. {<<"rw", Remote>>, <<"ro", Remote>>, <<"bh", Local>>} \subseteq Proxy!Rows
    BY DEF Proxy!Rows, Proxy!Hostgroups
  <1>2. /\ <<"rw", Local>> # <<"rw", Remote>> /\ <<"rw", Local>> # <<"ro", Remote>>
        /\ <<"rw", Local>> # <<"bh", Local>>
    BY ManagerAssumption
  <1>3. Proxy!Moved(t) \in SUBSET Proxy!Rows
    BY <1>1 DEF Proxy!Moved
  <1>4. NoWriteRow(Proxy!Moved(t))
    BY <1>2 DEF Proxy!Moved, NoWriteRow
  <1> QED BY <1>1, <1>2, <1>3, <1>4 DEF NoWriteRow

\* The effects of the statements of each loop.
LEMMA StatementEffect ==
    ASSUME TypeOK, NEW i \in Instances, Statement(i)
    PROVE  TableStep(i)
  <1>1. mem[i] \in SUBSET Proxy!Rows
    BY DEF TypeOK, Proxy!ProxyTypeOK
  <1>2. Proxy!PrepareStmt(i) => TableStep(i)
    BY <1>1, DmlRows DEF Proxy!PrepareStmt, TableStep
  <1>3. Proxy!BlackholeStmt(i) => TableStep(i)
    BY <1>1, DmlRows DEF Proxy!BlackholeStmt, TableStep
  <1>4. Proxy!CommitStmt(i) => TableStep(i)
    BY DEF Proxy!CommitStmt, TableStep
  <1>5. UNCHANGED Proxy!tableVars => TableStep(i)
    BY DEF TableStep, Proxy!tableVars
  <1> QED BY <1>2, <1>3, <1>4, <1>5
          DEF Statement, Proxy!BlackholeOk, Proxy!BlackholeRefused, Proxy!BlackholeFail,
              Proxy!PrepareOk, Proxy!PrepareFail, Proxy!CommitOk, Proxy!CommitFail

\* A statement goes on with the visit or ends it.
LEMMA StatementLoop ==
    ASSUME TypeOK, NEW i \in Instances, Statement(i)
    PROVE  /\ todo' \subseteq Instances /\ loopErrs' \subseteq {"io", "pk"}
           /\ answered' \in [Instances -> 0..3]
  <1>0. answered \in [Instances -> 0..3] /\ todo \subseteq Instances /\ loopErrs \subseteq {"io", "pk"}
    BY DEF TypeOK, Proxy!ProxyTypeOK
  <1>1. ASSUME NEW errs \in SUBSET {"io", "pk"}, Proxy!Leave(i, errs)
        PROVE  /\ todo' \subseteq Instances /\ loopErrs' \subseteq {"io", "pk"}
               /\ answered' \in [Instances -> 0..3]
    BY <1>0, <1>1 DEF Proxy!Leave
  <1>2. ASSUME NEW last \in {2, 3, 4}, Proxy!Answer(i, last)
        PROVE  /\ todo' \subseteq Instances /\ loopErrs' \subseteq {"io", "pk"}
               /\ answered' \in [Instances -> 0..3]
    <2>1. CASE Proxy!Leave(i, {})
      BY <1>1, <2>1
    <2>2. CASE /\ answered[i] + 1 < last
               /\ answered' = [answered EXCEPT ![i] = @ + 1]
               /\ UNCHANGED <<todo, loopErrs>>
      <3>1. answered[i] + 1 \in 0..3
        BY <1>0, <2>2
      <3> QED BY <1>0, <2>2, <3>1
    <2> QED BY <1>2, <2>1, <2>2 DEF Proxy!Answer
  <1>3. \/ \E errs \in SUBSET {"io", "pk"} : Proxy!Leave(i, errs)
        \/ \E last \in {2, 3, 4} : Proxy!Answer(i, last)
    <2>1. {"io"} \in SUBSET {"io", "pk"} /\ {"pk"} \in SUBSET {"io", "pk"}
      OBVIOUS
    <2> QED BY <2>1 DEF Statement, Proxy!BlackholeOk, Proxy!BlackholeRefused,
               Proxy!BlackholeFail, Proxy!PrepareOk, Proxy!PrepareFail, Proxy!CommitOk,
               Proxy!CommitFail
  <1> QED BY <1>1, <1>2, <1>3

\* One statement or restart keeps the types of ProxySQL.
LEMMA TypeLoop ==
    ASSUME TypeOK, NEW i \in Instances, Statement(i) \/ Proxy!ProxyRestart(i)
    PROVE  Proxy!ProxyTypeOK'
  <1>0. /\ mem \in [Instances -> SUBSET Proxy!Rows] /\ runtime \in [Instances -> SUBSET Proxy!Rows]
        /\ disk \in [Instances -> SUBSET Proxy!Rows]
    BY DEF TypeOK, Proxy!ProxyTypeOK
  <1>1. CASE Statement(i)
    <2>1. /\ mem' \in [Instances -> SUBSET Proxy!Rows] /\ runtime' \in [Instances -> SUBSET Proxy!Rows]
          /\ disk' \in [Instances -> SUBSET Proxy!Rows]
      BY <1>0, <1>1, StatementEffect DEF TableStep, Proxy!Dml, Proxy!Load, Proxy!Save
    <2> QED BY <1>1, <2>1, StatementLoop DEF Proxy!ProxyTypeOK, Proxy!Rows
  <1>2. CASE Proxy!ProxyRestart(i)
    BY <1>0, <1>2 DEF Proxy!ProxyRestart, Proxy!loopVars, TypeOK, Proxy!ProxyTypeOK, Proxy!Rows
  <1> QED BY <1>1, <1>2

\* Steps that leave a part of the state alone keep its types.
LEMMA FrameManager == ASSUME ManagerTypeOK, UNCHANGED managerVars PROVE ManagerTypeOK'
  BY DEF ManagerTypeOK, managerVars

LEMMA FrameProxy == ASSUME Proxy!ProxyTypeOK, UNCHANGED proxyVars PROVE Proxy!ProxyTypeOK'
  BY DEF Proxy!ProxyTypeOK, Proxy!Rows, proxyVars

\* Making a call keeps the types of the manager's state.
LEMMA TypeMakeCall ==
    ASSUME ManagerTypeOK, NEW c \in Clusters,
           CallSetReadOnly(c) \/ CallSetReadWrite(c),
           UNCHANGED <<clusterVars, ctx>>, risk' \subseteq Risks
    PROVE  ManagerTypeOK'
  BY ManagerAssumption
  DEF ManagerTypeOK, CallSetReadOnly, CallSetReadWrite, CRDFirst, clusterVars,
      Steps, ReadOnlySteps, ReadWriteSteps

\* The steps of Execute itself.
LEMMA TypeEngine == ASSUME TypeOK, EngineStep PROVE TypeOK'
  <1>a. ManagerTypeOK /\ Proxy!ProxyTypeOK
    BY DEF TypeOK
  <1>b. Local \in Clusters /\ Remote \in Clusters /\ risk \subseteq Risks
        /\ risk \cup {"blackhole"} \subseteq Risks
        /\ risk \cup {"leftWritable"} \subseteq Risks
    BY <1>a DEF Clusters, ManagerTypeOK, Risks
  <1>1. ASSUME NEW i \in Instances, BlackholeOne(i) \/ PrepareOne(i) \/ CommitOne(i)
        PROVE TypeOK'
    <2>1. Proxy!ProxyTypeOK'
      BY <1>1, TypeLoop DEF BlackholeOne, PrepareOne, CommitOne, Statement
    <2>2. UNCHANGED <<managerVars, engineVars, historyVars>>
      BY <1>1 DEF BlackholeOne, PrepareOne, CommitOne
    <2>3. ManagerTypeOK' /\ step' = step
      BY <1>a, <2>2, FrameManager DEF managerVars
    <2> QED BY <2>1, <2>2, <2>3 DEF TypeOK, engineVars, historyVars
  <1>2. ASSUME PreFlightPass \/ PreFlightFail \/ DrainCancelled \/ FenceRefused
               \/ BlackholeFailed \/ AllCommitted \/ ReverseReplica
               \/ VerifyOk \/ VerifyFail \/ RollbackFenceDone
        PROVE TypeOK'
    <2> USE <1>2 DEF PreFlightPass, PreFlightFail, DrainCancelled, FenceRefused,
            BlackholeFailed, AllCommitted, ReverseReplica, VerifyOk, VerifyFail,
            RollbackFenceDone, Finish, GotoPhase, Returned
    <2>1. UNCHANGED <<managerVars, proxyVars, attempts>>
      OBVIOUS
    <2>2. ManagerTypeOK' /\ Proxy!ProxyTypeOK' /\ step' = step
      BY <1>a, <2>1, FrameManager, FrameProxy DEF managerVars
    <2>3. step = "none"
      BY DEF TypeOK
    <2>4. /\ pc' \in {"Idle", "Drain", "ReverseReplica", "Verify"}
          /\ result' \in {result, "success", "failed", "rolledBack"}
      OBVIOUS
    <2> QED BY <2>1, <2>2, <2>3, <2>4 DEF TypeOK, ForwardPhases, proxyVars, historyVars
  <1>3. ASSUME FenceEscalate \/ Promoted \/ AllPrepared
        PROVE TypeOK'
    <2> USE <1>3 DEF FenceEscalate, Promoted, AllPrepared, GotoPhase, Returned
    <2>1. Proxy!ProxyTypeOK'
      BY <1>a DEF Proxy!ProxyTypeOK, Proxy!Rows, Proxy!StartLoop
    <2>2. ManagerTypeOK' /\ step' = step
      BY <1>a, FrameManager DEF managerVars
    <2>3. step = "none"
      BY DEF TypeOK
    <2> QED BY <2>1, <2>2, <2>3 DEF TypeOK, ForwardPhases, historyVars
  <1>4. ASSUME DrainElapsed \/ FenceApplied \/ BlackholeApplied \/ PromoteFailed
               \/ RoutingFailed \/ RollbackPromoteDone
        PROVE TypeOK'
    <2> USE <1>4 DEF DrainElapsed, FenceApplied, BlackholeApplied, PromoteFailed,
            RoutingFailed, RollbackPromoteDone, GotoPhase, ManagerFrame, NoteLeftWritable
    <2>1. UNCHANGED <<clusterVars, ctx, proxyVars>> /\ risk' \subseteq Risks
      BY <1>b
    <2>2. Proxy!ProxyTypeOK'
      BY <1>a, <2>1, FrameProxy
    <2>3. ManagerTypeOK'
      BY <1>a, <1>b, <2>1, TypeMakeCall
    <2>4. /\ pc' \in {"Fence", "Promote", "RbPromote", "RbFence"}
          /\ UNCHANGED <<attempts, result>>
      OBVIOUS
    <2> QED BY <2>1, <2>2, <2>3, <2>4
            DEF TypeOK, ForwardPhases, RollbackPhases, proxyVars, historyVars
  <1> QED BY <1>1, <1>2, <1>3, <1>4 DEF EngineStep

LEMMA TypeWorld ==
    ASSUME TypeOK, Execute \/ ContextExpires \/ Crash \/ World PROVE TypeOK'
  <1>a. ManagerTypeOK /\ Proxy!ProxyTypeOK
    BY DEF TypeOK
  <1>1. CASE Execute \/ ContextExpires \/ Crash
    <2>1. Proxy!ProxyTypeOK' /\ restarts' = restarts /\ unstaged' \in {unstaged, {}} /\ reopened' = reopened
      <3>1. CASE ContextExpires
        BY <1>a, <3>1, FrameProxy DEF ContextExpires, proxyVars, historyVars
      <3>2. CASE Execute \/ Crash
        BY <1>a, <3>2 DEF Execute, Crash, Proxy!DropLoop, Proxy!ProxyTypeOK, Proxy!Rows, historyVars
      <3> QED BY <1>1, <3>1, <3>2
    <2>2. ManagerTypeOK'
      BY <1>a, <1>1 DEF Execute, ContextExpires, Crash, ManagerTypeOK, clusterVars,
                        callVars, Steps
    <2>3. /\ pc' \in {"Idle", "PreFlight", pc}
          /\ attempts' \in 0..MaxAttempts
          /\ result' \in {result, "none", "crashed"}
      BY <1>1, BoundsAssumption DEF Execute, ContextExpires, Crash, engineVars, TypeOK
    <2>4. step' # "none" => pc' \in {"Fence", "Promote", "RbPromote", "RbFence"}
      BY <1>1 DEF Execute, ContextExpires, Crash, TypeOK, callVars, engineVars
    <2> QED BY <2>1, <2>2, <2>3, <2>4 DEF TypeOK, ForwardPhases
  <1>2. CASE Environment /\ UNCHANGED <<proxyVars, engineVars>>
    <2>1. Proxy!ProxyTypeOK'
      BY <1>a, <1>2, FrameProxy
    <2>2. ManagerTypeOK' /\ step' = step
      BY <1>a, <1>2 DEF Environment, OperatorEnforce, LoseContact, RegainContact,
                        ManagerTypeOK, callVars, Risks
    <2> QED BY <1>2, <2>1, <2>2 DEF TypeOK, engineVars, proxyVars, historyVars
  <1>3. CASE \E i \in Instances : RestartOne(i)
    <2> PICK i \in Instances : RestartOne(i)
      BY <1>3
    <2>1. Proxy!ProxyTypeOK'
      BY TypeLoop DEF RestartOne
    <2>2. ManagerTypeOK' /\ step' = step
      BY <1>a, FrameManager DEF RestartOne, managerVars
    <2>3. restarts' \in 0..MaxRestarts /\ unstaged' \subseteq Instances /\ reopened' \subseteq Instances
      BY BoundsAssumption DEF RestartOne, TypeOK
    <2> QED BY <2>1, <2>2, <2>3 DEF TypeOK, RestartOne, engineVars
  <1> QED BY <1>1, <1>2, <1>3 DEF World

LEMMA TypeStutter == ASSUME TypeOK, UNCHANGED vars PROVE TypeOK'
  BY DEF TypeOK, ManagerTypeOK, Proxy!ProxyTypeOK, Proxy!Rows, vars, managerVars,
         proxyVars, historyVars, engineVars, Clusters

\* Every reachable state is well typed, whatever calls fail and whenever the
\* controller stops; in particular the retry counter of the CRD-first loops
\* stays within CRDApplyRetries and no call outlives the phase that made it.
THEOREM TypeCorrect == Spec => []TypeOK
  <1>1. TypeOK /\ [Next]_vars => TypeOK'
    BY TypeCall, TypeEngine, TypeWorld, TypeStutter DEF Next
  <1> QED BY TypeInit, <1>1, PTL DEF Spec

-----------------------------------------------------------------------------
(***************************************************************************)
(* No split-brain by the controller's own hand.                            *)
(*                                                                         *)
(* DualWritersExplained is not inductive: it says nothing of the states in *)
(* which one more step makes the second cluster writable. The              *)
(* strengthening says which call each phase has made (CallPlaced) and, as  *)
(* long as no recorded risk was taken, which cluster each phase knows to   *)
(* be read-only (Fenced).                                                  *)
(***************************************************************************)

\* Which cluster the call of each phase is on, and what it may be doing.
CallPlaced ==
    /\ pc = "Fence" =>
          on = Local /\ op = "readOnly" /\ step \in ReadOnlySteps \cup {"none"}
    /\ pc = "Promote" => on = Remote /\ op = "readWrite"
    /\ pc = "RbPromote" =>
          /\ on = Remote /\ op = "readOnly" /\ step \in ReadOnlySteps \cup {"none"}
          /\ step = "none" => ret \in {"ok", "err"}
    /\ pc = "RbFence" => on = Local /\ op = "readWrite"

\* The SetReadOnly in progress has made its cluster read-only.
Demoted == step = "roSync" \/ (step = "none" /\ ret = "ok")

\* Before the fence, and while it is lifted again, the remote cluster is
\* read-only; from the end of the fence until then the local one is.
Fenced ==
    /\ Local \notin writable \/ Remote \notin writable
    /\ pc \in {"Drain", "Fence", "Blackhole", "RbFence"} => Remote \notin writable
    /\ pc \in {"Promote", "Prepare", "Commit", "ReverseReplica", "Verify", "RbPromote"}
          => Local \notin writable
    /\ pc = "Fence" /\ Demoted => Local \notin writable
    /\ pc = "RbPromote" /\ Demoted => Remote \notin writable

FenceInv == TypeOK /\ CallPlaced /\ (risk = {} => Fenced)

LEMMA FenceInit == Init => FenceInv
  <1> SUFFICES ASSUME Init PROVE FenceInv
    OBVIOUS
  <1>1. TypeOK
    BY TypeInit
  <1> QED BY <1>1, ManagerAssumption DEF Init, ManagerInit, FenceInv, CallPlaced, Fenced, Demoted

\* A step of a call stays within the call.
LEMMA PlacedCall == ASSUME TypeOK, CallPlaced, CallStep PROVE CallPlaced'
  <1> USE DEF CallPlaced, ReadOnlySteps, Return, Goto, CallStep, engineVars
  <1>0. pc \in {"Fence", "Promote", "RbPromote", "RbFence"} \/ step = "none"
    BY DEF TypeOK
  <1>1. CASE ReadOnlyCRDOk BY <1>0, <1>1 DEF ReadOnlyCRDOk
  <1>2. CASE ReadOnlyCRDFail BY <1>0, <1>2 DEF ReadOnlyCRDFail
  <1>3. CASE ReadOnlySQLOk BY <1>0, <1>3 DEF ReadOnlySQLOk
  <1>4. CASE ReadOnlySQLFail BY <1>0, <1>4 DEF ReadOnlySQLFail
  <1>5. CASE ReadOnlySync BY <1>0, <1>5 DEF ReadOnlySync
  <1>6. CASE ReadWriteCRDOk BY <1>0, <1>6 DEF ReadWriteCRDOk
  <1>7. CASE ReadWriteCRDFail BY <1>0, <1>7 DEF ReadWriteCRDFail
  <1>8. CASE ReadWriteSQLOk BY <1>0, <1>8 DEF ReadWriteSQLOk
  <1>9. CASE ReadWriteSQLFail BY <1>0, <1>9 DEF ReadWriteSQLFail
  <1>10. CASE ReadWriteVerifyOk BY <1>0, <1>10 DEF ReadWriteVerifyOk
  <1>11. CASE ReadWriteVerifyFail BY <1>0, <1>11 DEF ReadWriteVerifyFail
  <1>12. CASE ReadWriteSync BY <1>0, <1>12 DEF ReadWriteSync
  <1> QED BY <1>1, <1>2, <1>3, <1>4, <1>5, <1>6, <1>7, <1>8, <1>9, <1>10,
             <1>11, <1>12 DEF ManagerStep

\* A call whose risks were not taken keeps each phase's read-only cluster.
LEMMA FencedCall ==
    ASSUME TypeOK, CallPlaced, CallStep, risk' = {}, Fenced PROVE Fenced'
  <1> USE ManagerAssumption
      DEF CallPlaced, Fenced, Demoted, ReadOnlySteps, Return, Goto, Undoing, CallStep,
          engineVars, clusterVars
  <1>0. step # "none" => pc \in {"Fence", "Promote", "RbPromote", "RbFence"}
    BY DEF TypeOK
  <1>1. CASE ReadOnlyCRDOk BY <1>0, <1>1 DEF ReadOnlyCRDOk
  <1>2. CASE ReadOnlyCRDFail BY <1>0, <1>2 DEF ReadOnlyCRDFail
  <1>3. CASE ReadOnlySQLOk BY <1>0, <1>3 DEF ReadOnlySQLOk
  <1>4. CASE ReadOnlySQLFail BY <1>0, <1>4 DEF ReadOnlySQLFail
  <1>5. CASE ReadOnlySync BY <1>0, <1>5 DEF ReadOnlySync
  <1>6. CASE ReadWriteCRDOk BY <1>0, <1>6 DEF ReadWriteCRDOk
  <1>7. CASE ReadWriteCRDFail BY <1>0, <1>7 DEF ReadWriteCRDFail
  <1>8. CASE ReadWriteSQLOk BY <1>0, <1>8 DEF ReadWriteSQLOk
  <1>9. CASE ReadWriteSQLFail BY <1>0, <1>9 DEF ReadWriteSQLFail
  <1>10. CASE ReadWriteVerifyOk BY <1>0, <1>10 DEF ReadWriteVerifyOk
  <1>11. CASE ReadWriteVerifyFail BY <1>0, <1>11 DEF ReadWriteVerifyFail
  <1>12. CASE ReadWriteSync BY <1>0, <1>12 DEF ReadWriteSync
  <1> QED BY <1>1, <1>2, <1>3, <1>4, <1>5, <1>6, <1>7, <1>8, <1>9, <1>10,
             <1>11, <1>12 DEF ManagerStep

\* A step of Execute makes the call that belongs to the phase it enters.
LEMMA PlacedEngine == ASSUME TypeOK, CallPlaced, EngineStep PROVE CallPlaced'
  <1> USE DEF CallPlaced, ReadOnlySteps, CallSetReadOnly, CallSetReadWrite, CRDFirst,
              GotoPhase, Finish, managerVars
  <1>1. CASE PreFlightPass BY <1>1 DEF PreFlightPass
  <1>2. CASE PreFlightFail BY <1>2 DEF PreFlightFail
  <1>3. CASE DrainCancelled BY <1>3 DEF DrainCancelled
  <1>4. CASE DrainElapsed BY <1>4 DEF DrainElapsed
  <1>5. CASE FenceApplied BY <1>5 DEF FenceApplied
  <1>6. CASE FenceRefused BY <1>6 DEF FenceRefused
  <1>7. CASE FenceEscalate BY <1>7 DEF FenceEscalate
  <1>8. CASE BlackholeApplied BY <1>8 DEF BlackholeApplied
  <1>9. CASE BlackholeFailed BY <1>9 DEF BlackholeFailed
  <1>10. CASE Promoted BY <1>10 DEF Promoted
  <1>11. CASE PromoteFailed BY <1>11 DEF PromoteFailed
  <1>12. CASE AllPrepared BY <1>12 DEF AllPrepared
  <1>13. CASE AllCommitted BY <1>13 DEF AllCommitted
  <1>14. CASE RoutingFailed BY <1>14 DEF RoutingFailed
  <1>15. CASE ReverseReplica BY <1>15 DEF ReverseReplica
  <1>16. CASE VerifyOk BY <1>16 DEF VerifyOk
  <1>17. CASE VerifyFail BY <1>17 DEF VerifyFail
  <1>18. CASE RollbackPromoteDone BY <1>18 DEF RollbackPromoteDone
  <1>19. CASE RollbackFenceDone BY <1>19 DEF RollbackFenceDone
  <1>20. CASE \E i \in Instances : BlackholeOne(i) \/ PrepareOne(i) \/ CommitOne(i)
    BY <1>20 DEF BlackholeOne, PrepareOne, CommitOne, managerVars, engineVars
  <1> QED BY <1>1, <1>2, <1>3, <1>4, <1>5, <1>6, <1>7, <1>8, <1>9, <1>10,
             <1>11, <1>12, <1>13, <1>14, <1>15, <1>16, <1>17, <1>18,
             <1>19, <1>20 DEF EngineStep

\* A step of Execute moves from one phase's read-only cluster to the next's.
LEMMA FencedEngine ==
    ASSUME TypeOK, CallPlaced, EngineStep, risk' = {}, Fenced PROVE Fenced'
  <1> USE ManagerAssumption
      DEF CallPlaced, Fenced, Demoted, CallSetReadOnly, CallSetReadWrite, CRDFirst,
          GotoPhase, Finish, Returned, NoteLeftWritable, ManagerFrame, managerVars,
          clusterVars
  <1>0. ret \in {"none", "ok", "err"}
    BY DEF TypeOK, ManagerTypeOK
  <1>1. CASE PreFlightPass BY <1>0, <1>1 DEF PreFlightPass
  <1>2. CASE PreFlightFail BY <1>0, <1>2 DEF PreFlightFail
  <1>3. CASE DrainCancelled BY <1>0, <1>3 DEF DrainCancelled
  <1>4. CASE DrainElapsed BY <1>0, <1>4 DEF DrainElapsed
  <1>5. CASE FenceApplied BY <1>0, <1>5 DEF FenceApplied
  <1>6. CASE FenceRefused BY <1>0, <1>6 DEF FenceRefused
  <1>7. CASE FenceEscalate BY <1>0, <1>7 DEF FenceEscalate
  <1>8. CASE BlackholeApplied BY <1>0, <1>8 DEF BlackholeApplied
  <1>9. CASE BlackholeFailed BY <1>0, <1>9 DEF BlackholeFailed
  <1>10. CASE Promoted BY <1>0, <1>10 DEF Promoted
  <1>11. CASE PromoteFailed BY <1>0, <1>11 DEF PromoteFailed
  <1>12. CASE AllPrepared BY <1>0, <1>12 DEF AllPrepared
  <1>13. CASE AllCommitted BY <1>0, <1>13 DEF AllCommitted
  <1>14. CASE RoutingFailed BY <1>0, <1>14 DEF RoutingFailed
  <1>15. CASE ReverseReplica BY <1>0, <1>15 DEF ReverseReplica
  <1>16. CASE VerifyOk BY <1>0, <1>16 DEF VerifyOk
  <1>17. CASE VerifyFail BY <1>0, <1>17 DEF VerifyFail
  <1>18. CASE RollbackPromoteDone BY <1>0, <1>18 DEF RollbackPromoteDone
  <1>19. CASE RollbackFenceDone BY <1>0, <1>19 DEF RollbackFenceDone
  <1>20. CASE \E i \in Instances : BlackholeOne(i) \/ PrepareOne(i) \/ CommitOne(i)
    BY <1>0, <1>20 DEF BlackholeOne, PrepareOne, CommitOne, managerVars, engineVars
  <1> QED BY <1>1, <1>2, <1>3, <1>4, <1>5, <1>6, <1>7, <1>8, <1>9, <1>10,
             <1>11, <1>12, <1>13, <1>14, <1>15, <1>16, <1>17, <1>18,
             <1>19, <1>20 DEF EngineStep

\* Crashes, deadlines, restarts and the operator.
LEMMA FenceWorld ==
    ASSUME FenceInv, Execute \/ ContextExpires \/ Crash \/ World, TypeOK'
    PROVE  FenceInv'
  <1>1. CallPlaced'
    BY DEF FenceInv, CallPlaced, Execute, ContextExpires, Crash, World, RestartOne, Environment,
           OperatorEnforce, LoseContact, RegainContact, callVars, engineVars, managerVars
  <1>2. ASSUME risk' = {} PROVE risk = {} /\ Fenced'
    <2>1. risk = {}
      BY <1>2 DEF Execute, ContextExpires, Crash, World, RestartOne, Environment,
           OperatorEnforce, LoseContact, RegainContact, managerVars
    <2> QED BY <1>2, <2>1 DEF FenceInv, Fenced, Demoted, Execute, ContextExpires, Crash,
           World, RestartOne, Environment, OperatorEnforce, LoseContact, RegainContact, callVars,
           engineVars, managerVars, clusterVars
  <1> QED BY <1>1, <1>2 DEF FenceInv

\* No step forgets a risk.
LEMMA RiskGrows == ASSUME EngineStep \/ CallStep, risk' = {} PROVE risk = {}
  <1>1. CASE CallStep
    BY <1>1 DEF CallStep, ManagerStep, ReadOnlyCRDOk, ReadOnlyCRDFail, ReadOnlySQLOk,
        ReadOnlySQLFail, ReadOnlySync, ReadWriteCRDOk, ReadWriteCRDFail, ReadWriteSQLOk,
        ReadWriteSQLFail, ReadWriteVerifyOk, ReadWriteVerifyFail, ReadWriteSync
  <1>2. CASE EngineStep
    BY <1>2 DEF EngineStep, PreFlightPass, PreFlightFail, DrainCancelled, DrainElapsed, FenceApplied,
        FenceRefused, FenceEscalate, BlackholeApplied, BlackholeFailed, Promoted,
        PromoteFailed, AllPrepared, AllCommitted, RoutingFailed, ReverseReplica,
        VerifyOk, VerifyFail, RollbackPromoteDone, RollbackFenceDone,
        BlackholeOne, PrepareOne, CommitOne, managerVars, ManagerFrame, NoteLeftWritable
  <1> QED BY <1>1, <1>2

LEMMA FenceStep == ASSUME FenceInv, [Next]_vars PROVE FenceInv'
  <1>1. TypeOK'
    BY TypeCall, TypeEngine, TypeWorld, TypeStutter DEF Next, FenceInv
  <1>2. CASE EngineStep \/ CallStep
    BY <1>1, <1>2, RiskGrows, PlacedCall, FencedCall, PlacedEngine, FencedEngine
    DEF FenceInv
  <1>3. CASE Execute \/ ContextExpires \/ Crash \/ World
    BY <1>1, <1>3, FenceWorld
  <1>4. CASE UNCHANGED vars
    BY <1>1, <1>4 DEF FenceInv, CallPlaced, Fenced, Demoted, vars, managerVars, engineVars
  <1> QED BY <1>2, <1>3, <1>4 DEF Next

\* Whatever fails and whenever the controller stops, the two clusters accept
\* writes at the same time only after one of the recorded ways past the fence
\* (phaseFence, phasePromote, rollback).
THEOREM NoUnexplainedSplitBrain == Spec => []DualWritersExplained
  <1>1. FenceInv => DualWritersExplained
    BY DEF FenceInv, Fenced, DualWritersExplained
  <1> QED BY FenceInit, FenceStep, <1>1, PTL DEF Spec

-----------------------------------------------------------------------------
(***************************************************************************)
(* The engine implements the write role.                                   *)
(*                                                                         *)
(* A step that takes or has taken a risk is an Unpromised step. Of the     *)
(* others, a step of a call releases or acquires the role and reports      *)
(* nothing; a step of Execute reports and leaves the role alone. FenceInv  *)
(* gives what the abstract step requires: that nobody holds the role when  *)
(* it is acquired, and who holds it when the outcome is reported.          *)
(***************************************************************************)

\* A step of a call moves the role by one release or one acquisition, or not.
RoleMoves ==
    /\ result' = result
    /\ \/ writable' = writable
       \/ \E c \in Clusters : c \in writable /\ writable' = writable \ {c}
       \/ \E c \in Clusters : writable = {} /\ writable' = {c}

\* A step of Execute reports what is the case.
RoleReported ==
    /\ writable' = writable
    /\ \/ result' = result
       \/ /\ result' = "success" => writable = {Remote}
          /\ result' = "rolledBack" => Remote \notin writable

LEMMA RoleCall == ASSUME FenceInv, CallStep, risk = {} PROVE RoleMoves
  <1>1. /\ writable \subseteq {Local, Remote} /\ on \in {Local, Remote}
        /\ result' = result /\ Fenced
    BY DEF FenceInv, TypeOK, ManagerTypeOK, Clusters, CallStep, engineVars
  <1>2. ASSUME step = "rwSQL" PROVE writable \subseteq {on}
    <2>1. pc \in {"Promote", "RbFence"}
      BY <1>2 DEF FenceInv, TypeOK, CallPlaced, ReadOnlySteps
    <2> QED BY <1>1, <2>1 DEF FenceInv, CallPlaced, Fenced
  <1>3. ASSUME writable' = writable \ {on} PROVE RoleMoves
    BY <1>1, <1>3 DEF RoleMoves, Clusters
  <1>4. ASSUME step = "rwSQL", writable' = writable \cup {on} PROVE RoleMoves
    BY <1>1, <1>2, <1>4 DEF RoleMoves, Clusters
  <1>5. ASSUME writable' = writable PROVE RoleMoves
    BY <1>1, <1>5 DEF RoleMoves
  <1>6. CASE ReadOnlySQLOk \/ ReadOnlySQLFail
    BY <1>3, <1>5, <1>6 DEF ReadOnlySQLOk, ReadOnlySQLFail
  <1>7. CASE ReadWriteSQLOk \/ ReadWriteSQLFail
    BY <1>4, <1>5, <1>7 DEF ReadWriteSQLOk, ReadWriteSQLFail
  <1>8. CASE \/ ReadOnlyCRDOk \/ ReadOnlyCRDFail \/ ReadOnlySync
             \/ ReadWriteCRDOk \/ ReadWriteCRDFail
             \/ ReadWriteVerifyOk \/ ReadWriteVerifyFail \/ ReadWriteSync
    BY <1>5, <1>8 DEF ReadOnlyCRDOk, ReadOnlyCRDFail, ReadOnlySync, ReadWriteCRDOk,
           ReadWriteCRDFail, ReadWriteVerifyOk, ReadWriteVerifyFail, ReadWriteSync,
           clusterVars
  <1> QED BY <1>6, <1>7, <1>8 DEF CallStep, ManagerStep

LEMMA RoleEngine == ASSUME FenceInv, EngineStep, risk = {} PROVE RoleReported
  <1> USE DEF RoleReported, GotoPhase, Finish, managerVars, clusterVars
  <1>1. writable \subseteq {Local, Remote} /\ Fenced
    BY DEF FenceInv, TypeOK, ManagerTypeOK, Clusters
  <1>2. CASE FenceRefused \/ BlackholeFailed \/ RollbackFenceDone
    BY <1>1, <1>2 DEF FenceRefused, BlackholeFailed, RollbackFenceDone, Returned, Fenced
  <1>3. CASE VerifyOk
    BY <1>1, <1>3 DEF VerifyOk, Fenced
  <1>4. CASE PreFlightFail \/ DrainCancelled \/ VerifyFail
    BY <1>4 DEF PreFlightFail, DrainCancelled, VerifyFail
  <1>5. CASE \/ PreFlightPass \/ FenceEscalate \/ Promoted \/ AllPrepared \/ AllCommitted
             \/ ReverseReplica
    BY <1>5 DEF PreFlightPass, FenceEscalate, Promoted, AllPrepared, AllCommitted,
           ReverseReplica
  <1>6. CASE \/ DrainElapsed \/ FenceApplied \/ BlackholeApplied \/ PromoteFailed
             \/ RoutingFailed \/ RollbackPromoteDone
    BY <1>6 DEF DrainElapsed, FenceApplied, BlackholeApplied, PromoteFailed,
           RoutingFailed, RollbackPromoteDone, ManagerFrame
  <1>7. CASE \E i \in Instances : BlackholeOne(i) \/ PrepareOne(i) \/ CommitOne(i)
    BY <1>7 DEF BlackholeOne, PrepareOne, CommitOne, engineVars
  <1> QED BY <1>2, <1>3, <1>4, <1>5, <1>6, <1>7 DEF EngineStep

\* The operator can only take the role away without a risk being recorded.
LEMMA RoleWorld ==
    ASSUME FenceInv, Execute \/ ContextExpires \/ Crash \/ World, risk' = {}
    PROVE  RoleMoves \/ RoleReported
  <1>1. CASE Execute \/ ContextExpires \/ Crash
    BY <1>1 DEF Execute, ContextExpires, Crash, RoleReported, clusterVars, engineVars
  <1>2. CASE World
    BY <1>2 DEF World, RestartOne, Environment, OperatorEnforce, LoseContact, RegainContact,
           RoleMoves, managerVars, engineVars
  <1> QED BY <1>1, <1>2

\* Such a step is a step of the abstract specification or stutters.
LEMMA RoleImplied ==
    ASSUME risk = {}, risk' = {}, TypeOK', RoleMoves \/ RoleReported
    PROVE  [Role!RoleNext]_(Role!roleVars)
  <1> USE DEF Role!RoleNext, Role!roleVars, Role!Release, Role!Acquire, Role!Report,
              Clusters
  <1>1. (risk # {})' = (risk # {})
    OBVIOUS
  <1>2. CASE RoleMoves
    BY <1>1, <1>2 DEF RoleMoves
  <1>3. CASE RoleReported
    <2>1. result' \in Role!Outcomes
      BY DEF TypeOK, Role!Outcomes
    <2> QED BY <1>1, <1>3, <2>1 DEF RoleReported
  <1> QED BY <1>2, <1>3

\* SwitchoverEngine implements WriteRole, for any set of ProxySQL instances and
\* any bounds: as long as none of the recorded risks is taken, writes are
\* enabled on a cluster only when they are disabled on both, Execute reports
\* success only when the remote cluster alone accepts writes, and a rollback
\* only when it does not (Execute, phaseFence, phasePromote, rollback).
THEOREM ImplementsWriteRole == Spec => MovesWriteRole
  <1>1. Init => Role!RoleInit
    BY DEF Init, ManagerInit, Role!RoleInit
  <1>2. ASSUME FenceInv, FenceInv', [Next]_vars PROVE [Role!RoleNext]_(Role!roleVars)
    <2>0. TypeOK'
      BY <1>2 DEF FenceInv
    <2>1. CASE risk' # {}
      <3>1. writable' \subseteq {Local, Remote} /\ result' \in Role!Outcomes
        BY <2>0 DEF TypeOK, ManagerTypeOK, Clusters, Role!Outcomes
      <3> QED BY <2>1, <3>1 DEF Role!RoleNext, Role!Unpromised
    <2>2. CASE risk' = {} /\ (EngineStep \/ CallStep)
      <3>1. risk = {}
        BY <2>2, RiskGrows
      <3> QED BY <1>2, <2>0, <2>2, <3>1, RoleCall, RoleEngine, RoleImplied
    <2>3. CASE risk' = {} /\ (Execute \/ ContextExpires \/ Crash \/ World)
      <3>1. risk = {}
        BY <2>3 DEF Execute, ContextExpires, Crash, World, RestartOne, Environment, OperatorEnforce,
               LoseContact, RegainContact, managerVars
      <3> QED BY <1>2, <2>0, <2>3, <3>1, RoleWorld, RoleImplied
    <2>4. CASE UNCHANGED vars
      BY <2>4 DEF vars, managerVars, engineVars, Role!roleVars
    <2> QED BY <1>2, <2>1, <2>2, <2>3, <2>4 DEF Next
  <1> QED BY FenceInit, FenceStep, <1>1, <1>2, PTL DEF Spec, MovesWriteRole, Role!RoleSpec

-----------------------------------------------------------------------------
(***************************************************************************)
(* The ProxySQL fence holds where it applies.                              *)
(*                                                                         *)
(* No DML of the managers ever adds a write row for the old source, so an  *)
(* instance that has lost it in all three tables never gets it back, not   *)
(* even by a restart. A visit of the blackhole loop takes it from one      *)
(* table after the other: the UPDATE from the admin table, the LOAD from   *)
(* the runtime, the SAVE from disk. A restart in between brings it back,   *)
(* which is why the instance then joins reopened. The fence counts only    *)
(* when every visit ended without an error.                                *)
(***************************************************************************)

\* Instance i cannot send writes to the old source, nor be made to.
CutOff(i) == NoWriteRow(mem[i]) /\ NoWriteRow(runtime[i]) /\ NoWriteRow(disk[i])

CutOffInv ==
    /\ "blackhole" \in risk => \A i \in Instances \ reopened : CutOff(i)
    /\ pc = "Blackhole" => \A i \in Instances \ reopened :
          /\ loopErrs = {} /\ i \notin todo => CutOff(i)
          /\ answered[i] >= 1 => NoWriteRow(mem[i])
          /\ answered[i] = 3 => NoWriteRow(runtime[i])

\* A statement or a restart leaves the tables of the other instances alone.
LEMMA OthersKept ==
    ASSUME TypeOK, NEW i \in Instances, NEW j \in Instances \ {i},
           Statement(i) \/ Proxy!ProxyRestart(i)
    PROVE  /\ mem'[j] = mem[j] /\ runtime'[j] = runtime[j] /\ disk'[j] = disk[j]
           /\ answered'[j] = answered[j] /\ (j \in todo' <=> j \in todo)
  <1>t. /\ mem \in [Instances -> SUBSET Proxy!Rows] /\ runtime \in [Instances -> SUBSET Proxy!Rows]
        /\ disk \in [Instances -> SUBSET Proxy!Rows] /\ answered \in [Instances -> 0..3]
    BY DEF TypeOK, Proxy!ProxyTypeOK
  <1>1. CASE Statement(i)
    <2>1. mem'[j] = mem[j] /\ runtime'[j] = runtime[j] /\ disk'[j] = disk[j]
      BY <1>t, <1>1, StatementEffect DEF TableStep, Proxy!Dml, Proxy!Load, Proxy!Save
    <2>2. answered'[j] = answered[j] /\ (j \in todo' <=> j \in todo)
      BY <1>t, <1>1 DEF Statement, Proxy!BlackholeOk, Proxy!BlackholeRefused,
         Proxy!BlackholeFail, Proxy!PrepareOk, Proxy!PrepareFail, Proxy!CommitOk,
         Proxy!CommitFail, Proxy!Answer, Proxy!Leave
    <2> QED BY <2>1, <2>2
  <1>2. CASE Proxy!ProxyRestart(i)
    BY <1>t, <1>2 DEF Proxy!ProxyRestart, Proxy!loopVars
  <1> QED BY <1>1, <1>2

\* An instance that is cut off stays so.
LEMMA CutOffKept ==
    ASSUME TypeOK, NEW i \in Instances, NEW j \in Instances, CutOff(j),
           Statement(i) \/ Proxy!ProxyRestart(i)
    PROVE  CutOff(j)'
  <1> USE DEF CutOff
  <1>t. /\ mem \in [Instances -> SUBSET Proxy!Rows] /\ runtime \in [Instances -> SUBSET Proxy!Rows]
        /\ disk \in [Instances -> SUBSET Proxy!Rows]
    BY DEF TypeOK, Proxy!ProxyTypeOK
  <1>1. CASE j # i
    BY <1>1, OthersKept DEF NoWriteRow
  <1>2. CASE j = i /\ Statement(i)
    BY <1>t, <1>2, StatementEffect DEF TableStep, Proxy!Dml, Proxy!Load, Proxy!Save, NoWriteRow
  <1>3. CASE j = i /\ Proxy!ProxyRestart(i)
    BY <1>t, <1>3 DEF Proxy!ProxyRestart, NoWriteRow
  <1> QED BY <1>1, <1>2, <1>3

\* A statement of the blackhole loop that returns without an error does its
\* part of cutting the instance off, and the last one completes it.
LEMMA CutOffMade ==
    ASSUME TypeOK, NEW i \in Instances, Proxy!BlackholeOk(i),
           answered[i] >= 1 => NoWriteRow(mem[i]),
           answered[i] = 3 => NoWriteRow(runtime[i])
    PROVE  /\ answered'[i] >= 1 => NoWriteRow(mem'[i])
           /\ answered'[i] = 3 => NoWriteRow(runtime'[i])
           /\ i \notin todo' => CutOff(i)'
  <1>t. /\ mem \in [Instances -> SUBSET Proxy!Rows] /\ runtime \in [Instances -> SUBSET Proxy!Rows]
        /\ disk \in [Instances -> SUBSET Proxy!Rows] /\ answered \in [Instances -> 0..3]
        /\ mem[i] \in SUBSET Proxy!Rows
    BY DEF TypeOK, Proxy!ProxyTypeOK
  <1>0. i \in todo /\ Proxy!BlackholeStmt(i) /\ Proxy!Answer(i, 4)
    BY DEF Proxy!BlackholeOk, Proxy!Visiting
  <1>1. CASE answered[i] < 3
    <2>1. answered'[i] = answered[i] + 1 /\ i \in todo'
      BY <1>t, <1>0, <1>1 DEF Proxy!Answer
    <2>2. NoWriteRow(mem'[i])
      <3>1. NoWriteRow(Proxy!Moved(mem[i]))
        BY <1>t, DmlRows
      <3>2. answered[i] = 0 => mem'[i] = Proxy!Moved(mem[i])
        BY <1>t, <1>0 DEF Proxy!BlackholeStmt, Proxy!Dml
      <3>3. answered[i] = 1 => mem'[i] = mem[i] \cup {<<"bh", Local>>}
        BY <1>t, <1>0 DEF Proxy!BlackholeStmt, Proxy!Dml
      <3>4. answered[i] = 2 => mem'[i] = mem[i]
        BY <1>t, <1>0 DEF Proxy!BlackholeStmt, Proxy!Load
      <3> QED BY <1>t, <1>1, <3>1, <3>2, <3>3, <3>4 DEF NoWriteRow
    <2>3. answered[i] = 2 => runtime'[i] = mem[i]
      BY <1>t, <1>0 DEF Proxy!BlackholeStmt, Proxy!Load
    <2> QED BY <1>t, <2>1, <2>2, <2>3
  <1>2. CASE answered[i] = 3
    <2>1. answered'[i] = 0
      BY <1>t, <1>0, <1>2 DEF Proxy!Answer, Proxy!Leave
    <2>2. mem'[i] = mem[i] /\ runtime'[i] = runtime[i] /\ disk'[i] = mem[i]
      BY <1>t, <1>0, <1>2 DEF Proxy!BlackholeStmt, Proxy!Save
    <2> QED BY <1>2, <2>1, <2>2 DEF CutOff, NoWriteRow
  <1> QED BY <1>t, <1>1, <1>2

LEMMA CutOffStep == ASSUME TypeOK, CutOffInv, [Next]_vars PROVE CutOffInv'
  <1>a. ASSUME UNCHANGED <<mem, runtime, disk>> PROVE \A i \in Instances : CutOff(i)' <=> CutOff(i)
    BY <1>a DEF CutOff, NoWriteRow
  <1>b. ASSUME UNCHANGED <<mem, runtime, disk, reopened>>, pc' # "Blackhole",
               "blackhole" \in risk' => "blackhole" \in risk
        PROVE  CutOffInv'
    BY <1>a, <1>b DEF CutOffInv
  <1>c. ASSUME UNCHANGED <<mem, runtime, disk, pc, todo, loopErrs, answered, reopened>>,
               "blackhole" \in risk' => "blackhole" \in risk
        PROVE  CutOffInv'
    BY <1>a, <1>c DEF CutOffInv, NoWriteRow
  <1>1. CASE CallStep
    <2>1. UNCHANGED <<mem, runtime, disk, pc, todo, loopErrs, answered, reopened>>
      BY <1>1 DEF CallStep, proxyVars, historyVars, engineVars
    <2>2. "blackhole" \in risk' => "blackhole" \in risk
      BY <1>1 DEF CallStep, ManagerStep, ReadOnlyCRDOk, ReadOnlyCRDFail, ReadOnlySQLOk,
         ReadOnlySQLFail, ReadOnlySync, ReadWriteCRDOk, ReadWriteCRDFail, ReadWriteSQLOk,
         ReadWriteSQLFail, ReadWriteVerifyOk, ReadWriteVerifyFail, ReadWriteSync
    <2> QED BY <1>c, <2>1, <2>2
  <1>2. CASE \/ PreFlightPass \/ PreFlightFail \/ DrainCancelled \/ DrainElapsed \/ FenceApplied
             \/ FenceRefused \/ BlackholeFailed \/ Promoted \/ PromoteFailed \/ AllPrepared
             \/ AllCommitted \/ RoutingFailed \/ ReverseReplica \/ VerifyOk \/ VerifyFail
             \/ RollbackPromoteDone \/ RollbackFenceDone
    <2>1. UNCHANGED <<mem, runtime, disk, reopened>> /\ pc' # "Blackhole"
      BY <1>2 DEF PreFlightPass, PreFlightFail, DrainCancelled, DrainElapsed, FenceApplied,
         FenceRefused, BlackholeFailed, Promoted, PromoteFailed, AllPrepared, AllCommitted,
         RoutingFailed, ReverseReplica, VerifyOk, VerifyFail, RollbackPromoteDone,
         RollbackFenceDone, proxyVars, historyVars, GotoPhase, Finish
    <2>2. "blackhole" \in risk' => "blackhole" \in risk
      BY <1>2 DEF PreFlightPass, PreFlightFail, DrainCancelled, DrainElapsed, FenceApplied,
         FenceRefused, BlackholeFailed, Promoted, PromoteFailed, AllPrepared, AllCommitted,
         RoutingFailed, ReverseReplica, VerifyOk, VerifyFail, RollbackPromoteDone,
         RollbackFenceDone, managerVars, ManagerFrame, NoteLeftWritable
    <2> QED BY <1>b, <2>1, <2>2
  <1>3. CASE FenceEscalate
    <2>1. /\ UNCHANGED <<mem, runtime, disk, risk, reopened>> /\ todo' = Instances
          /\ \A i \in Instances : answered'[i] = 0
      BY <1>3 DEF FenceEscalate, Proxy!StartLoop, managerVars, historyVars
    <2> QED BY <1>a, <2>1 DEF CutOffInv
  <1>4. CASE BlackholeApplied
    <2>1. /\ pc = "Blackhole" /\ todo = {} /\ loopErrs = {} /\ pc' = "Promote"
          /\ UNCHANGED <<mem, runtime, disk, reopened>>
      BY <1>4 DEF BlackholeApplied, proxyVars, historyVars
    <2> QED BY <1>a, <2>1 DEF CutOffInv
  <1>5. ASSUME NEW i \in Instances, BlackholeOne(i) PROVE CutOffInv'
    <2>0. /\ pc = "Blackhole" /\ UNCHANGED <<pc, risk, reopened>> /\ Statement(i)
          /\ Proxy!BlackholeOk(i) \/ Proxy!BlackholeRefused(i) \/ Proxy!BlackholeFail(i)
      BY <1>5 DEF BlackholeOne, managerVars, engineVars, historyVars, Statement
    <2>1. \A j \in Instances : CutOff(j) => CutOff(j)'
      BY <2>0, CutOffKept
    <2>2. \A j \in Instances \ {i} :
             /\ mem'[j] = mem[j] /\ runtime'[j] = runtime[j]
             /\ answered'[j] = answered[j] /\ (j \in todo' <=> j \in todo)
      BY <2>0, OthersKept
    <2>3. loopErrs' = {} => loopErrs = {}
      BY <2>0 DEF Proxy!BlackholeOk, Proxy!BlackholeRefused, Proxy!BlackholeFail,
                  Proxy!Answer, Proxy!Leave
    <2>4. ASSUME i \notin reopened
          PROVE  /\ loopErrs' = {} /\ i \notin todo' => CutOff(i)'
                 /\ answered'[i] >= 1 => NoWriteRow(mem'[i])
                 /\ answered'[i] = 3 => NoWriteRow(runtime'[i])
      <3>1. CASE Proxy!BlackholeOk(i)
        BY <2>0, <2>4, <3>1, CutOffMade DEF CutOffInv
      <3>2. CASE Proxy!BlackholeRefused(i) \/ Proxy!BlackholeFail(i)
        <4>1. answered \in [Instances -> 0..3]
          BY DEF TypeOK, Proxy!ProxyTypeOK
        <4>2. loopErrs' # {} /\ answered'[i] = 0
          BY <3>2, <4>1 DEF Proxy!BlackholeRefused, Proxy!BlackholeFail, Proxy!Leave
        <4> QED BY <4>2
      <3> QED BY <2>0, <3>1, <3>2
    <2>5. \A j \in Instances \ reopened :
             /\ loopErrs' = {} /\ j \notin todo' => CutOff(j)'
             /\ answered'[j] >= 1 => NoWriteRow(mem'[j])
             /\ answered'[j] = 3 => NoWriteRow(runtime'[j])
      <3> TAKE j \in Instances \ reopened
      <3>1. CASE j = i
        BY <2>4, <3>1
      <3>2. CASE j # i
        BY <2>0, <2>1, <2>2, <2>3, <3>2 DEF CutOffInv
      <3> QED BY <3>1, <3>2
    <2> QED BY <2>0, <2>1, <2>5 DEF CutOffInv
  <1>6. ASSUME NEW i \in Instances, PrepareOne(i) \/ CommitOne(i) PROVE CutOffInv'
    <2>1. pc # "Blackhole" /\ UNCHANGED <<pc, risk, reopened>> /\ Statement(i)
      BY <1>6 DEF PrepareOne, CommitOne, managerVars, engineVars, historyVars, Statement
    <2>2. \A j \in Instances : CutOff(j) => CutOff(j)'
      BY <2>1, CutOffKept
    <2> QED BY <2>1, <2>2 DEF CutOffInv
  <1>7. CASE Execute \/ Crash
    BY <1>7, <1>b DEF Execute, Crash, historyVars
  <1>8. CASE ContextExpires \/ (Environment /\ UNCHANGED <<proxyVars, engineVars>>)
    BY <1>8, <1>c DEF ContextExpires, Environment, OperatorEnforce, LoseContact, RegainContact,
       proxyVars, historyVars, engineVars
  <1>9. CASE \E i \in Instances : RestartOne(i)
    <2> PICK i \in Instances : RestartOne(i)
      BY <1>9
    <2>1. /\ UNCHANGED <<pc, risk, todo, loopErrs, answered>> /\ Proxy!ProxyRestart(i)
          /\ reopened' \in {reopened, reopened \cup {i}}
      BY DEF RestartOne, Proxy!ProxyRestart, Proxy!loopVars, managerVars, engineVars
    <2>2. \A j \in Instances : CutOff(j) => CutOff(j)'
      BY <2>1, CutOffKept
    <2>3. \A j \in Instances \ {i} : mem'[j] = mem[j] /\ runtime'[j] = runtime[j]
      BY <2>1, OthersKept
    <2>4. pc = "Blackhole" /\ i \notin reopened' => answered[i] = 0
      <3>1. answered[i] \in 0..3
        BY DEF TypeOK, Proxy!ProxyTypeOK
      <3> QED BY <3>1 DEF RestartOne
    <2>5. ASSUME pc = "Blackhole", NEW j \in Instances \ reopened'
          PROVE  /\ loopErrs = {} /\ j \notin todo => CutOff(j)'
                 /\ answered[j] >= 1 => NoWriteRow(mem'[j])
                 /\ answered[j] = 3 => NoWriteRow(runtime'[j])
      <3>1. j \notin reopened
        BY <2>1
      <3>2. CASE j = i
        BY <2>2, <2>4, <2>5, <3>1, <3>2 DEF CutOffInv
      <3>3. CASE j # i
        BY <2>2, <2>3, <2>5, <3>1, <3>3 DEF CutOffInv
      <3> QED BY <3>2, <3>3
    <2> QED BY <2>1, <2>2, <2>5 DEF CutOffInv
  <1>10. CASE UNCHANGED vars
    BY <1>10, <1>c DEF vars, managerVars, proxyVars, historyVars, engineVars
  <1> QED BY <1>1, <1>2, <1>3, <1>4, <1>5, <1>6, <1>7, <1>8, <1>9, <1>10
          DEF Next, EngineStep, World

\* If the ProxySQL fence was the only way taken past the SQL fence, no instance
\* delivers client writes to the old source while any delivers them to the new
\* one, in this attempt or a later one, whichever statements fail or lose their
\* answer and whichever instances restart between any two of them; except an
\* instance that restarted in the middle of its own blackhole visit, which
\* Blackhole cannot tell from one that did not (runBlackholeSteps,
\* ApplyFailoverRouting).
THEOREM OneWritePath == Spec => []SingleWritePath
  <1>1. Init => CutOffInv
    BY DEF Init, ManagerInit, CutOffInv
  <1>2. FenceInv /\ CutOffInv => SingleWritePath
    <2> SUFFICES ASSUME FenceInv, CutOffInv, Local \in writable, Remote \in writable,
                        NEW i \in Instances \ reopened, Proxy!RoutesWritesTo(i, Local),
                        risk \ {"blackhole"} = {}
                 PROVE  FALSE
      BY DEF SingleWritePath
    <2>1. risk # {}
      BY DEF FenceInv, Fenced
    <2>2. "blackhole" \in risk
      BY <2>1
    <2> QED BY <2>2 DEF CutOffInv, CutOff, NoWriteRow, Proxy!RoutesWritesTo
  <1>3. FenceInv => TypeOK
    BY DEF FenceInv
  <1> QED BY <1>1, <1>2, <1>3, FenceInit, FenceStep, CutOffStep, PTL DEF Spec

-----------------------------------------------------------------------------
(***************************************************************************)
(* Success means switched. Each loop leaves its mark on the instances it   *)
(* has visited: the prepare loop on the admin table, the commit loop on    *)
(* the runtime, statement by statement.                                    *)
(***************************************************************************)

\* A table that sends writes to the new source and to it alone.
Switched(t) == <<"rw", Remote>> \in t /\ NoWriteRow(t)

RoutedInv ==
    /\ pc = "Prepare" => \A i \in Instances \ unstaged :
          /\ loopErrs = {} /\ i \notin todo => Switched(mem[i])
          /\ answered[i] >= 1 => NoWriteRow(mem[i])
          /\ answered[i] >= 2 => <<"rw", Remote>> \in mem[i]
    /\ pc = "Commit" => \A i \in Instances \ unstaged :
          /\ Switched(mem[i])
          /\ loopErrs = {} /\ i \notin todo => Switched(runtime[i])
          /\ answered[i] >= 1 => Switched(runtime[i])
    /\ pc \in {"ReverseReplica", "Verify"} => \A i \in Instances \ unstaged : Switched(runtime[i])

\* A statement of the prepare loop does its part of staging the new writer.
LEMMA StagedMade ==
    ASSUME TypeOK, NEW i \in Instances, Proxy!PrepareOk(i),
           answered[i] >= 1 => NoWriteRow(mem[i]),
           answered[i] >= 2 => <<"rw", Remote>> \in mem[i]
    PROVE  /\ i \notin todo' => Switched(mem'[i])
           /\ answered'[i] >= 1 => NoWriteRow(mem'[i])
           /\ answered'[i] >= 2 => <<"rw", Remote>> \in mem'[i]
  <1>t. mem \in [Instances -> SUBSET Proxy!Rows] /\ answered \in [Instances -> 0..3]
        /\ mem[i] \in SUBSET Proxy!Rows
    BY DEF TypeOK, Proxy!ProxyTypeOK
  <1>0. i \in todo /\ Proxy!PrepareStmt(i) /\ Proxy!Answer(i, 3)
    BY DEF Proxy!PrepareOk, Proxy!Visiting
  <1>1. CASE answered[i] = 0
    <2>1. mem'[i] = mem[i] \ {<<"rw", Local>>} /\ answered'[i] = 1 /\ i \in todo'
      BY <1>t, <1>0, <1>1 DEF Proxy!PrepareStmt, Proxy!Dml, Proxy!Answer
    <2> QED BY <2>1 DEF NoWriteRow
  <1>2. CASE answered[i] = 1
    <2>1. mem'[i] = mem[i] \cup {<<"rw", Remote>>} /\ answered'[i] = 2 /\ i \in todo'
      BY <1>t, <1>0, <1>2 DEF Proxy!PrepareStmt, Proxy!Dml, Proxy!Answer
    <2>2. NoWriteRow(mem'[i])
      BY <1>2, <2>1, ManagerAssumption DEF NoWriteRow
    <2> QED BY <2>1, <2>2
  <1>3. CASE answered[i] = 2
    <2>1. mem'[i] = mem[i] \cup {<<"ro", Remote>>} /\ answered'[i] = 0
      BY <1>t, <1>0, <1>3 DEF Proxy!PrepareStmt, Proxy!Dml, Proxy!Answer, Proxy!Leave
    <2>2. NoWriteRow(mem'[i])
      BY <1>3, <2>1 DEF NoWriteRow
    <2> QED BY <1>3, <2>1, <2>2 DEF Switched
  <1> QED BY <1>0, <1>1, <1>2, <1>3 DEF Proxy!PrepareStmt

\* A statement of the commit loop activates what was staged.
LEMMA ActivatedMade ==
    ASSUME TypeOK, NEW i \in Instances, Proxy!CommitOk(i), Switched(mem[i]),
           answered[i] >= 1 => Switched(runtime[i])
    PROVE  Switched(mem'[i]) /\ Switched(runtime'[i])
  <1>t. runtime \in [Instances -> SUBSET Proxy!Rows] /\ answered \in [Instances -> 0..3]
    BY DEF TypeOK, Proxy!ProxyTypeOK
  <1>1. CASE answered[i] = 0 /\ Proxy!Load(i)
    BY <1>t, <1>1 DEF Proxy!Load
  <1>2. CASE answered[i] = 1 /\ Proxy!Save(i)
    BY <1>t, <1>2 DEF Proxy!Save
  <1> QED BY <1>1, <1>2 DEF Proxy!CommitOk, Proxy!CommitStmt

LEMMA RoutedStep == ASSUME TypeOK, RoutedInv, [Next]_vars PROVE RoutedInv'
  <1>t. answered \in [Instances -> 0..3]
    BY DEF TypeOK, Proxy!ProxyTypeOK
  <1>a. ASSUME pc' \notin RoutingPhases PROVE RoutedInv'
    BY <1>a DEF RoutedInv, RoutingPhases
  <1>b. ASSUME UNCHANGED <<mem, runtime, pc, todo, loopErrs, answered, unstaged>> PROVE RoutedInv'
    BY <1>b DEF RoutedInv, Switched, NoWriteRow
  <1>1. CASE CallStep \/ ContextExpires \/ (Environment /\ UNCHANGED <<proxyVars, engineVars>>)
    BY <1>1, <1>b DEF CallStep, ContextExpires, proxyVars, historyVars, engineVars
  <1>2. CASE \/ PreFlightPass \/ PreFlightFail \/ DrainCancelled \/ DrainElapsed \/ FenceApplied
             \/ FenceRefused \/ FenceEscalate \/ BlackholeApplied \/ BlackholeFailed \/ PromoteFailed
             \/ RoutingFailed \/ VerifyOk \/ VerifyFail \/ RollbackPromoteDone \/ RollbackFenceDone
             \/ Execute \/ Crash
    <2>1. pc' \notin RoutingPhases
      BY <1>2 DEF PreFlightPass, PreFlightFail, DrainCancelled, DrainElapsed, FenceApplied,
         FenceRefused, FenceEscalate, BlackholeApplied, BlackholeFailed, PromoteFailed,
         RoutingFailed, VerifyOk, VerifyFail, RollbackPromoteDone, RollbackFenceDone, Execute,
         Crash, GotoPhase, Finish, RoutingPhases
    <2> QED BY <1>a, <2>1
  <1>3. ASSUME NEW i \in Instances, BlackholeOne(i) PROVE RoutedInv'
    BY <1>3, <1>a DEF BlackholeOne, engineVars, RoutingPhases
  <1>4. CASE Promoted
    <2>1. pc' = "Prepare" /\ todo' = Instances /\ \A i \in Instances : answered'[i] = 0
      BY <1>4 DEF Promoted, GotoPhase, Proxy!StartLoop
    <2> QED BY <2>1 DEF RoutedInv
  <1>5. ASSUME NEW i \in Instances, PrepareOne(i) PROVE RoutedInv'
    <2>0. /\ pc = "Prepare" /\ UNCHANGED <<pc, unstaged>> /\ Statement(i)
          /\ Proxy!PrepareOk(i) \/ Proxy!PrepareFail(i)
      BY <1>5 DEF PrepareOne, engineVars, historyVars, Statement
    <2>1. \A j \in Instances \ {i} :
             mem'[j] = mem[j] /\ answered'[j] = answered[j] /\ (j \in todo' <=> j \in todo)
      BY <2>0, OthersKept
    <2>2. loopErrs' = {} => loopErrs = {}
      BY <2>0 DEF Proxy!PrepareOk, Proxy!PrepareFail, Proxy!Answer, Proxy!Leave
    <2>3. ASSUME i \notin unstaged
          PROVE  /\ loopErrs' = {} /\ i \notin todo' => Switched(mem'[i])
                 /\ answered'[i] >= 1 => NoWriteRow(mem'[i])
                 /\ answered'[i] >= 2 => <<"rw", Remote>> \in mem'[i]
      <3>1. CASE Proxy!PrepareOk(i)
        BY <2>0, <2>3, <3>1, StagedMade DEF RoutedInv
      <3>2. CASE Proxy!PrepareFail(i)
        <4>1. loopErrs' # {} /\ answered'[i] = 0
          BY <1>t, <3>2 DEF Proxy!PrepareFail, Proxy!Leave
        <4> QED BY <4>1
      <3> QED BY <2>0, <3>1, <3>2
    <2>4. \A j \in Instances \ unstaged :
             /\ loopErrs' = {} /\ j \notin todo' => Switched(mem'[j])
             /\ answered'[j] >= 1 => NoWriteRow(mem'[j])
             /\ answered'[j] >= 2 => <<"rw", Remote>> \in mem'[j]
      <3> TAKE j \in Instances \ unstaged
      <3>1. CASE j = i
        BY <2>3, <3>1
      <3>2. CASE j # i
        BY <2>0, <2>1, <2>2, <3>2 DEF RoutedInv
      <3> QED BY <3>1, <3>2
    <2> QED BY <2>0, <2>4 DEF RoutedInv
  <1>6. CASE AllPrepared
    <2>1. /\ pc = "Prepare" /\ todo = {} /\ loopErrs = {} /\ pc' = "Commit" /\ todo' = Instances
          /\ UNCHANGED <<mem, unstaged>> /\ \A i \in Instances : answered'[i] = 0
      BY <1>6 DEF AllPrepared, GotoPhase, Proxy!StartLoop, historyVars
    <2> QED BY <2>1 DEF RoutedInv
  <1>7. ASSUME NEW i \in Instances, CommitOne(i) PROVE RoutedInv'
    <2>0. /\ pc = "Commit" /\ UNCHANGED <<pc, unstaged>> /\ Statement(i)
          /\ Proxy!CommitOk(i) \/ Proxy!CommitFail(i)
      BY <1>7 DEF CommitOne, engineVars, historyVars, Statement
    <2>1. \A j \in Instances \ {i} :
             /\ mem'[j] = mem[j] /\ runtime'[j] = runtime[j]
             /\ answered'[j] = answered[j] /\ (j \in todo' <=> j \in todo)
      BY <2>0, OthersKept
    <2>2. loopErrs' = {} => loopErrs = {}
      BY <2>0 DEF Proxy!CommitOk, Proxy!CommitFail, Proxy!Answer, Proxy!Leave
    <2>3. ASSUME i \notin unstaged
          PROVE  /\ Switched(mem'[i])
                 /\ loopErrs' = {} /\ i \notin todo' => Switched(runtime'[i])
                 /\ answered'[i] >= 1 => Switched(runtime'[i])
      <3>0. Switched(mem[i]) /\ (answered[i] >= 1 => Switched(runtime[i]))
        BY <2>0, <2>3 DEF RoutedInv
      <3>1. CASE Proxy!CommitOk(i)
        BY <3>0, <3>1, ActivatedMade
      <3>2. CASE Proxy!CommitFail(i)
        <4>1. loopErrs' # {} /\ answered'[i] = 0 /\ mem' = mem
          BY <1>t, <3>2 DEF Proxy!CommitFail, Proxy!Leave, Proxy!CommitStmt, Proxy!Load,
                            Proxy!Save, Proxy!tableVars
        <4> QED BY <3>0, <4>1
      <3> QED BY <2>0, <3>1, <3>2
    <2>4. \A j \in Instances \ unstaged :
             /\ Switched(mem'[j])
             /\ loopErrs' = {} /\ j \notin todo' => Switched(runtime'[j])
             /\ answered'[j] >= 1 => Switched(runtime'[j])
      <3> TAKE j \in Instances \ unstaged
      <3>1. CASE j = i
        BY <2>3, <3>1
      <3>2. CASE j # i
        BY <2>0, <2>1, <2>2, <3>2 DEF RoutedInv
      <3> QED BY <3>1, <3>2
    <2> QED BY <2>0, <2>4 DEF RoutedInv
  <1>8. CASE AllCommitted \/ ReverseReplica
    <2>1. /\ \/ pc = "Commit" /\ todo = {} /\ loopErrs = {} /\ pc' = "ReverseReplica"
             \/ pc = "ReverseReplica" /\ pc' = "Verify"
          /\ UNCHANGED <<runtime, unstaged>>
      BY <1>8 DEF AllCommitted, ReverseReplica, GotoPhase, proxyVars, historyVars
    <2> QED BY <2>1 DEF RoutedInv
  <1>9. CASE \E i \in Instances : RestartOne(i)
    <2> PICK i \in Instances : RestartOne(i)
      BY <1>9
    <2>1. UNCHANGED <<pc, todo, loopErrs, answered>> /\ Proxy!ProxyRestart(i)
      BY DEF RestartOne, Proxy!ProxyRestart, Proxy!loopVars, engineVars
    <2>2. \A j \in Instances \ {i} : mem'[j] = mem[j] /\ runtime'[j] = runtime[j]
      BY <2>1, OthersKept
    <2>3. CASE pc \notin RoutingPhases
      BY <1>a, <2>1, <2>3
    <2>4. CASE pc \in RoutingPhases
      <3>1. unstaged' = unstaged \cup {i}
        BY <2>4 DEF RestartOne
      <3>2. \A j \in Instances \ unstaged' : j \in Instances \ unstaged /\ j # i
        BY <3>1
      <3> QED BY <2>1, <2>2, <3>2 DEF RoutedInv
    <2> QED BY <2>3, <2>4
  <1>10. CASE UNCHANGED vars
    BY <1>10, <1>b DEF vars, proxyVars, historyVars, engineVars
  <1> QED BY <1>1, <1>2, <1>3, <1>4, <1>5, <1>6, <1>7, <1>8, <1>9, <1>10
          DEF Next, EngineStep, World

\* Execute reports success only when the new source is writable and every
\* instance that has not restarted since its rows were staged sends writes to it
\* and to it alone, for any number of instances and any failures before
\* (phaseRouting, phaseVerify).
THEOREM SuccessIsSwitched == Spec => SuccessMeansSwitched
  <1> DEFINE Reported ==
        result' = "success" /\ result # "success" =>
          /\ Remote \in writable
          /\ \A i \in Instances \ unstaged :
                /\ Proxy!RoutesWritesTo(i, Remote)
                /\ ~Proxy!RoutesWritesTo(i, Local)
  <1>1. RoutedInv /\ [Next]_vars => [Reported]_vars
    <2> SUFFICES ASSUME RoutedInv, Next, result' = "success", result # "success"
                 PROVE  /\ Remote \in writable
                        /\ \A i \in Instances \ unstaged :
                              /\ Proxy!RoutesWritesTo(i, Remote)
                              /\ ~Proxy!RoutesWritesTo(i, Local)
      OBVIOUS
    <2>1. VerifyOk
      <3>1. ~Execute /\ ~CallStep /\ ~ContextExpires /\ ~Crash /\ ~World
        BY DEF Execute, CallStep, ContextExpires, Crash, World, RestartOne, engineVars
      <3>2. EngineStep
        BY <3>1 DEF Next
      <3> QED BY <3>2 DEF EngineStep, PreFlightPass, PreFlightFail, DrainCancelled, DrainElapsed,
             FenceApplied, FenceRefused, FenceEscalate, BlackholeApplied, BlackholeFailed, Promoted,
             PromoteFailed, AllPrepared, AllCommitted, RoutingFailed, ReverseReplica, VerifyFail,
             RollbackPromoteDone, RollbackFenceDone, BlackholeOne, PrepareOne, CommitOne, GotoPhase,
             Finish, engineVars
    <2> QED BY <2>1 DEF VerifyOk, RoutedInv, Switched, NoWriteRow, Proxy!RoutesWritesTo
  <1>2. Init => RoutedInv
    BY DEF Init, RoutedInv
  <1>3. FenceInv => TypeOK
    BY DEF FenceInv
  <1> QED BY <1>1, <1>2, <1>3, FenceInit, FenceStep, RoutedStep, PTL DEF Spec, SuccessMeansSwitched

=============================================================================
