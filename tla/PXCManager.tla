----------------------------- MODULE PXCManager -----------------------------
(***************************************************************************)
(* The direct PXC manager (internal/pxc/manager.go) and the two MySQL      *)
(* clusters it drives.                                                     *)
(*                                                                         *)
(* The switchover engine is sequential, so at most one call is in progress *)
(* and one frame describes it: step says which statement of the call is    *)
(* next, on names the cluster, op the operation called: a SetReadWrite in  *)
(* a read-only step is taking back a promotion whose write probe failed.   *)
(*                                                                         *)
(* Every SQL or Kubernetes call may fail, and may fail after its effect    *)
(* took place: the answer was lost or the deadline passed meanwhile.       *)
(***************************************************************************)
EXTENDS Naturals

CONSTANTS
    Local,              \* the cluster of this controller: the source before the flip
    Remote,             \* the other cluster: promoted by the flip
    KubeAPI,            \* the clusters whose manager holds a Kubernetes client
    CRDApplyRetries     \* spec.switchover.crdApplyRetries; 0 selects SQL-first mode

Clusters == {Local, Remote}

\* buildComponents always gives the local manager a client, the remote one
\* only under spec.remoteKubeAPI.
ASSUME ManagerAssumption ==
    /\ Local # Remote
    /\ KubeAPI \subseteq Clusters
    /\ Local \in KubeAPI
    /\ CRDApplyRetries \in Nat

VARIABLES
    writable,       \* the clusters with @@read_only = OFF
    isSource,       \* the clusters whose PXC CRD has isSource = true on the channel
    reachable,      \* the clusters whose MySQL answers this controller
    ctx,            \* the context of the attempt: "live" or "done"
    step, on, op, tries, ret,     \* the frame of the call in progress
    risk            \* history: the known ways past the fence taken so far

clusterVars == <<writable, isSource, reachable>>
callVars == <<step, on, op, tries, ret>>
managerVars == <<writable, isSource, reachable, ctx, step, on, op, tries, ret, risk>>

ReadOnlySteps == {"roCRD", "roSQL", "roSync"}
ReadWriteSteps == {"rwCRD", "rwSQL", "rwVerify", "rwSync"}
Steps == {"none"} \cup ReadOnlySteps \cup ReadWriteSteps

Risks == {"crdOnly", "operator", "leftWritable", "blackhole"}

CRDFirst(c) == c \in KubeAPI /\ CRDApplyRetries > 0

ManagerInit ==
    /\ writable = {Local}
    /\ isSource = {Local}
    /\ reachable = Clusters
    /\ ctx = "live"
    /\ step = "none" /\ on = Local /\ op = "readOnly" /\ tries = 0 /\ ret = "none"
    /\ risk = {}

ManagerTypeOK ==
    /\ writable \subseteq Clusters
    /\ isSource \subseteq Clusters
    /\ reachable \subseteq Clusters
    /\ ctx \in {"live", "done"}
    /\ step \in Steps
    /\ on \in Clusters
    /\ tries \in 0..CRDApplyRetries
    /\ step \in {"roCRD", "rwCRD"} => tries < CRDApplyRetries
    /\ op \in {"readOnly", "readWrite"}
    /\ ret \in {"none", "ok", "err"}
    /\ risk \subseteq Risks

-----------------------------------------------------------------------------
(***************************************************************************)
(* Calls and returns.                                                      *)
(***************************************************************************)

\* Entry of SetReadOnly and SetReadWrite: CRD-first mode or straight to SQL.
CallSetReadOnly(c) ==
    /\ step' = IF CRDFirst(c) THEN "roCRD" ELSE "roSQL"
    /\ on' = c /\ op' = "readOnly" /\ tries' = 0 /\ ret' = "none"

CallSetReadWrite(c) ==
    /\ step' = IF CRDFirst(c) THEN "rwCRD" ELSE "rwSQL"
    /\ on' = c /\ op' = "readWrite" /\ tries' = 0 /\ ret' = "none"

\* A SetReadOnly that undoes a promotion reports the failed promotion whatever
\* its own outcome is.
Undoing == op = "readWrite" /\ step \in ReadOnlySteps

Return(r) ==
    /\ step' = "none"
    /\ ret' = IF Undoing THEN "err" ELSE r
    /\ UNCHANGED <<on, op, tries>>

Goto(s) == step' = s /\ UNCHANGED <<on, op, tries, ret>>

\* A statement can only succeed on a reachable cluster before the deadline.
Answers == on \in reachable /\ ctx = "live"

-----------------------------------------------------------------------------
(***************************************************************************)
(* SetReadOnly.                                                            *)
(***************************************************************************)

\* patchIsSource(false) in CRD-first mode. It is verified on the CRD alone:
\* success says nothing of @@read_only, which the operator sets later.
ReadOnlyCRDOk ==
    /\ step = "roCRD" /\ ctx = "live"
    /\ isSource' = isSource \ {on}
    /\ Return("ok")
    /\ risk' = risk \cup {"crdOnly"}
    /\ UNCHANGED <<writable, reachable, ctx>>

\* Slip: the attempt counter of the retry loop is not advanced.
ReadOnlyCRDFailNoCount ==
    /\ step = "roCRD"
    /\ isSource' = isSource \ {on} \/ UNCHANGED isSource
    /\ step' = IF tries + 1 < CRDApplyRetries THEN "roCRD" ELSE "roSQL"
    /\ UNCHANGED <<writable, reachable, ctx, on, op, tries, ret, risk>>

\* A failed attempt may have patched the CRD (the verification failed).
ReadOnlyCRDFail ==
    /\ step = "roCRD"
    /\ isSource' = isSource \ {on} \/ UNCHANGED isSource
    /\ tries' = tries + 1
    /\ step' = IF tries + 1 < CRDApplyRetries THEN "roCRD" ELSE "roSQL"
    /\ UNCHANGED <<writable, reachable, ctx, on, op, ret, risk>>

\* execReadOnly(true); in SQL-first mode the CRD is synchronised afterwards.
ReadOnlySQLOk ==
    /\ step = "roSQL" /\ Answers
    /\ writable' = writable \ {on}
    /\ IF on \in KubeAPI /\ CRDApplyRetries = 0 THEN Goto("roSync") ELSE Return("ok")
    /\ UNCHANGED <<isSource, reachable, ctx, risk>>

ReadOnlySQLFail ==
    /\ step = "roSQL"
    /\ (on \in reachable /\ writable' = writable \ {on}) \/ UNCHANGED writable
    /\ Return("err")
    /\ UNCHANGED <<isSource, reachable, ctx, risk>>

\* Best-effort patchIsSource(false): its error is only logged.
ReadOnlySync ==
    /\ step = "roSync"
    /\ isSource' = isSource \ {on} \/ UNCHANGED isSource
    /\ Return("ok")
    /\ UNCHANGED <<writable, reachable, ctx, risk>>

-----------------------------------------------------------------------------
(***************************************************************************)
(* SetReadWrite.                                                           *)
(***************************************************************************)

ReadWriteCRDOk ==
    /\ step = "rwCRD" /\ ctx = "live"
    /\ isSource' = isSource \cup {on}
    /\ Return("ok")
    /\ UNCHANGED <<writable, reachable, ctx, risk>>

ReadWriteCRDFail ==
    /\ step = "rwCRD"
    /\ isSource' = isSource \cup {on} \/ UNCHANGED isSource
    /\ tries' = tries + 1
    /\ step' = IF tries + 1 < CRDApplyRetries THEN "rwCRD" ELSE "rwSQL"
    /\ UNCHANGED <<writable, reachable, ctx, on, op, ret, risk>>

\* wsrep check and the two SET GLOBAL statements.
ReadWriteSQLOk ==
    /\ step = "rwSQL" /\ Answers
    /\ writable' = writable \cup {on}
    /\ Goto("rwVerify")
    /\ UNCHANGED <<isSource, reachable, ctx, risk>>

ReadWriteSQLFail ==
    /\ step = "rwSQL"
    /\ (on \in reachable /\ writable' = writable \cup {on}) \/ UNCHANGED writable
    /\ Return("err")
    /\ UNCHANGED <<isSource, reachable, ctx, risk>>

\* The write probe, then (errors logged) STOP REPLICA and RESET REPLICA ALL.
ReadWriteVerifyOk ==
    /\ step = "rwVerify" /\ Answers /\ on \in writable
    /\ IF on \in KubeAPI /\ CRDApplyRetries = 0 THEN Goto("rwSync") ELSE Return("ok")
    /\ UNCHANGED <<clusterVars, ctx, risk>>

\* The probe failed: SetReadOnly on the same cluster, its result dropped.
ReadWriteVerifyFail ==
    /\ step = "rwVerify"
    /\ step' = IF CRDFirst(on) THEN "roCRD" ELSE "roSQL"
    /\ tries' = 0
    /\ UNCHANGED <<clusterVars, ctx, on, op, ret, risk>>

ReadWriteSync ==
    /\ step = "rwSync"
    /\ isSource' = isSource \cup {on} \/ UNCHANGED isSource
    /\ Return("ok")
    /\ UNCHANGED <<writable, reachable, ctx, risk>>

ManagerStep ==
    \/ ReadOnlyCRDOk \/ ReadOnlyCRDFail
    \/ ReadOnlySQLOk \/ ReadOnlySQLFail \/ ReadOnlySync
    \/ ReadWriteCRDOk \/ ReadWriteCRDFail
    \/ ReadWriteSQLOk \/ ReadWriteSQLFail
    \/ ReadWriteVerifyOk \/ ReadWriteVerifyFail \/ ReadWriteSync

-----------------------------------------------------------------------------
(***************************************************************************)
(* The environment: the PXC operator, the network and the clock.           *)
(***************************************************************************)

\* The operator enforces the CRD's isSource on MySQL, at a time of its own. A
\* cluster it makes writable is writable by no statement of the controller.
OperatorEnforce(c) ==
    /\ \/ /\ c \in isSource \ writable
          /\ writable' = writable \cup {c}
          /\ risk' = risk \cup {"operator"}
       \/ /\ c \in writable \ isSource
          /\ writable' = writable \ {c}
          /\ UNCHANGED risk
    /\ UNCHANGED <<isSource, reachable, ctx, callVars>>

LoseContact(c) ==
    /\ c \in reachable
    /\ reachable' = reachable \ {c}
    /\ UNCHANGED <<writable, isSource, ctx, callVars, risk>>

RegainContact(c) ==
    /\ c \notin reachable
    /\ reachable' = reachable \cup {c}
    /\ UNCHANGED <<writable, isSource, ctx, callVars, risk>>

Environment ==
    \E c \in Clusters : OperatorEnforce(c) \/ LoseContact(c) \/ RegainContact(c)

=============================================================================
