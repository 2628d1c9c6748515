------------------------------ MODULE PreFlight ------------------------------
(***************************************************************************)
(* What the flip does to the data: the GTID sets of the two clusters,      *)
(* replication between them, the checks of PreFlight.Run (preflight.go)    *)
(* with the queries behind them (gtid.go), the lag measurement of every    *)
(* Reconcile (replication_metrics.go), and the phases of the engine that   *)
(* stop and start writes.                                                  *)
(*                                                                         *)
(* A transaction is <<cluster, n>>, the n-th one that committed there. A   *)
(* cluster that has executed its GTID has its rows, unless it was skipped: *)
(* replaced by an empty transaction of the same GTID.                      *)
(* Clients, replication and binlog expiry go on between any two checks.    *)
(* Any query may fail, for a lost connection or an expired context.        *)
(***************************************************************************)
EXTENDS Integers, FiniteSets

CONSTANTS
    Local, Remote,      \* the source and the replica this controller promotes
    MaxTxns,            \* bound: transactions of the clients
    MaxAttempts         \* bound: how many times Execute runs

ASSUME PreFlightAssumption ==
    /\ Local # Remote
    /\ MaxTxns \in Nat \ {0} /\ MaxAttempts \in Nat

VARIABLES
    executed,       \* gtid_executed of each cluster
    purged,         \* gtid_purged of each cluster
    skipped,        \* history: the GTIDs Remote executed as empty transactions
    channel,        \* the channel on Remote: "running", "stopped" or "absent"
    accepting,      \* whether clients can commit on Local
    promoted,       \* whether Remote has read_only = OFF
    allowLoss,      \* spec.switchover.allowDataLossFailover
    pc, attempts,
    ok,             \* no hard check has failed so far
    snap,           \* the local GTID set read last
    localErr, remoteErr, rpurged,   \* the outcome of the two snapshots
    lag             \* the missing transactions last reported, -1 before

dataVars == <<executed, purged, skipped, channel>>
worldVars == <<dataVars, accepting, promoted, allowLoss>>
checkVars == <<ok, snap, localErr, remoteErr, rpurged>>
vars == <<worldVars, pc, attempts, checkVars, lag>>

Clusters == {Local, Remote}
Txns == (Clusters \X (1..MaxTxns))

Phases == {"Idle", "Lag", "C1", "C3", "Local", "Remote", "C5", "Wait", "Recheck",
           "C10", "C7", "C12", "Drain", "Promote", "StopReplica", "Routing", "Done"}

Init ==
    /\ executed = [c \in Clusters |-> {}] /\ purged = [c \in Clusters |-> {}]
    /\ skipped = {}
    /\ channel = "running"
    /\ accepting = TRUE /\ promoted = FALSE
    /\ allowLoss \in BOOLEAN
    /\ pc = "Idle" /\ attempts = 0
    /\ ok = TRUE /\ snap = {} /\ localErr = FALSE /\ remoteErr = FALSE /\ rpurged = {}
    /\ lag = -1

\* A run of PreFlight begins, or its findings are gone with it.
NoFindings ==
    /\ ok' = TRUE /\ snap' = {}
    /\ localErr' = FALSE /\ remoteErr' = FALSE /\ rpurged' = {}

-----------------------------------------------------------------------------
(***************************************************************************)
(* The clusters.                                                           *)
(***************************************************************************)

Missing == executed[Local] \ executed[Remote]

ClientWrite ==
    LET n == Cardinality(executed[Local]) + 1 IN
    /\ accepting /\ n <= MaxTxns
    /\ executed' = [executed EXCEPT ![Local] = @ \cup {<<Local, n>>}]
    /\ UNCHANGED <<purged, skipped, channel>>

\* The workers of the applier may commit out of order. A transaction whose
\* binlog the source has purged cannot be fetched.
Replicate ==
    /\ channel = "running"
    /\ \E t \in Missing \ purged[Local] :
          executed' = [executed EXCEPT ![Remote] = @ \cup {t}]
    /\ UNCHANGED <<purged, skipped, channel>>

\* The applier fails on its next transaction, or a thread stops.
ChannelStops ==
    /\ channel = "running" /\ channel' = "stopped"
    /\ UNCHANGED <<executed, purged, skipped>>

\* The controller beside Remote replaces the failing transaction by an empty
\* one of the same GTID and starts the applier again: the rows are dropped.
SkipTransaction ==
    /\ channel = "stopped"
    /\ \E t \in Missing :
          /\ executed' = [executed EXCEPT ![Remote] = @ \cup {t}]
          /\ skipped' = skipped \cup {t}
    /\ channel' = "running"
    /\ UNCHANGED purged

\* Repaired by hand, or configured again by the PXC operator after a rollback.
ChannelStarts ==
    /\ channel # "running" /\ ~promoted /\ channel' = "running"
    /\ UNCHANGED <<executed, purged, skipped>>

\* A transaction of the replica's own, committed past its read_only.
ErrantWrite ==
    /\ ~promoted /\ executed' = [executed EXCEPT ![Remote] = @ \cup {<<Remote, 1>>}]
    /\ UNCHANGED <<purged, skipped, channel>>

ExpireBinlogs(c) ==
    /\ purged' = [purged EXCEPT ![c] = executed[c]]
    /\ UNCHANGED <<executed, skipped, channel>>

World ==
    /\ \/ ClientWrite \/ Replicate \/ ChannelStops \/ ChannelStarts
       \/ SkipTransaction \/ ErrantWrite
       \/ \E c \in Clusters : ExpireBinlogs(c)
    /\ UNCHANGED <<accepting, promoted, allowLoss, pc, attempts, checkVars, lag>>

-----------------------------------------------------------------------------
(***************************************************************************)
(* observeGTIDLag: two queries, one after the other.                       *)
(***************************************************************************)

\* MySQL prints a GTID set as maximal intervals per source; a single number
\* stands for an interval of one.
Intervals(s, c) ==
    {iv \in (1..MaxTxns) \X (1..MaxTxns) :
        /\ iv[1] <= iv[2] /\ \A n \in iv[1]..iv[2] : <<c, n>> \in s
        /\ <<c, iv[1] - 1>> \notin s /\ <<c, iv[2] + 1>> \notin s}

\* Slip: the last transaction of a range is not counted.
RangeLengthWithoutLast(iv) == iv[2] - iv[1]

\* Slip: both ends of a range are counted once too often.
RangeLengthEndsTwice(iv) == iv[2] - iv[1] + 2

\* What one interval adds to the total.
RangeLength(iv) == IF iv[1] = iv[2] THEN 1 ELSE iv[2] - iv[1] + 1

\* The total over the intervals of one source, as a set of that size.
Counted(s, c) == UNION {{iv} \X (1..RangeLength(iv)) : iv \in Intervals(s, c)}

CountGTIDTransactions(s) ==
    Cardinality(Counted(s, Local)) + Cardinality(Counted(s, Remote))

MeasureLocal ==
    /\ pc = "Idle"
    /\ pc' = "Lag" /\ snap' = executed[Local] /\ lag' = -1
    /\ UNCHANGED <<worldVars, attempts, ok, localErr, remoteErr, rpurged>>

\* A failed second query keeps what was reported before; the model forgets it.
MeasureRemote ==
    /\ pc = "Lag"
    /\ pc' = "Idle"
    /\ \/ lag' = CountGTIDTransactions(snap \ executed[Remote])
       \/ UNCHANGED lag
    /\ UNCHANGED <<worldVars, attempts, checkVars>>

-----------------------------------------------------------------------------
(***************************************************************************)
(* PreFlight.Run. Every check runs, whatever the earlier ones found.       *)
(***************************************************************************)

Execute ==
    /\ pc = "Idle" /\ attempts < MaxAttempts
    /\ pc' = "C1" /\ attempts' = attempts + 1
    /\ NoFindings /\ lag' = -1
    /\ UNCHANGED worldVars

Check(p, next) == pc = p /\ pc' = next /\ UNCHANGED <<worldVars, attempts, lag>>

\* A hard check passes only if its query is answered and b holds.
Hard(b) == \E answered \in BOOLEAN : ok' = (ok /\ answered /\ b)

checkRemoteReachableReadOnly ==
    /\ Check("C1", "C3") /\ Hard(~promoted)
    /\ UNCHANGED <<snap, localErr, remoteErr, rpurged>>

\* A channel that does not exist is accepted, and one that is stopped if the
\* loss of data is.
checkRemoteReplicationRunning ==
    /\ Check("C3", "Local") /\ Hard(channel # "stopped" \/ allowLoss)
    /\ UNCHANGED <<snap, localErr, remoteErr, rpurged>>

LocalSnapshot ==
    /\ Check("Local", "Remote")
    /\ \/ snap' = executed[Local] /\ localErr' = FALSE
       \/ snap' = {} /\ localErr' = TRUE
    /\ UNCHANGED <<ok, remoteErr, rpurged>>

RemoteSnapshot ==
    /\ Check("Remote", "C5")
    /\ \/ rpurged' = purged[Remote] /\ remoteErr' = FALSE
       \/ rpurged' = {} /\ remoteErr' = TRUE
    /\ UNCHANGED <<ok, snap, localErr>>

CaughtUp == snap \subseteq executed[Remote]

\* C5, and the outcome of C6 when there is nothing to wait for or on.
checkSubset ==
    /\ pc = "C5" /\ (localErr \/ remoteErr \/ CaughtUp)
    /\ Check("C5", "C10")
    /\ ok' = (ok /\ IF localErr THEN allowLoss ELSE ~remoteErr)
    /\ UNCHANGED <<snap, localErr, remoteErr, rpurged>>

\* Transactions are missing, or the query failed: C6 waits for the snapshot.
startWait ==
    /\ Check("C5", "Wait") /\ ~localErr /\ ~remoteErr /\ snap # {}
    /\ UNCHANGED checkVars

\* Slip: the result code of the wait is not looked at.
WaitForGTIDAnyResult ==
    /\ Check("Wait", "Recheck")
    /\ UNCHANGED checkVars

WaitForGTID ==
    /\ Check("Wait", "Recheck") /\ CaughtUp
    /\ UNCHANGED checkVars

WaitForGTIDFails ==
    /\ Check("Wait", "C10") /\ ok' = FALSE
    /\ UNCHANGED <<snap, localErr, remoteErr, rpurged>>

\* The second subset query; its error is dropped and then reads as "nothing
\* missing".
recheckSubset ==
    /\ Check("Recheck", "C10")
    /\ \E answered \in BOOLEAN : ok' = (ok /\ (answered => CaughtUp))
    /\ UNCHANGED <<snap, localErr, remoteErr, rpurged>>

\* C10: the former source must be able to fetch all it lacks from Remote.
checkPurged ==
    /\ Check("C10", "C7")
    /\ \E answered \in BOOLEAN :
          ok' = (ok /\ IF localErr THEN allowLoss
                       ELSE ~remoteErr /\ (rpurged = {} \/ (answered /\ rpurged \subseteq executed[Local])))
    /\ UNCHANGED <<snap, localErr, remoteErr, rpurged>>

\* C7, C9 and C8 read a setting of the replica each; C11 is soft.
checkSettings ==
    /\ Check("C7", "C12") /\ Hard(TRUE)
    /\ UNCHANGED <<snap, localErr, remoteErr, rpurged>>

\* C12 asks whether this controller has quarantined Local, and ends the run.
checkReplicaNotQuarantined ==
    \/ Check("C12", "Drain") /\ ok /\ UNCHANGED checkVars
    \/ Check("C12", "Idle") /\ NoFindings

-----------------------------------------------------------------------------
(***************************************************************************)
(* The phases that stop and start writes.                                  *)
(***************************************************************************)

Phase(p, next) == pc = p /\ pc' = next /\ UNCHANGED <<dataVars, allowLoss, attempts, checkVars, lag>>

\* The phase failed and Execute returns.
GiveUp(p) == pc = p /\ pc' = "Idle" /\ NoFindings /\ UNCHANGED <<dataVars, allowLoss, attempts, lag>>

\* SetReadOnly, or the blackhole when Local does not answer, has returned
\* without an error. Clients may still commit on Local: a CRD-first SetReadOnly
\* leaves read_only to the PXC operator, and the blackhole stops only those that
\* come through ProxySQL.
FenceApplied ==
    /\ Phase("Drain", "Promote")
    /\ accepting' \in {FALSE, accepting}
    /\ UNCHANGED promoted

\* The operator makes Local read-only, or its last direct client is gone.
FenceTakesHold ==
    /\ pc \in {"Promote", "StopReplica", "Routing", "Done"} /\ accepting
    /\ accepting' = FALSE
    /\ UNCHANGED <<dataVars, promoted, allowLoss, pc, attempts, checkVars, lag>>

\* The drain is cancelled or the fence returns an error; what a call did before
\* its answer was lost is not undone.
FenceRefused ==
    /\ GiveUp("Drain")
    /\ accepting' = FALSE \/ UNCHANGED accepting
    /\ UNCHANGED promoted

Promoted == Phase("Promote", "StopReplica") /\ promoted' = TRUE /\ UNCHANGED accepting

\* The failed call may have enabled writes all the same; rollback restores
\* Local, if that call succeeds.
PromoteFailed ==
    /\ GiveUp("Promote")
    /\ promoted' \in BOOLEAN /\ accepting' \in BOOLEAN

\* STOP REPLICA and RESET REPLICA ALL; an error is only logged.
StopReplica ==
    /\ pc = "StopReplica" /\ pc' = "Routing"
    /\ channel' \in {"absent", channel}
    /\ UNCHANGED <<executed, purged, skipped, accepting, promoted, allowLoss, attempts,
                   checkVars, lag>>

RoutingApplied == Phase("Routing", "Done") /\ UNCHANGED <<accepting, promoted>>

\* Rollback demotes Remote and restores Local, each as far as its call succeeds.
RoutingFailed ==
    /\ GiveUp("Routing")
    /\ promoted' \in BOOLEAN /\ accepting' \in BOOLEAN

\* The controller stops between two steps and leaves everything as it is.
Crash ==
    /\ pc \notin {"Idle", "Done"} /\ pc' = "Idle" /\ NoFindings
    /\ UNCHANGED <<worldVars, attempts, lag>>

Next ==
    \/ World
    \/ MeasureLocal \/ MeasureRemote
    \/ Execute
    \/ checkRemoteReachableReadOnly \/ checkRemoteReplicationRunning
    \/ LocalSnapshot \/ RemoteSnapshot
    \/ checkSubset \/ startWait \/ WaitForGTID \/ WaitForGTIDFails \/ recheckSubset
    \/ checkPurged \/ checkSettings \/ checkReplicaNotQuarantined
    \/ FenceApplied \/ FenceRefused \/ FenceTakesHold \/ Promoted \/ PromoteFailed
    \/ StopReplica \/ RoutingApplied \/ RoutingFailed
    \/ Crash

Spec == Init /\ [][Next]_vars

-----------------------------------------------------------------------------
(***************************************************************************)
(* Properties.                                                             *)
(***************************************************************************)

\* Every variable keeps its type, and a reported gap is never larger than what
\* the clients have written (CountGTIDTransactions).
TypeOK ==
    /\ executed \in [Clusters -> SUBSET Txns]
    /\ purged \in [Clusters -> SUBSET Txns]
    /\ skipped \subseteq Txns
    /\ channel \in {"running", "stopped", "absent"}
    /\ {accepting, promoted, allowLoss, ok, localErr, remoteErr} \subseteq BOOLEAN
    /\ pc \in Phases
    /\ attempts \in 0..MaxAttempts
    /\ snap \subseteq Txns /\ rpurged \subseteq Txns
    /\ lag \in -1..MaxTxns

\* Remote has been promoted and the attempt has not been given up.
Flipped == pc \in {"StopReplica", "Routing", "Done"}

\* The local transactions whose rows are not on Remote.
LostRows == executed[Local] \ (executed[Remote] \ skipped)

\* A flip loses rows only of transactions that PreFlight could not see or that
\* were given up before: of what the local cluster had executed when C5 read it,
\* the promoted one lacks only the rows that a skip has dropped there, before
\* or during PreFlight, which compares GTIDs. What commits after that read may
\* be lost, also after a fence that returned before it took hold. Without the
\* read the operator has accepted the loss (gtidChecks, phaseFence,
\* phasePromote).
LossAccountedFor ==
    Flipped => IF localErr THEN allowLoss ELSE LostRows \cap snap \subseteq skipped

\* A reported gap of zero is a promise: the replica has applied or skipped, for
\* good, every transaction the source had executed when the measurement began
\* (observeGTIDLag, CountGTIDTransactions).
NoGapMeansCaughtUp == lag = 0 => snap \subseteq executed[Remote]

=============================================================================
