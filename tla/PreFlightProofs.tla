--------------------------- MODULE PreFlightProofs ---------------------------
(***************************************************************************)
(* Proofs about PreFlight, for any number of transactions and attempts.    *)
(*                                                                         *)
(* LossAccountedFor is not inductive: it speaks of the promoted cluster,   *)
(* and what makes it true was found out several checks earlier, while      *)
(* clients, replication, skips and binlog expiry went on. DataInv carries  *)
(* the finding of C5 and C6 to the end of the run and through the phases.  *)
(* It stays true because an executed set never shrinks.                    *)
(***************************************************************************)
EXTENDS PreFlight, FiniteSetTheorems, FunctionTheorems, TLAPS

\* What C5 and C6 have established when no hard check has failed: Remote has
\* applied or skipped everything in the snapshot.
Seen == IF localErr THEN allowLoss ELSE snap \subseteq executed[Remote]

DataTypes ==
    /\ executed = [c \in Clusters |-> executed[c]]
    /\ ok \in BOOLEAN /\ localErr \in BOOLEAN /\ remoteErr \in BOOLEAN
    /\ allowLoss \in BOOLEAN

Established ==
    /\ pc \in {"Wait", "Recheck"} => ~localErr
    /\ pc = "Recheck" => Seen
    /\ pc \in {"C10", "C7", "C12"} /\ ok => Seen
    /\ pc \in {"Drain", "Promote", "StopReplica", "Routing", "Done"} => Seen

DataInv == DataTypes /\ Established

LEMMA DataInit == Init => DataInv
  BY DEF Init, DataInv, DataTypes, Established

\* Clients, replication, the other controller and expiry only add transactions.
LEMMA ExecutedGrows ==
    ASSUME DataTypes, World
    PROVE  /\ executed' = [c \in Clusters |-> executed'[c]]
           /\ executed[Local] \subseteq executed'[Local]
           /\ executed[Remote] \subseteq executed'[Remote]
  <1>1. Local \in Clusters /\ Remote \in Clusters
    BY DEF Clusters
  <1>2. ASSUME NEW c \in Clusters, NEW t, executed' = [executed EXCEPT ![c] = @ \cup {t}]
        PROVE  /\ executed' = [d \in Clusters |-> executed'[d]]
               /\ executed[Local] \subseteq executed'[Local]
               /\ executed[Remote] \subseteq executed'[Remote]
    BY <1>1, <1>2 DEF DataTypes
  <1>3. CASE ClientWrite
    BY <1>1, <1>2, <1>3 DEF ClientWrite
  <1>4. CASE Replicate \/ SkipTransaction
    BY <1>1, <1>2, <1>4 DEF Replicate, SkipTransaction
  <1>5. CASE ErrantWrite
    BY <1>1, <1>2, <1>5 DEF ErrantWrite
  <1>6. CASE ChannelStops \/ ChannelStarts \/ \E c \in Clusters : ExpireBinlogs(c)
    BY <1>6 DEF ChannelStops, ChannelStarts, ExpireBinlogs, DataTypes
  <1> QED BY <1>3, <1>4, <1>5, <1>6 DEF World

LEMMA DataWorld == ASSUME DataInv, World PROVE DataInv'
  <1>1. UNCHANGED <<allowLoss, pc, ok, snap, localErr, remoteErr, rpurged>>
    BY DEF World, checkVars
  <1>2. /\ executed' = [c \in Clusters |-> executed'[c]]
        /\ executed[Local] \subseteq executed'[Local]
        /\ executed[Remote] \subseteq executed'[Remote]
    BY ExecutedGrows DEF DataInv
  <1>3. DataTypes'
    BY <1>1, <1>2 DEF DataInv, DataTypes, Clusters
  <1>4. Seen => Seen'
    BY <1>1, <1>2 DEF Seen
  <1> QED BY <1>1, <1>3, <1>4 DEF DataInv, Established

\* Outside an attempt nothing is claimed.
LEMMA DataGivenUp ==
    ASSUME DataInv, pc' = "Idle", NoFindings, UNCHANGED <<executed, allowLoss>>
    PROVE  DataInv'
  BY DEF DataInv, DataTypes, Established, NoFindings, Clusters

\* A step from one phase after the checks to another.
LEMMA DataPassedOn ==
    ASSUME DataInv, UNCHANGED <<executed, allowLoss, ok, snap, localErr, remoteErr, rpurged>>,
           pc \in {"Drain", "Promote", "StopReplica", "Routing", "Done"} \/ (pc = "C12" /\ ok),
           pc' \in {"Drain", "Promote", "StopReplica", "Routing", "Done"}
    PROVE  DataInv'
  BY DEF DataInv, DataTypes, Established, Seen, Clusters

\* Every check records what it found about the sets as they are at that moment.
LEMMA DataChecks ==
    ASSUME DataInv,
           \/ checkRemoteReachableReadOnly \/ checkRemoteReplicationRunning
           \/ LocalSnapshot \/ RemoteSnapshot
           \/ checkSubset \/ startWait \/ WaitForGTID \/ WaitForGTIDFails \/ recheckSubset
           \/ checkPurged \/ checkSettings \/ checkReplicaNotQuarantined
    PROVE  DataInv'
  <1> USE DEF DataInv, DataTypes, Established, Seen, Check, Hard, CaughtUp,
              worldVars, dataVars, checkVars, Clusters
  <1>1. CASE checkRemoteReachableReadOnly BY <1>1 DEF checkRemoteReachableReadOnly
  <1>2. CASE checkRemoteReplicationRunning BY <1>2 DEF checkRemoteReplicationRunning
  <1>3. CASE LocalSnapshot BY <1>3 DEF LocalSnapshot
  <1>4. CASE RemoteSnapshot BY <1>4 DEF RemoteSnapshot
  <1>5. CASE checkSubset BY <1>5 DEF checkSubset
  <1>6. CASE startWait BY <1>6 DEF startWait
  <1>7. CASE WaitForGTID BY <1>7 DEF WaitForGTID
  <1>8. CASE WaitForGTIDFails BY <1>8 DEF WaitForGTIDFails
  <1>9. CASE recheckSubset BY <1>9 DEF recheckSubset
  <1>10. CASE checkPurged BY <1>10 DEF checkPurged
  <1>11. CASE checkSettings BY <1>11 DEF checkSettings
  <1>12. CASE checkReplicaNotQuarantined
    <2>1. CASE Check("C12", "Drain") /\ ok /\ UNCHANGED checkVars
      BY <2>1, DataPassedOn
    <2>2. CASE Check("C12", "Idle") /\ NoFindings
      BY <2>2, DataGivenUp
    <2> QED BY <1>12, <2>1, <2>2 DEF checkReplicaNotQuarantined
  <1> QED BY <1>1, <1>2, <1>3, <1>4, <1>5, <1>6, <1>7, <1>8, <1>9, <1>10, <1>11, <1>12

\* The phases and the measurement change no executed set, and a new snapshot
\* is taken only outside an attempt.
LEMMA DataPhases ==
    ASSUME DataInv,
           \/ MeasureLocal \/ MeasureRemote \/ Execute \/ Crash
           \/ FenceApplied \/ FenceRefused \/ FenceTakesHold \/ Promoted \/ PromoteFailed
           \/ StopReplica \/ RoutingApplied \/ RoutingFailed
    PROVE  DataInv'
  <1>1. CASE MeasureLocal \/ MeasureRemote \/ Execute
    BY <1>1 DEF MeasureLocal, MeasureRemote, Execute, NoFindings, DataInv, DataTypes,
           Established, Seen, worldVars, dataVars, checkVars, Clusters
  <1>2. CASE FenceApplied \/ FenceTakesHold \/ Promoted \/ StopReplica \/ RoutingApplied
    <2>1. /\ UNCHANGED <<executed, allowLoss, ok, snap, localErr, remoteErr, rpurged>>
          /\ pc \in {"Drain", "Promote", "StopReplica", "Routing", "Done"}
          /\ pc' \in {"Drain", "Promote", "StopReplica", "Routing", "Done"}
      BY <1>2 DEF FenceApplied, FenceTakesHold, Promoted, StopReplica, RoutingApplied, Phase,
             dataVars, checkVars
    <2> QED BY <2>1, DataPassedOn
  <1>3. CASE FenceRefused \/ PromoteFailed \/ RoutingFailed \/ Crash
    <2>1. pc' = "Idle" /\ NoFindings /\ UNCHANGED <<executed, allowLoss>>
      BY <1>3 DEF FenceRefused, PromoteFailed, RoutingFailed, Crash, GiveUp, worldVars, dataVars
    <2> QED BY <2>1, DataGivenUp
  <1> QED BY <1>1, <1>2, <1>3

LEMMA DataStep == ASSUME DataInv, [Next]_vars PROVE DataInv'
  <1>1. CASE UNCHANGED vars
    BY <1>1 DEF DataInv, DataTypes, Established, Seen, vars, worldVars,
           dataVars, checkVars, Clusters
  <1> QED BY <1>1, DataWorld, DataChecks, DataPhases DEF Next

\* Whatever the clients write and however replication, skips, expiry, failed
\* queries, a late fence and controller stops interleave with the checks: of the
\* transactions C5 read on the local cluster, a flip loses the rows only of
\* those that were skipped on the promoted one, unless C5 could not read and the
\* operator has accepted the loss (gtidChecks, phaseFence, phasePromote).
THEOREM FlipLossAccountedFor == Spec => []LossAccountedFor
  <1>1. DataInv => LossAccountedFor
    BY DEF DataInv, Established, Seen, LossAccountedFor, Flipped, LostRows
  <1> QED BY DataInit, DataStep, <1>1, PTL DEF Spec

-----------------------------------------------------------------------------
(***************************************************************************)
(* CountGTIDTransactions is exact. The string it parses is a set written   *)
(* as maximal intervals: every transaction is in one of them (the longest  *)
(* around it), and two of them have none in common, so that counting each  *)
(* by its ends counts every transaction once.                              *)
(***************************************************************************)

LEMMA NatMin ==
    ASSUME NEW T, T \subseteq Nat, T # {} PROVE \E x \in T : \A y \in T : x <= y
  <1>1. IsWellFoundedOn(OpToRel(<, Nat), Nat)
    BY NatLessThanWellFounded
  <1>2. PICK x \in T : \A y \in T : ~ (<<y, x>> \in OpToRel(<, Nat))
    BY <1>1, WFMin, Zenon
  <1>3. \A y \in T : ~(y < x)
    BY <1>2 DEF OpToRel
  <1> QED BY <1>3

LEMMA TxnIs ==
    ASSUME NEW s \in SUBSET Txns, NEW c, NEW n, <<c, n>> \in s
    PROVE  c \in Clusters /\ n \in 1..MaxTxns
  BY DEF Txns

\* What membership in Intervals says.
LEMMA IntervalIs ==
    ASSUME NEW s, NEW c, NEW iv
    PROVE  iv \in Intervals(s, c) <=>
              /\ iv \in (1..MaxTxns) \X (1..MaxTxns)
              /\ iv[1] <= iv[2] /\ \A n \in iv[1]..iv[2] : <<c, n>> \in s
              /\ <<c, iv[1] - 1>> \notin s /\ <<c, iv[2] + 1>> \notin s
  BY DEF Intervals

LEMMA IntervalAround ==
    ASSUME NEW s \in SUBSET Txns, NEW c, NEW n, <<c, n>> \in s
    PROVE  \E iv \in Intervals(s, c) : iv[1] <= n /\ n <= iv[2]
  <1>0. n \in 1..MaxTxns /\ MaxTxns \in Nat
    BY TxnIs, PreFlightAssumption
  <1> DEFINE Lows == {m \in 1..n : \A j \in m..n : <<c, j>> \in s}
  <1>1. PICK a \in Lows : \A y \in Lows : a <= y
    <2>1. Lows \subseteq Nat /\ n \in Lows
      BY <1>0
    <2> HIDE DEF Lows
    <2> QED BY <2>1, NatMin
  <1>2. <<c, a - 1>> \notin s
    <2> SUFFICES ASSUME <<c, a - 1>> \in s PROVE FALSE
      OBVIOUS
    <2>1. a - 1 \in 1..MaxTxns
      BY TxnIs
    <2>2. a - 1 \in Lows
      <3>1. a \in 1..n /\ \A j \in a..n : <<c, j>> \in s
        OBVIOUS
      <3>2. \A j \in (a - 1)..n : j = a - 1 \/ j \in a..n
        BY <1>0, <3>1
      <3> QED BY <1>0, <2>1, <3>1, <3>2
    <2>3. a <= a - 1
      BY <1>1, <2>2
    <2> QED BY <1>0, <2>3
  \* The upper end, as the smallest distance from MaxTxns.
  <1> DEFINE Gaps == {d \in 0..(MaxTxns - n) : \A j \in n..(MaxTxns - d) : <<c, j>> \in s}
  <1>3. PICK g \in Gaps : \A y \in Gaps : g <= y
    <2>1. MaxTxns - n \in Nat /\ MaxTxns - (MaxTxns - n) = n
      BY <1>0
    <2>2. Gaps \subseteq Nat /\ MaxTxns - n \in Gaps
      BY <1>0, <2>1
    <2> HIDE DEF Gaps
    <2> QED BY <2>2, NatMin
  <1> DEFINE b == MaxTxns - g
  <1>4. b \in n..MaxTxns /\ \A j \in n..b : <<c, j>> \in s
    BY <1>0, <1>3
  <1>5. <<c, b + 1>> \notin s
    <2> SUFFICES ASSUME <<c, b + 1>> \in s PROVE FALSE
      OBVIOUS
    <2>1. b + 1 \in 1..MaxTxns
      BY TxnIs
    <2>2. g - 1 \in 0..(MaxTxns - n) /\ MaxTxns - (g - 1) = b + 1
      BY <1>0, <1>3, <1>4, <2>1
    <2>3. \A j \in n..(b + 1) : j = b + 1 \/ j \in n..b
      BY <1>0, <1>4
    <2>4. g - 1 \in Gaps
      BY <1>4, <2>2, <2>3
    <2>5. g <= g - 1
      BY <1>3, <2>4
    <2> QED BY <1>0, <1>3, <2>5
  <1>6. /\ a \in 1..MaxTxns /\ b \in 1..MaxTxns /\ a <= n /\ n <= b
        /\ \A j \in a..b : <<c, j>> \in s
    <2>1. a \in 1..n /\ \A j \in a..n : <<c, j>> \in s
      OBVIOUS
    <2>2. \A j \in a..b : j \in a..n \/ j \in n..b
      BY <1>0, <1>4, <2>1
    <2> QED BY <1>0, <1>4, <2>1, <2>2
  <1> HIDE DEF Lows, Gaps, b
  <1>7. <<a, b>> \in Intervals(s, c)
    <2>1. a <= b
      BY <1>0, <1>6
    <2> QED BY <1>2, <1>5, <1>6, <2>1, IntervalIs
  <1> QED BY <1>6, <1>7

LEMMA IntervalsApart ==
    ASSUME NEW s, NEW c, NEW iv \in Intervals(s, c), NEW jv \in Intervals(s, c),
           NEW n \in Nat, iv[1] <= n, n <= iv[2], jv[1] <= n, n <= jv[2]
    PROVE  iv = jv
  <1>1. ASSUME NEW x \in Intervals(s, c), NEW y \in Intervals(s, c),
               x[1] <= n, n <= x[2], y[1] <= n, n <= y[2]
        PROVE  x[1] <= y[1] /\ y[2] <= x[2]
    <2>a. /\ x \in (1..MaxTxns) \X (1..MaxTxns) /\ y \in (1..MaxTxns) \X (1..MaxTxns)
          /\ \A j \in y[1]..y[2] : <<c, j>> \in s
          /\ <<c, x[1] - 1>> \notin s /\ <<c, x[2] + 1>> \notin s
      BY <1>1, IntervalIs
    <2>0. /\ x[1] \in Nat /\ x[2] \in Nat /\ y[1] \in Nat /\ y[2] \in Nat
          /\ \A j \in y[1]..y[2] : <<c, j>> \in s
          /\ <<c, x[1] - 1>> \notin s /\ <<c, x[2] + 1>> \notin s
      BY <2>a, PreFlightAssumption
    <2>1. x[1] - 1 \notin y[1]..y[2] /\ x[2] + 1 \notin y[1]..y[2]
      BY <2>0
    <2> QED BY <1>1, <2>0, <2>1
  <1>2. iv[1] <= jv[1] /\ jv[1] <= iv[1] /\ iv[2] <= jv[2] /\ jv[2] <= iv[2]
    BY <1>1
  <1>3. iv \in (1..MaxTxns) \X (1..MaxTxns) /\ jv \in (1..MaxTxns) \X (1..MaxTxns)
    BY IntervalIs
  <1>4. iv[1] = jv[1] /\ iv[2] = jv[2]
    BY <1>2, <1>3, PreFlightAssumption
  <1> QED BY <1>3, <1>4

LEMMA CountedIs ==
    ASSUME NEW s, NEW c, NEW p \in Counted(s, c)
    PROVE  /\ p[1] \in Intervals(s, c) /\ p = <<p[1], p[2]>>
           /\ p[1][1] \in Nat /\ p[1][2] \in Nat
           /\ p[2] \in Nat /\ 1 <= p[2] /\ p[2] <= p[1][2] - p[1][1] + 1
  <1>1. PICK iv \in Intervals(s, c) : p \in {iv} \X (1..RangeLength(iv))
    BY DEF Counted
  <1>2. p[1] = iv /\ p[2] \in 1..RangeLength(iv) /\ p = <<p[1], p[2]>>
    BY <1>1
  <1>3. iv \in (1..MaxTxns) \X (1..MaxTxns)
    BY IntervalIs
  <1>4. iv[1] \in Nat /\ iv[2] \in Nat /\ RangeLength(iv) = iv[2] - iv[1] + 1
    BY <1>3, PreFlightAssumption DEF RangeLength
  <1> QED BY <1>1, <1>2, <1>4

\* A position in an interval stands for one transaction, and each for one.
LEMMA CountedBijection ==
    ASSUME NEW s \in SUBSET Txns, NEW c
    PROVE  ExistsBijection(Counted(s, c), {t \in s : t[1] = c})
  <1> DEFINE S == Counted(s, c)
  <1> DEFINE T == {t \in s : t[1] = c}
  <1> DEFINE f == [p \in S |-> <<c, p[1][1] + p[2] - 1>>]
  <1>1. ASSUME NEW p \in S
        PROVE  LET n == p[1][1] + p[2] - 1
               IN  n \in Nat /\ p[1][1] <= n /\ n <= p[1][2] /\ <<c, n>> \in s
    <2> DEFINE n == p[1][1] + p[2] - 1
    <2>1. n \in Nat /\ p[1][1] <= n /\ n <= p[1][2] /\ n \in p[1][1]..p[1][2]
      BY CountedIs
    <2>2. \A j \in p[1][1]..p[1][2] : <<c, j>> \in s
      BY CountedIs, IntervalIs
    <2> QED BY <2>1, <2>2
  <1>2. f \in [S -> T]
    BY <1>1
  <1>3. ASSUME NEW p \in S, NEW q \in S, f[p] = f[q] PROVE p = q
    <2>1. p[1][1] + p[2] - 1 = q[1][1] + q[2] - 1
      BY <1>3
    <2>2. p[1] = q[1]
      BY <1>1, <2>1, CountedIs, IntervalsApart
    <2>3. p[2] = q[2]
      BY <2>1, <2>2, CountedIs
    <2> QED BY <2>2, <2>3, CountedIs
  <1>4. ASSUME NEW t \in T PROVE \E p \in S : f[p] = t
    <2>1. t \in Txns /\ t \in s /\ t[1] = c
      OBVIOUS
    <2>2. t = <<c, t[2]>> /\ t[2] \in Nat
      BY <2>1, PreFlightAssumption DEF Txns
    <2>3. PICK iv \in Intervals(s, c) : iv[1] <= t[2] /\ t[2] <= iv[2]
      BY <2>1, <2>2, IntervalAround
    <2>4. iv \in (1..MaxTxns) \X (1..MaxTxns)
      BY IntervalIs
    <2>5. iv[1] \in Nat /\ iv[2] \in Nat /\ RangeLength(iv) = iv[2] - iv[1] + 1
      BY <2>4, PreFlightAssumption DEF RangeLength
    <2> DEFINE k == t[2] - iv[1] + 1
    <2>6. k \in 1..RangeLength(iv) /\ iv[1] + k - 1 = t[2]
      BY <2>2, <2>3, <2>5
    <2> HIDE DEF k
    <2>7. <<iv, k>> \in {iv} \X (1..RangeLength(iv))
      BY <2>6
    <2>8. <<iv, k>> \in S
      BY <2>7 DEF Counted
    <2>9. f[<<iv, k>>] = <<c, iv[1] + k - 1>>
      BY <2>8
    <2> QED BY <2>2, <2>6, <2>8, <2>9
  <1> HIDE DEF S, T, f
  <1>5. f \in Injection(S, T)
    BY <1>2, <1>3, Fun_IsInj
  <1>6. f \in Surjection(S, T)
    BY <1>2, <1>4, Fun_IsSurj
  <1>7. f \in Bijection(S, T)
    BY <1>5, <1>6 DEF Bijection
  <1> QED BY <1>7 DEF ExistsBijection, S, T

LEMMA TxnsFinite == IsFiniteSet(Txns)
  <1>1. IsFiniteSet({Local} \cup {Remote})
    BY FS_Singleton, FS_Union
  <1>2. Clusters = {Local} \cup {Remote}
    BY DEF Clusters
  <1>3. IsFiniteSet(1..MaxTxns)
    BY FS_Interval, PreFlightAssumption
  <1> QED BY <1>1, <1>2, <1>3, FS_Product DEF Txns

\* Whatever gaps a GTID set has, counting its printed intervals by their ends
\* gives the number of its transactions (CountGTIDTransactions, gtid.go).
THEOREM CountIsExact ==
    ASSUME NEW s \in SUBSET Txns
    PROVE  CountGTIDTransactions(s) = Cardinality(s)
  <1> DEFINE Of(c) == {t \in s : t[1] = c}
  <1>1. IsFiniteSet(s)
    BY TxnsFinite, FS_Subset
  <1>2. ASSUME NEW c PROVE IsFiniteSet(Of(c)) /\ Cardinality(Counted(s, c)) = Cardinality(Of(c))
    <2>1. IsFiniteSet(Of(c))
      BY <1>1, FS_Subset
    <2>2. ExistsBijection(Of(c), Counted(s, c))
      BY CountedBijection, Fun_ExistsBijSymmetric
    <2> HIDE DEF Of
    <2> QED BY <2>1, <2>2, FS_Bijection
  <1>3. s = Of(Local) \cup Of(Remote) /\ Of(Local) \cap Of(Remote) = {}
    BY PreFlightAssumption DEF Txns, Clusters
  <1> HIDE DEF Of
  <1>4. Cardinality(s) = Cardinality(Of(Local)) + Cardinality(Of(Remote)) - 0
    BY <1>2, <1>3, FS_Union, FS_EmptySet
  <1>5. Cardinality(Of(Local)) \in Nat /\ Cardinality(Of(Remote)) \in Nat
    BY <1>2, FS_CardinalityType
  <1> QED BY <1>2, <1>4, <1>5 DEF CountGTIDTransactions

-----------------------------------------------------------------------------
(***************************************************************************)
(* The reported gap. It is within bounds because what is measured are      *)
(* transactions of the source, and a gap of zero stays a promise because   *)
(* the snapshot is read anew only after the report is withdrawn.           *)
(***************************************************************************)

LocalTxns == {Local} \X (1..MaxTxns)

SetTypes ==
    /\ executed \in [Clusters -> SUBSET Txns] /\ purged \in [Clusters -> SUBSET Txns]
    /\ rpurged \subseteq Txns /\ skipped \subseteq Txns
    /\ executed[Local] \subseteq LocalTxns /\ snap \subseteq executed[Local]

FlagTypes ==
    /\ accepting \in BOOLEAN /\ promoted \in BOOLEAN /\ allowLoss \in BOOLEAN
    /\ ok \in BOOLEAN /\ localErr \in BOOLEAN /\ remoteErr \in BOOLEAN

ControlTypes ==
    /\ channel \in {"running", "stopped", "absent"} /\ pc \in Phases
    /\ attempts \in 0..MaxAttempts

GapKept ==
    /\ lag \in -1..MaxTxns /\ (lag # -1 => pc = "Idle")
    /\ NoGapMeansCaughtUp

GapInv == SetTypes /\ FlagTypes /\ ControlTypes /\ GapKept

LEMMA GapInit == Init => GapInv
  <1> SUFFICES ASSUME Init PROVE GapInv
    OBVIOUS
  <1>1. SetTypes
    BY DEF Init, SetTypes, Clusters
  <1>2. FlagTypes
    BY DEF Init, FlagTypes
  <1>3. ControlTypes
    BY PreFlightAssumption DEF Init, ControlTypes, Phases
  <1>4. GapKept
    BY PreFlightAssumption DEF Init, GapKept, NoGapMeansCaughtUp
  <1> QED BY <1>1, <1>2, <1>3, <1>4 DEF GapInv

LEMMA LocalTxnsAre ==
    /\ LocalTxns \subseteq Txns /\ IsFiniteSet(LocalTxns) /\ Cardinality(LocalTxns) = MaxTxns
  <1>1. IsFiniteSet(1..MaxTxns) /\ Cardinality(1..MaxTxns) = MaxTxns
    BY FS_Interval, PreFlightAssumption
  <1>2. IsFiniteSet({Local}) /\ Cardinality({Local}) = 1
    BY FS_Singleton
  <1>3. IsFiniteSet(LocalTxns) /\ Cardinality(LocalTxns) = 1 * MaxTxns
    BY <1>1, <1>2, FS_Product DEF LocalTxns
  <1> QED BY <1>3, PreFlightAssumption DEF LocalTxns, Txns, Clusters

\* What is measured: the size of a set of transactions of the source.
LEMMA GapMeasured ==
    ASSUME SetTypes, NEW n, n = CountGTIDTransactions(snap \ executed[Remote])
    PROVE  n \in 0..MaxTxns /\ (n = 0 => snap \subseteq executed[Remote])
  <1> DEFINE gap == snap \ executed[Remote]
  <1>1. gap \subseteq LocalTxns
    BY DEF SetTypes
  <1>2. n = Cardinality(gap)
    BY <1>1, LocalTxnsAre, CountIsExact
  <1>3. IsFiniteSet(gap) /\ Cardinality(gap) <= Cardinality(LocalTxns)
    BY <1>1, LocalTxnsAre, FS_Subset
  <1>4. Cardinality(gap) \in Nat /\ (Cardinality(gap) = 0 => gap = {})
    BY <1>3, FS_CardinalityType, FS_EmptySet
  <1> QED BY <1>2, <1>3, <1>4, LocalTxnsAre, PreFlightAssumption

LEMMA SetsWorld == ASSUME GapInv, World PROVE SetTypes' /\ GapKept'
  <1>0. UNCHANGED <<pc, snap, rpurged, lag>>
    BY DEF World, checkVars
  <1>1. Local \in Clusters /\ Remote \in Clusters /\ Local # Remote
    BY PreFlightAssumption DEF Clusters
  <1>2. ASSUME NEW t, executed' = [executed EXCEPT ![Remote] = @ \cup {t}], t \in Txns
        PROVE  /\ executed' \in [Clusters -> SUBSET Txns] /\ executed'[Local] = executed[Local]
               /\ executed[Remote] \subseteq executed'[Remote]
    BY <1>1, <1>2 DEF GapInv, SetTypes
  <1>3. /\ executed' \in [Clusters -> SUBSET Txns] /\ executed'[Local] \subseteq LocalTxns
        /\ executed[Local] \subseteq executed'[Local]
        /\ executed[Remote] \subseteq executed'[Remote]
    <2>1. CASE ClientWrite
      <3> DEFINE n == Cardinality(executed[Local]) + 1
      <3>1. IsFiniteSet(executed[Local])
        BY LocalTxnsAre, FS_Subset DEF GapInv, SetTypes
      <3>2. Cardinality(executed[Local]) \in Nat
        BY <3>1, FS_CardinalityType
      <3>3. n \in 1..MaxTxns
        BY <2>1, <3>2, PreFlightAssumption DEF ClientWrite
      <3>4. executed' = [executed EXCEPT ![Local] = @ \cup {<<Local, n>>}]
        BY <2>1 DEF ClientWrite
      <3> HIDE DEF n
      <3>5. <<Local, n>> \in LocalTxns
        BY <3>3 DEF LocalTxns
      <3> QED BY <1>1, <3>4, <3>5, LocalTxnsAre DEF GapInv, SetTypes
    <2>2. CASE Replicate \/ SkipTransaction
      BY <1>1, <1>2, <2>2 DEF Replicate, SkipTransaction, Missing, GapInv, SetTypes
    <2>3. CASE ErrantWrite
      <3>1. <<Remote, 1>> \in Txns
        BY <1>1, PreFlightAssumption DEF Txns
      <3> QED BY <1>2, <2>3, <3>1 DEF ErrantWrite, GapInv, SetTypes
    <2>4. CASE ChannelStops \/ ChannelStarts \/ \E c \in Clusters : ExpireBinlogs(c)
      BY <2>4 DEF ChannelStops, ChannelStarts, ExpireBinlogs, GapInv, SetTypes
    <2> QED BY <2>1, <2>2, <2>3, <2>4 DEF World
  <1>4. purged' \in [Clusters -> SUBSET Txns]
    BY DEF World, ClientWrite, Replicate, SkipTransaction, ErrantWrite, ChannelStops,
           ChannelStarts, ExpireBinlogs, GapInv, SetTypes
  <1>s. skipped' \subseteq Txns
    BY <1>1 DEF World, ClientWrite, Replicate, SkipTransaction, Missing, ErrantWrite,
           ChannelStops, ChannelStarts, ExpireBinlogs, GapInv, SetTypes
  <1>5. SetTypes'
    BY <1>0, <1>3, <1>4, <1>s DEF GapInv, SetTypes
  <1>6. GapKept'
    BY <1>0, <1>3 DEF GapInv, GapKept, NoGapMeansCaughtUp
  <1> QED BY <1>5, <1>6

LEMMA ControlWorld == ASSUME GapInv, World PROVE FlagTypes' /\ ControlTypes'
  <1>1. FlagTypes'
    BY DEF World, checkVars, GapInv, FlagTypes
  <1>2. ControlTypes'
    BY DEF World, ClientWrite, Replicate, SkipTransaction, ErrantWrite, ChannelStops,
           ChannelStarts, ExpireBinlogs, GapInv, ControlTypes
  <1> QED BY <1>1, <1>2

Checks ==
    \/ checkRemoteReachableReadOnly \/ checkRemoteReplicationRunning
    \/ LocalSnapshot \/ RemoteSnapshot
    \/ checkSubset \/ startWait \/ WaitForGTID \/ WaitForGTIDFails \/ recheckSubset
    \/ checkPurged \/ checkSettings \/ checkReplicaNotQuarantined

EnginePhases ==
    \/ FenceApplied \/ FenceRefused \/ FenceTakesHold \/ Promoted \/ PromoteFailed
    \/ StopReplica \/ RoutingApplied \/ RoutingFailed

\* The checks take their snapshots with the report withdrawn: an attempt is not
\* under way while a gap is reported.
LEMMA GapChecks == ASSUME GapInv, Checks PROVE GapInv'
  <1> USE DEF GapInv, Checks, Check, NoFindings, worldVars, dataVars, checkVars, Hard
  <1>0. lag = -1 /\ lag' = -1 /\ UNCHANGED <<executed, purged, skipped>>
    BY DEF GapKept, checkRemoteReachableReadOnly, checkRemoteReplicationRunning,
       LocalSnapshot, RemoteSnapshot, checkSubset, startWait, WaitForGTID,
       WaitForGTIDFails, recheckSubset, checkPurged, checkSettings,
       checkReplicaNotQuarantined
  <1>1. SetTypes'
    <2>1. /\ snap' \in {snap, executed[Local], {}}
          /\ rpurged' \in {rpurged, purged[Remote], {}}
      BY DEF checkRemoteReachableReadOnly, checkRemoteReplicationRunning,
         LocalSnapshot, RemoteSnapshot, checkSubset, startWait, WaitForGTID,
         WaitForGTIDFails, recheckSubset, checkPurged, checkSettings,
         checkReplicaNotQuarantined
    <2> QED BY <1>0, <2>1 DEF SetTypes, Clusters
  <1>2. FlagTypes'
    BY DEF FlagTypes, checkRemoteReachableReadOnly, checkRemoteReplicationRunning,
       LocalSnapshot, RemoteSnapshot, checkSubset, startWait, WaitForGTID,
       WaitForGTIDFails, recheckSubset, checkPurged, checkSettings,
       checkReplicaNotQuarantined
  <1>3. ControlTypes'
    BY DEF ControlTypes, Phases, checkRemoteReachableReadOnly,
       checkRemoteReplicationRunning, LocalSnapshot, RemoteSnapshot, checkSubset,
       startWait, WaitForGTID, WaitForGTIDFails, recheckSubset, checkPurged,
       checkSettings, checkReplicaNotQuarantined
  <1>4. GapKept'
    BY <1>0, PreFlightAssumption DEF GapKept, NoGapMeansCaughtUp
  <1> QED BY <1>1, <1>2, <1>3, <1>4

LEMMA GapPhases == ASSUME GapInv, EnginePhases \/ Crash PROVE GapInv'
  <1> USE DEF GapInv, EnginePhases, Phase, GiveUp, NoFindings, worldVars, dataVars, checkVars
  <1>0. /\ UNCHANGED <<executed, purged, skipped, lag, attempts, allowLoss>> /\ pc # "Idle"
        /\ UNCHANGED checkVars \/ NoFindings
    BY DEF FenceApplied, FenceRefused, FenceTakesHold, Promoted, PromoteFailed, StopReplica,
       RoutingApplied, RoutingFailed, Crash
  <1>1. SetTypes'
    BY <1>0 DEF SetTypes
  <1>2. FlagTypes'
    BY <1>0 DEF FlagTypes, FenceApplied, FenceRefused, FenceTakesHold, Promoted, PromoteFailed,
       StopReplica, RoutingApplied, RoutingFailed, Crash
  <1>3. ControlTypes'
    BY <1>0 DEF ControlTypes, Phases, FenceApplied, FenceRefused, FenceTakesHold, Promoted, PromoteFailed,
       StopReplica, RoutingApplied, RoutingFailed, Crash
  <1>4. GapKept'
    BY <1>0 DEF GapKept, NoGapMeansCaughtUp
  <1> QED BY <1>1, <1>2, <1>3, <1>4

LEMMA GapMeasure ==
    ASSUME GapInv, MeasureLocal \/ MeasureRemote \/ Execute PROVE GapInv'
  <1> USE DEF GapInv, NoFindings, worldVars, dataVars, checkVars
  <1>1. SetTypes'
    BY DEF MeasureLocal, MeasureRemote, Execute, SetTypes
  <1>2. FlagTypes'
    BY DEF MeasureLocal, MeasureRemote, Execute, FlagTypes
  <1>3. ControlTypes'
    BY PreFlightAssumption DEF MeasureLocal, MeasureRemote, Execute, ControlTypes, Phases
  <1>4. GapKept'
    <2>1. CASE MeasureLocal \/ Execute
      BY <2>1, PreFlightAssumption DEF MeasureLocal, Execute, GapKept, NoGapMeansCaughtUp
    <2>2. CASE MeasureRemote
      <3>1. UNCHANGED <<executed, snap>> /\ pc' = "Idle"
        BY <2>2 DEF MeasureRemote
      <3>2. CASE UNCHANGED lag
        BY <3>1, <3>2 DEF GapKept, NoGapMeansCaughtUp
      <3>3. CASE lag' = CountGTIDTransactions(snap \ executed[Remote])
        <4>1. lag' \in 0..MaxTxns /\ (lag' = 0 => snap \subseteq executed[Remote])
          BY <3>3, GapMeasured
        <4> QED BY <3>1, <4>1, PreFlightAssumption DEF GapKept, NoGapMeansCaughtUp
      <3> QED BY <2>2, <3>2, <3>3 DEF MeasureRemote
    <2> QED BY <2>1, <2>2
  <1> QED BY <1>1, <1>2, <1>3, <1>4

LEMMA GapStep == ASSUME GapInv, [Next]_vars PROVE GapInv'
  <1>1. CASE World
    BY <1>1, SetsWorld, ControlWorld DEF GapInv
  <1>2. CASE UNCHANGED vars
    BY <1>2 DEF GapInv, SetTypes, FlagTypes, ControlTypes, GapKept, NoGapMeansCaughtUp,
           vars, worldVars, dataVars, checkVars
  <1> QED BY <1>1, <1>2, GapChecks, GapPhases, GapMeasure DEF Next, Checks, EnginePhases

LEMMA GapAlways == Spec => []GapInv
  BY GapInit, GapStep, PTL DEF Spec

\* Every reachable state is well typed; in particular the gap reported by
\* observeGTIDLag never exceeds what the clients have written, for any gaps in
\* the executed sets and any interleaving of the two queries with replication.
THEOREM PreFlightTypes == Spec => []TypeOK
  <1>1. GapInv => TypeOK
    <2> SUFFICES ASSUME GapInv PROVE TypeOK
      OBVIOUS
    <2>1. snap \subseteq Txns
      BY LocalTxnsAre DEF GapInv, SetTypes
    <2>2. {accepting, promoted, allowLoss, ok, localErr, remoteErr} \subseteq BOOLEAN
      BY DEF GapInv, FlagTypes
    <2> QED BY <2>1, <2>2 DEF GapInv, SetTypes, ControlTypes, GapKept, TypeOK
  <1> QED BY GapAlways, <1>1, PTL

\* A reported gap of zero means that the replica has applied or skipped, for good,
\* everything the source had executed when the measurement began, through the
\* writes, replication and attempts that follow it (observeGTIDLag, CountGTIDTransactions).
THEOREM GapZeroIsCaughtUp == Spec => []NoGapMeansCaughtUp
  <1>1. GapInv => NoGapMeansCaughtUp
    BY DEF GapInv, GapKept
  <1> QED BY GapAlways, <1>1, PTL

=============================================================================
