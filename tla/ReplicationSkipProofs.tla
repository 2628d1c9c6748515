------------------------ MODULE ReplicationSkipProofs ------------------------
(***************************************************************************)
(* Proofs about ReplicationSkip: its types, the rate limit of the skips,   *)
(* and the quarantine.                                                     *)
(***************************************************************************)
EXTENDS ReplicationSkip, FiniteSetTheorems, TLAPS

\* Skips are numbered in the order of time, whether they are only recorded (dry
\* runs), only executed (records lost) or both.
Ordered ==
    LET skips == history \cup pending \cup executed IN
    /\ \A e \in skips : e.id <= serial /\ e.at <= now
    /\ \A e, f \in skips : e.id < f.id => e.at <= f.at

\* The history remembers as far back, and as many skips, as the rate limit looks
\* at. No code checks it of a configuration, and without it the limit is not
\* kept: a cap below the limit forgets skips that still count.
HistoryKeepsWindow == Window <= HistoryRetention /\ MaxSkipsPerWindow <= HistoryCap

\* What makes the rate limit inductive: every skip still in the window whose
\* record was not lost has a record, and there are no more records in the window
\* than the limit allows.
Accounted ==
    /\ InWindow(executed \ lost, Window) \subseteq history \cup pending
    /\ Count(history \cup pending, Window) <= MaxSkipsPerWindow

\* BurstQuarantined at every point of a cycle: the saved history decides.
BurstInv ==
    sighted = "yes" /\ Count(history, QuarantineWindow) > MaxSkipBeforeQuarantine
        => quarantined = "yes"

\* Every release has used up a value of the annotation: what is remembered as used
\* grows with it, and a cycle looks at the value that is set.
ReleaseInv ==
    /\ releases <= lastClear /\ lastClear <= clear
    /\ pc = "skip" => seen = clear

\* Work is left in a cycle only if it started on a replica not quarantined.
TodoInv == todo # {} => quarantined = "no"

-----------------------------------------------------------------------------
(***************************************************************************)
(* Types.                                                                  *)
(***************************************************************************)

\* Every step keeps the types.
LEMMA TypeStep == TypeOK /\ [Next]_vars => TypeOK'
<1> SUFFICES ASSUME TypeOK, [Next]_vars PROVE TypeOK'
  OBVIOUS
<1> USE SkipAssumption DEF savedVars, cycleVars, logVars, noteVars
<1>n. ASSUME serial < MaxSkips PROVE [id |-> serial + 1, at |-> now] \in Entries
  <2>1. serial + 1 \in 1..MaxSkips /\ now \in 0..MaxTime
    BY <1>n DEF TypeOK
  <2> QED BY <2>1 DEF Entries
<1>r. ASSUME NEW new, new \subseteq Entries PROVE Recorded(new) \subseteq Entries
  BY <1>r DEF Recorded, Pruned, Capped, TypeOK
<1>1. CASE Observe
  BY <1>1 DEF TypeOK, Observe, DetectWorkerErrors
<1>2. CASE SaveCycle
  <2>1. history' \subseteq Entries
    BY <1>2, <1>r DEF SaveCycle, TypeOK
  <2> QED BY <1>2, <2>1 DEF TypeOK, SaveCycle, EndCycle
<1>3. CASE LoseCycle
  BY <1>3 DEF TypeOK, LoseCycle, EndCycle
<1>4. CASE BlindCycle
  <2>1. history' \subseteq Entries
    BY <1>4, <1>r DEF BlindCycle
  <2> QED BY <1>4, <2>1 DEF TypeOK, BlindCycle
<1>5. CASE Tick \/ AskClear \/ \E m \in {"off", "dryRun", "live"} : SetMode(m)
  BY <1>5 DEF TypeOK, Tick, AskClear, SetMode
<1>6. ASSUME NEW t \in Txns, SkipBlocked(t) \/ SkipFails(t) PROVE TypeOK'
  BY <1>6 DEF TypeOK, SkipBlocked, SkipFails, MaySkip
<1>7. ASSUME NEW t \in Txns, WouldSkip(t) PROVE TypeOK'
  BY <1>7, <1>n DEF TypeOK, WouldSkip, MaySkip
<1>8. ASSUME NEW t \in Txns, SkipOk(t) PROVE TypeOK'
  BY <1>8, <1>n DEF TypeOK, SkipOk, MaySkip
<1>9. ASSUME NEW t \in Txns, SkipFailsLate(t) PROVE TypeOK'
  BY <1>9, <1>n DEF TypeOK, SkipFailsLate, MaySkip
<1>10. ASSUME NEW t \in Txns, ApplierFails(t) \/ ApplierRepaired(t) PROVE TypeOK'
  BY <1>10 DEF TypeOK, ApplierFails, ApplierRepaired
<1>11. CASE UNCHANGED vars
  BY <1>11 DEF TypeOK, vars
<1> QED
  BY <1>1, <1>2, <1>3, <1>4, <1>5, <1>6, <1>7, <1>8, <1>9, <1>10, <1>11 DEF Next

\* Every variable of ReplicationSkip keeps its type, and no record is pending
\* outside a cycle: a cycle ends with its patch saved or its records lost.
THEOREM SkipTypes == Spec => []TypeOK
<1>1. Init => TypeOK
  BY SkipAssumption DEF Init, TypeOK
<1> QED BY <1>1, TypeStep, PTL DEF Spec

-----------------------------------------------------------------------------
(***************************************************************************)
(* Counting in a window.                                                   *)
(***************************************************************************)

\* There are finitely many entries, so every record is finite.
LEMMA FiniteRecords ==
  ASSUME TypeOK
  PROVE  IsFiniteSet(history) /\ IsFiniteSet(pending) /\ IsFiniteSet(history \cup pending)
<1> DEFINE P == (1..MaxSkips) \X (0..MaxTime)
           f == [p \in P |-> [id |-> p[1], at |-> p[2]]]
<1>1. IsFiniteSet(P)
  <2>1. IsFiniteSet(1..MaxSkips) /\ IsFiniteSet(0..MaxTime)
    BY SkipAssumption, FS_Interval
  <2> QED BY <2>1, FS_Product
<1>2. f \in Surjection(P, Entries)
  <2>1. f \in [P -> Entries]
    BY DEF Entries
  <2>2. ASSUME NEW e \in Entries PROVE \E p \in P : f[p] = e
    <3>1. <<e.id, e.at>> \in P /\ e = [id |-> e.id, at |-> e.at]
      BY DEF Entries
    <3> QED BY <3>1
  <2> QED BY <2>1, <2>2 DEF Surjection
<1>3. IsFiniteSet(Entries)
  <2> HIDE DEF P, f
  <2> QED BY <1>1, <1>2, FS_Surjection
<1>4. history \in SUBSET Entries /\ pending \in SUBSET Entries
  BY DEF TypeOK
<1> QED BY <1>3, <1>4, FS_Subset, FS_Union

\* One element more makes a set larger by at most one.
LEMMA OneMore ==
  ASSUME NEW S, NEW x, IsFiniteSet(S)
  PROVE  IsFiniteSet(S \cup {x}) /\ Cardinality(S \cup {x}) <= Cardinality(S) + 1
<1>1. Cardinality(S) \in Nat
  BY FS_CardinalityType
<1>2. /\ IsFiniteSet(S \cup {x})
      /\ Cardinality(S \cup {x}) = IF x \in S THEN Cardinality(S) ELSE Cardinality(S) + 1
  BY FS_AddElement
<1>3. CASE x \in S
  <2>1. Cardinality(S \cup {x}) = Cardinality(S)
    BY <1>2, <1>3
  <2> QED BY <1>1, <1>2, <2>1
<1>4. CASE x \notin S
  <2>1. Cardinality(S \cup {x}) = Cardinality(S) + 1
    BY <1>2, <1>4
  <2> QED BY <1>1, <1>2, <2>1
<1> QED BY <1>3, <1>4

\* Fewer entries count for no more; a count is a natural number.
LEMMA CountMonotonic ==
  ASSUME NEW S, NEW T, IsFiniteSet(T), S \subseteq T, NEW w
  PROVE  /\ Count(S, w) \in Nat /\ Count(T, w) \in Nat
         /\ Count(S, w) <= Count(T, w)
<1>1. InWindow(T, w) \in SUBSET T /\ InWindow(S, w) \in SUBSET InWindow(T, w)
  BY DEF InWindow
<1>2. IsFiniteSet(InWindow(T, w))
  BY <1>1, FS_Subset
<1>3. /\ IsFiniteSet(InWindow(S, w))
      /\ Cardinality(InWindow(S, w)) <= Cardinality(InWindow(T, w))
  BY <1>1, <1>2, FS_Subset
<1> QED BY <1>2, <1>3, FS_CardinalityType DEF Count

\* As the clock advances, entries only leave a window.
LEMMA WindowShrinks ==
  ASSUME NEW S, S \subseteq Entries, IsFiniteSet(S), NEW w \in Nat,
         NEW n \in Nat, now \in Nat, now <= n
  PROVE  /\ {e \in S : e.at + w >= n} \subseteq InWindow(S, w)
         /\ Cardinality({e \in S : e.at + w >= n}) \in Nat
         /\ Cardinality({e \in S : e.at + w >= n}) <= Count(S, w)
<1>1. {e \in S : e.at + w >= n} \in SUBSET InWindow(S, w)
  BY SkipAssumption DEF InWindow, Entries
<1>2. IsFiniteSet(InWindow(S, w))
  <2>1. InWindow(S, w) \in SUBSET S
    BY DEF InWindow
  <2> QED BY <2>1, FS_Subset
<1> QED BY <1>1, <1>2, FS_Subset, FS_CardinalityType DEF Count

\* What is saved was in the history or is new.
LEMMA RecordedSubset ==
  ASSUME NEW new
  PROVE  Recorded(new) \subseteq history \cup new
BY DEF Recorded, Pruned, Capped

\* Pruning and capping keep every entry of a window that the retention covers
\* and that holds no more entries than the cap: an entry is dropped only when that
\* many later ones exist, and those are in the window too.
LEMMA RecordedKeepsWindow ==
  ASSUME TypeOK, Ordered, NEW w \in Nat, w <= HistoryRetention,
         Count(history \cup pending, w) <= HistoryCap
  PROVE  InWindow(history \cup pending, w) \subseteq Recorded(pending)
<1> USE SkipAssumption
<1> SUFFICES ASSUME NEW e \in history \cup pending, e.at + w >= now
             PROVE  e \in Recorded(pending)
  BY DEF InWindow
<1>0. \A f \in history \cup pending : f.at \in Nat /\ f.id \in Nat
  BY DEF TypeOK, Entries
<1>n. now \in Nat
  BY DEF TypeOK
<1>1. e \in Pruned(history) \cup pending
  BY <1>0, <1>n DEF Pruned
<1>2. CASE pending = {}
  BY <1>1, <1>2 DEF Recorded
<1>3. CASE pending # {}
  <2> DEFINE later == {f \in Pruned(history) \cup pending : f.id > e.id}
  <2>1. later \in SUBSET InWindow(history \cup pending, w)
    <3> SUFFICES ASSUME NEW f \in Pruned(history) \cup pending, f.id > e.id
                 PROVE  f \in history \cup pending /\ f.at + w >= now
      BY DEF InWindow
    <3>1. f \in history \cup pending
      BY DEF Pruned
    <3>2. e.id < f.id
      BY <1>0, <3>1
    <3>3. e.at <= f.at
      BY <3>1, <3>2 DEF Ordered
    <3> QED BY <1>0, <1>n, <3>1, <3>3
  <2>2. IsFiniteSet(InWindow(history \cup pending, w))
    <3>1. InWindow(history \cup pending, w) \in SUBSET (history \cup pending)
      BY DEF InWindow
    <3> QED BY <3>1, FiniteRecords, FS_Subset
  <2>3. e \in InWindow(history \cup pending, w) /\ e \notin later
    BY <1>0 DEF InWindow
  <2>4. /\ IsFiniteSet(later) /\ IsFiniteSet(later \cup {e})
        /\ Cardinality(later \cup {e}) = Cardinality(later) + 1
        /\ Cardinality(later \cup {e}) <= Cardinality(InWindow(history \cup pending, w))
    <3> HIDE DEF later
    <3>1. later \cup {e} \in SUBSET InWindow(history \cup pending, w)
      BY <2>1, <2>3
    <3>2. IsFiniteSet(later)
      BY <2>1, <2>2, FS_Subset
    <3>3. /\ IsFiniteSet(later \cup {e})
          /\ Cardinality(later \cup {e}) <= Cardinality(InWindow(history \cup pending, w))
      BY <3>1, <2>2, FS_Subset
    <3>4. Cardinality(later \cup {e}) = Cardinality(later) + 1
      BY <2>3, <3>2, FS_AddElement
    <3> QED BY <3>2, <3>3, <3>4
  <2>5. Cardinality(later) < HistoryCap
    <3>1. Cardinality(later) \in Nat /\ Cardinality(InWindow(history \cup pending, w)) \in Nat
      BY <2>2, <2>4, FS_CardinalityType
    <3> HIDE DEF later
    <3> QED BY <2>4, <3>1 DEF Count
  <2> QED BY <1>1, <1>3, <2>5 DEF Recorded, Capped
<1> QED BY <1>2, <1>3

-----------------------------------------------------------------------------
(***************************************************************************)
(* The rate limit.                                                         *)
(***************************************************************************)

\* Skips stay numbered in the order of time: a new one has the highest number
\* and the latest time, and the clock only advances.
LEMMA OrderedStep == TypeOK /\ Ordered /\ [Next]_vars => Ordered'
<1> SUFFICES ASSUME TypeOK, Ordered, [Next]_vars PROVE Ordered'
  OBVIOUS
<1> DEFINE skips == history \cup pending \cup executed
           fresh == [id |-> serial + 1, at |-> now]
<1> USE SkipAssumption DEF savedVars, cycleVars, logVars, noteVars
<1>t. /\ now \in Nat /\ serial \in Nat
      /\ \A e \in skips : e.id \in Nat /\ e.at \in Nat
  BY DEF TypeOK, Entries
<1>o. /\ \A e \in skips : e.id <= serial /\ e.at <= now
      /\ \A e, f \in skips : e.id < f.id => e.at <= f.at
  BY DEF Ordered
<1>a. ASSUME skips' \subseteq skips, serial' = serial, now' \in Nat, now <= now'
      PROVE  Ordered'
  <2>1. \A e \in skips' : e.id <= serial' /\ e.at <= now'
    BY <1>a, <1>o, <1>t
  <2>2. \A e, f \in skips' : e.id < f.id => e.at <= f.at
    BY <1>a, <1>o
  <2> QED BY <2>1, <2>2 DEF Ordered
<1>b. ASSUME skips' \subseteq skips \cup {fresh}, serial' = serial + 1, now' = now
      PROVE  Ordered'
  <2>0. fresh.id = serial + 1 /\ fresh.at = now
    OBVIOUS
  <2> HIDE DEF fresh
  <2>1. \A e \in skips' : e.id <= serial' /\ e.at <= now'
    BY <1>b, <1>o, <1>t, <2>0
  <2>2. \A e, f \in skips' : e.id < f.id => e.at <= f.at
    BY <1>b, <1>o, <1>t, <2>0
  <2> QED BY <2>1, <2>2 DEF Ordered
<1>1. CASE SaveCycle \/ BlindCycle
  <2>1. history' \subseteq history \cup pending
    BY <1>1, RecordedSubset DEF SaveCycle, BlindCycle
  <2> QED BY <1>1, <1>a, <1>t, <2>1 DEF SaveCycle, BlindCycle, EndCycle
<1>2. CASE Observe \/ LoseCycle \/ AskClear \/ \E m \in {"off", "dryRun", "live"} : SetMode(m)
  BY <1>2, <1>a, <1>t DEF Observe, LoseCycle, EndCycle, AskClear, SetMode
<1>3. CASE Tick
  BY <1>3, <1>a, <1>t DEF Tick
<1>4. ASSUME NEW t \in Txns, SkipBlocked(t) \/ SkipFails(t) \/ ApplierFails(t) \/ ApplierRepaired(t)
      PROVE  Ordered'
  BY <1>4, <1>a, <1>t DEF SkipBlocked, SkipFails, ApplierFails, ApplierRepaired
<1>5. ASSUME NEW t \in Txns, WouldSkip(t) \/ SkipOk(t) \/ SkipFailsLate(t)
      PROVE  Ordered'
  BY <1>5, <1>b DEF WouldSkip, SkipOk, SkipFailsLate
<1>6. CASE UNCHANGED vars
  BY <1>6, <1>a, <1>t DEF vars
<1> QED BY <1>1, <1>2, <1>3, <1>4, <1>5, <1>6 DEF Next

\* A cycle saved, lost or blind, a skip of each outcome and the clock keep the
\* account of the skips in the window.
LEMMA AccountedStep ==
  ASSUME HistoryKeepsWindow
  PROVE  TypeOK /\ Ordered /\ Accounted /\ [Next]_vars => Accounted'
<1> SUFFICES ASSUME TypeOK, Ordered, Accounted, [Next]_vars PROVE Accounted'
  OBVIOUS
<1> DEFINE fresh == [id |-> serial + 1, at |-> now]
<1> USE SkipAssumption DEF savedVars, cycleVars, logVars, noteVars
<1>t. /\ now \in Nat /\ serial \in Nat
      /\ history \cup pending \subseteq Entries /\ executed \subseteq Entries
  BY DEF TypeOK
<1>f. IsFiniteSet(history) /\ IsFiniteSet(pending) /\ IsFiniteSet(history \cup pending)
  BY FiniteRecords
<1>c. Count(history \cup pending, Window) <= MaxSkipsPerWindow
  BY DEF Accounted
<1>w. InWindow(executed \ lost, Window) \subseteq history \cup pending
  BY DEF Accounted
<1>a. ASSUME history' \cup pending' \subseteq history \cup pending, now' = now,
             InWindow(executed \ lost, Window)' \subseteq history' \cup pending'
      PROVE  Accounted'
  <2>2. Count(history \cup pending, Window)' = Count(history' \cup pending', Window)
    BY <1>a DEF Count, InWindow
  <2>3. Count(history' \cup pending', Window) <= MaxSkipsPerWindow
    BY <1>a, <1>c, <1>f, CountMonotonic
  <2> QED BY <1>a, <2>2, <2>3 DEF Accounted
<1>b. ASSUME UNCHANGED <<history, pending, executed, lost, now>> PROVE Accounted'
  BY <1>b, <1>a, <1>w DEF InWindow
<1>1. CASE SaveCycle
  <2>1. history' = Recorded(pending) /\ pending' = {} /\ UNCHANGED <<now, executed, lost>>
    BY <1>1 DEF SaveCycle, EndCycle
  <2>2. history' \subseteq history \cup pending
    BY <2>1, RecordedSubset
  <2>3. Window <= HistoryRetention /\ Count(history \cup pending, Window) <= HistoryCap
    BY <1>c, <1>f, CountMonotonic DEF HistoryKeepsWindow
  <2>4. InWindow(history \cup pending, Window) \subseteq history'
    BY <2>1, <2>3, RecordedKeepsWindow
  <2>5. InWindow(executed \ lost, Window)' \subseteq history'
    BY <1>w, <2>1, <2>4 DEF InWindow
  <2> QED BY <1>a, <2>1, <2>2, <2>5
<1>2. CASE LoseCycle
  <2>1. /\ UNCHANGED <<now, history, executed>> /\ pending' = {}
        /\ lost' = lost \cup (pending \cap executed)
    BY <1>2 DEF LoseCycle, EndCycle
  <2>2. InWindow(executed \ lost, Window)' \subseteq history'
    BY <1>w, <2>1 DEF InWindow
  <2> QED BY <1>a, <2>1, <2>2
<1>3. CASE BlindCycle
  <2>1. pc = "idle" /\ pending = {}
    BY <1>3 DEF BlindCycle, TypeOK
  <2>2. history' = Recorded(pending) /\ UNCHANGED <<now, pending, executed, lost>>
    BY <1>3, <2>1 DEF BlindCycle
  <2>3. history' \subseteq history
    BY <2>1, <2>2, RecordedSubset
  <2>4. Window <= HistoryRetention /\ Count(history \cup pending, Window) <= HistoryCap
    BY <1>c, <1>f, CountMonotonic DEF HistoryKeepsWindow
  <2>5. InWindow(history \cup pending, Window) \subseteq history'
    BY <2>2, <2>4, RecordedKeepsWindow
  <2>6. InWindow(executed \ lost, Window)' \subseteq history'
    BY <1>w, <2>2, <2>5 DEF InWindow
  <2> QED BY <1>a, <2>2, <2>3, <2>6
<1>4. CASE Tick
  <2>1. UNCHANGED <<history, pending, executed, lost>> /\ now' \in Nat /\ now <= now'
    BY <1>4, <1>t DEF Tick
  <2>2. Count(history \cup pending, Window)' <= MaxSkipsPerWindow
    <3>1. Count(history \cup pending, Window)' = Cardinality({e \in history \cup pending : e.at + Window >= now'})
      BY <2>1 DEF Count, InWindow
    <3> QED BY <3>1, <1>c, <1>f, <1>t, <2>1, WindowShrinks, CountMonotonic
  <2>3. InWindow(executed \ lost, Window)' \subseteq InWindow(executed \ lost, Window)
    BY <1>t, <2>1 DEF InWindow, Entries
  <2> QED BY <1>f, <1>w, <2>1, <2>2, <2>3 DEF Accounted
<1>5. ASSUME NEW t \in Txns, WouldSkip(t) \/ SkipOk(t) PROVE Accounted'
  <2>1. /\ Count(history \cup pending, Window) < MaxSkipsPerWindow
        /\ UNCHANGED <<now, history, lost>> /\ pending' = pending \cup {fresh}
        /\ executed' \subseteq executed \cup {fresh}
    <3>1. ~(Count(history \cup pending, Window) >= MaxSkipsPerWindow)
      BY <1>5 DEF WouldSkip, SkipOk, MaySkip, RateLimited
    <3>2. Count(history \cup pending, Window) < MaxSkipsPerWindow
      BY <3>1, <1>f, CountMonotonic
    <3> QED BY <3>2, <1>5 DEF WouldSkip, SkipOk
  <2>3. InWindow(executed \ lost, Window)' \subseteq history' \cup pending'
    BY <1>w, <2>1 DEF InWindow
  <2>4. Count(history \cup pending, Window)' <= MaxSkipsPerWindow
    <3> DEFINE W == InWindow(history \cup pending, Window)
    <3>1. InWindow(history \cup pending, Window)' \in SUBSET (W \cup {fresh})
      BY <2>1 DEF InWindow
    <3>2. IsFiniteSet(W)
      <4>1. W \in SUBSET (history \cup pending)
        BY DEF InWindow
      <4> QED BY <4>1, <1>f, FS_Subset
    <3>3. IsFiniteSet(W \cup {fresh}) /\ Cardinality(W \cup {fresh}) <= Cardinality(W) + 1
      <4> HIDE DEF W, fresh
      <4> QED BY <3>2, OneMore
    <3>4. /\ IsFiniteSet(InWindow(history \cup pending, Window)')
          /\ Cardinality(InWindow(history \cup pending, Window)') <= Cardinality(W \cup {fresh})
      BY <3>1, <3>3, FS_Subset
    <3>5. /\ Cardinality(W) \in Nat /\ Cardinality(W \cup {fresh}) \in Nat
          /\ Cardinality(InWindow(history \cup pending, Window)') \in Nat
      BY <3>2, <3>3, <3>4, FS_CardinalityType
    <3>6. Cardinality(W) < MaxSkipsPerWindow
      BY <2>1 DEF Count
    <3> QED BY <3>3, <3>4, <3>5, <3>6 DEF Count
  <2> QED BY <2>1, <2>3, <2>4 DEF Accounted
<1>6. ASSUME NEW t \in Txns, SkipFailsLate(t) PROVE Accounted'
  <2>1. /\ UNCHANGED <<now, history, pending>>
        /\ executed' = executed \cup {fresh} /\ lost' = lost \cup {fresh}
    BY <1>6 DEF SkipFailsLate
  <2>2. InWindow(executed \ lost, Window)' \subseteq InWindow(executed \ lost, Window)
    BY <2>1 DEF InWindow
  <2> QED BY <1>a, <1>w, <2>1, <2>2
<1>7. CASE Observe \/ AskClear \/ \E m \in {"off", "dryRun", "live"} : SetMode(m)
  BY <1>7, <1>b DEF Observe, AskClear, SetMode
<1>8. ASSUME NEW t \in Txns, SkipBlocked(t) \/ SkipFails(t) \/ ApplierFails(t) \/ ApplierRepaired(t)
      PROVE  Accounted'
  BY <1>8, <1>b DEF SkipBlocked, SkipFails, ApplierFails, ApplierRepaired
<1>9. CASE UNCHANGED vars
  BY <1>9, <1>b DEF vars
<1> QED BY <1>1, <1>2, <1>3, <1>4, <1>5, <1>6, <1>7, <1>8, <1>9 DEF Next

\* The skips of a replica are numbered in order and accounted for.
LEMMA SkipsAccounted ==
  ASSUME HistoryKeepsWindow
  PROVE  Spec => [](TypeOK /\ Ordered /\ Accounted)
<1>1. Init => TypeOK /\ Ordered /\ Accounted
  <2>1. Init => TypeOK
    BY SkipAssumption DEF Init, TypeOK
  <2>2. Init => Ordered
    BY DEF Init, Ordered
  <2>3. Init => Accounted
    <3> SUFFICES ASSUME Init PROVE Accounted
      OBVIOUS
    <3>1. InWindow(history \cup pending, Window) = {} /\ InWindow(executed \ lost, Window) = {}
      BY DEF Init, InWindow
    <3> QED BY <3>1, FS_EmptySet, SkipAssumption DEF Init, Accounted, Count
  <2> QED BY <2>1, <2>2, <2>3
<1> QED BY <1>1, TypeStep, OrderedStep, AccountedStep, PTL DEF Spec

\* The rate limit of applyAutoSkipWith holds over any number of cycles, failed
\* patches, prunings and cappings of the history: in no window are more than
\* MaxSkipsPerWindow transactions skipped whose record was not lost. It takes
\* a history that reaches as far as the limit looks.
THEOREM SkipRate ==
  ASSUME HistoryKeepsWindow
  PROVE  Spec => []SkipRateBounded
<1>1. TypeOK /\ Accounted => SkipRateBounded
  <2> SUFFICES ASSUME TypeOK, Accounted PROVE SkipRateBounded
    OBVIOUS
  <2> DEFINE recent == InWindow(executed \ lost, Window)
             known == InWindow(history \cup pending, Window)
  <2>1. recent \in SUBSET known
    BY DEF Accounted, InWindow
  <2>2. IsFiniteSet(known)
    <3>1. IsFiniteSet(history \cup pending) /\ known \in SUBSET (history \cup pending)
      BY FiniteRecords DEF InWindow
    <3> QED BY <3>1, FS_Subset
  <2>3. Cardinality(recent) \in Nat /\ Cardinality(known) \in Nat /\ Cardinality(recent) <= Cardinality(known)
    BY <2>1, <2>2, FS_Subset, FS_CardinalityType
  <2> QED BY <2>3, SkipAssumption DEF SkipRateBounded, Accounted, Count
<1> QED BY <1>1, SkipsAccounted, PTL

-----------------------------------------------------------------------------
(***************************************************************************)
(* The quarantine.                                                         *)
(***************************************************************************)

\* evaluateQuarantine counts at least what is then saved.
LEMMA BurstStep == TypeOK /\ BurstInv /\ [Next]_vars => BurstInv'
<1> SUFFICES ASSUME TypeOK, BurstInv, [Next]_vars PROVE BurstInv'
  OBVIOUS
<1> USE SkipAssumption DEF savedVars, cycleVars, logVars, noteVars
<1>t. now \in Nat /\ history \subseteq Entries
  BY DEF TypeOK
<1>f. IsFiniteSet(history) /\ IsFiniteSet(history \cup pending)
  BY FiniteRecords
<1>a. ASSUME UNCHANGED <<history, quarantined, sighted, now>> PROVE BurstInv'
  BY <1>a DEF BurstInv, Count, InWindow
<1>1. CASE SaveCycle
  <2> SUFFICES ASSUME quarantined' # "yes"
               PROVE  ~(Count(history, QuarantineWindow)' > MaxSkipBeforeQuarantine)
    BY DEF BurstInv
  <2>1. ~QuarantineActive /\ history' = Recorded(pending) /\ now' = now
    BY <1>1 DEF SaveCycle
  <2>2. Count(history \cup pending, QuarantineWindow) <= MaxSkipBeforeQuarantine
    <3>1. Count(history \cup pending, QuarantineWindow) \in Nat
      BY <1>f, CountMonotonic
    <3> QED BY <2>1, <3>1 DEF QuarantineActive, SafeToClear, OverThreshold
  <2>3. Count(history, QuarantineWindow)' = Count(history', QuarantineWindow)
    BY <2>1 DEF Count, InWindow
  <2>4. /\ Count(history', QuarantineWindow) \in Nat
        /\ Count(history \cup pending, QuarantineWindow) \in Nat
        /\ Count(history', QuarantineWindow) <= Count(history \cup pending, QuarantineWindow)
    <3>1. history' \subseteq history \cup pending
      BY <2>1, RecordedSubset
    <3> QED BY <1>f, <3>1, CountMonotonic
  <2> QED BY <2>2, <2>3, <2>4
<1>2. CASE BlindCycle
  BY <1>2 DEF BlindCycle, BurstInv
<1>3. CASE Tick
  <2>1. UNCHANGED <<history, quarantined, sighted>> /\ now' \in Nat /\ now <= now'
    BY <1>3, <1>t DEF Tick
  <2>2. Count(history, QuarantineWindow)' = Cardinality({e \in history : e.at + QuarantineWindow >= now'})
    BY <2>1 DEF Count, InWindow
  <2>3. /\ Count(history, QuarantineWindow)' \in Nat /\ Count(history, QuarantineWindow) \in Nat
        /\ Count(history, QuarantineWindow)' <= Count(history, QuarantineWindow)
    BY <1>f, <1>t, <2>1, <2>2, WindowShrinks, CountMonotonic
  <2> QED BY <2>1, <2>3 DEF BurstInv
<1>4. CASE Observe \/ LoseCycle \/ AskClear \/ \E m \in {"off", "dryRun", "live"} : SetMode(m)
  BY <1>4, <1>a DEF Observe, LoseCycle, AskClear, SetMode
<1>5. ASSUME NEW t \in Txns,
             \/ SkipBlocked(t) \/ WouldSkip(t) \/ SkipOk(t) \/ SkipFails(t)
             \/ SkipFailsLate(t) \/ ApplierFails(t) \/ ApplierRepaired(t)
      PROVE  BurstInv'
  BY <1>5, <1>a DEF SkipBlocked, WouldSkip, SkipOk, SkipFails, SkipFailsLate, ApplierFails,
     ApplierRepaired
<1>6. CASE UNCHANGED vars
  BY <1>6, <1>a DEF vars
<1> QED BY <1>1, <1>2, <1>3, <1>4, <1>5, <1>6 DEF Next

\* After every cycle that could inspect the replica, a burst of recorded skips
\* has it quarantined: neither a clear nor the capping of the history hides one
\* (evaluateQuarantine, safeToClearQuarantine).
THEOREM Quarantined == Spec => []BurstQuarantined
<1>1. Init => BurstInv
  <2> SUFFICES ASSUME Init PROVE BurstInv
    OBVIOUS
  <2>1. InWindow(history, QuarantineWindow) = {}
    BY DEF Init, InWindow
  <2> QED BY <2>1, FS_EmptySet, SkipAssumption DEF BurstInv, Count
<1>2. BurstInv => BurstQuarantined
  BY DEF BurstInv, BurstQuarantined
<1> QED BY <1>1, <1>2, SkipTypes, BurstStep, PTL DEF Spec

\* A cycle has work left only while the replica it observed is not quarantined:
\* the quarantine changes when the cycle has no more work, or outside cycles.
LEMMA TodoStep == TypeOK /\ TodoInv /\ [Next]_vars => TodoInv'
<1> SUFFICES ASSUME TypeOK, TodoInv, [Next]_vars PROVE TodoInv'
  OBVIOUS
<1> USE DEF TodoInv, savedVars, cycleVars, logVars, noteVars
<1>1. CASE Observe
  BY <1>1 DEF Observe, SkipAllowed
<1>2. CASE SaveCycle \/ LoseCycle \/ BlindCycle
  BY <1>2 DEF SaveCycle, LoseCycle, BlindCycle, EndCycle, TypeOK
<1>3. CASE Tick \/ AskClear \/ \E m \in {"off", "dryRun", "live"} : SetMode(m)
  BY <1>3 DEF Tick, AskClear, SetMode
<1>4. ASSUME NEW t \in Txns,
             \/ SkipBlocked(t) \/ WouldSkip(t) \/ SkipOk(t) \/ SkipFails(t)
             \/ SkipFailsLate(t) \/ ApplierFails(t) \/ ApplierRepaired(t)
      PROVE  TodoInv'
  BY <1>4 DEF SkipBlocked, WouldSkip, SkipOk, SkipFails, SkipFailsLate, ApplierFails,
     ApplierRepaired
<1>5. CASE UNCHANGED vars
  BY <1>5 DEF vars
<1> QED BY <1>1, <1>2, <1>3, <1>4, <1>5 DEF Next

\* No transaction is skipped while the CR holds the replica quarantined
\* (applyAutoSkipWith looks at the quarantine once, when the cycle starts).
THEOREM NoSkipInQuarantine == Spec => QuarantineStopsSkips
<1>1. Init => TypeOK /\ TodoInv
  BY SkipAssumption DEF Init, TypeOK, TodoInv
<1>2. TodoInv /\ [Next]_vars => [executed' # executed => quarantined = "no"]_vars
  <2> SUFFICES ASSUME TodoInv, Next, executed' # executed PROVE quarantined = "no"
    BY DEF vars, logVars
  <2>1. PICK t \in Txns : SkipOk(t) \/ SkipFailsLate(t)
    BY DEF Next, Observe, SaveCycle, LoseCycle, BlindCycle, Tick, AskClear, SkipBlocked,
       WouldSkip, SkipFails, ApplierFails, ApplierRepaired, SetMode, logVars
  <2> QED BY <2>1 DEF SkipOk, SkipFailsLate, MaySkip, TodoInv
<1>3. QED
  BY <1>1, <1>2, TypeStep, TodoStep, PTL DEF Spec, QuarantineStopsSkips

\* A release remembers a value larger than any used before.
LEMMA ReleaseStep == TypeOK /\ ReleaseInv /\ [Next]_vars => ReleaseInv'
<1> SUFFICES ASSUME TypeOK, ReleaseInv, [Next]_vars PROVE ReleaseInv'
  OBVIOUS
<1> USE SkipAssumption DEF ReleaseInv, savedVars, cycleVars, logVars, noteVars
<1>t. releases \in Nat /\ lastClear \in Nat /\ clear \in Nat /\ seen \in Nat
  BY DEF TypeOK
<1>1. CASE SaveCycle
  <2>1. pc = "skip" /\ seen = clear /\ pc' = "idle" /\ clear' = clear
    BY <1>1 DEF SaveCycle, EndCycle
  <2>2. CASE quarantined = "yes" /\ ClearRequested
    <3>1. lastClear' = clear /\ lastClear < clear
      BY <1>1, <1>t, <2>1, <2>2 DEF SaveCycle, ClearRequested
    <3>2. releases' \in {releases, releases + 1}
      BY <1>1 DEF SaveCycle
    <3> QED BY <1>t, <2>1, <3>1, <3>2
  <2>3. CASE ~(quarantined = "yes" /\ ClearRequested)
    <3>1. lastClear' = lastClear
      BY <1>1, <2>3 DEF SaveCycle
    <3>2. releases' = releases
      BY <1>1, <2>3 DEF SaveCycle, QuarantineActive
    <3> QED BY <2>1, <3>1, <3>2
  <2> QED BY <2>2, <2>3
<1>2. CASE BlindCycle
  <2>1. pc' = "idle" /\ UNCHANGED <<releases, clear>> /\ lastClear' \in {lastClear, clear}
    BY <1>2 DEF BlindCycle
  <2> QED BY <1>t, <2>1
<1>3. CASE Observe \/ LoseCycle \/ Tick \/ \E m \in {"off", "dryRun", "live"} : SetMode(m)
  BY <1>3 DEF Observe, LoseCycle, EndCycle, Tick, SetMode
<1>4. CASE AskClear
  BY <1>4, <1>t DEF AskClear
<1>5. ASSUME NEW t \in Txns,
             \/ SkipBlocked(t) \/ WouldSkip(t) \/ SkipOk(t) \/ SkipFails(t)
             \/ SkipFailsLate(t) \/ ApplierFails(t) \/ ApplierRepaired(t)
      PROVE  ReleaseInv'
  BY <1>5 DEF SkipBlocked, WouldSkip, SkipOk, SkipFails, SkipFailsLate, ApplierFails,
     ApplierRepaired
<1>6. CASE UNCHANGED vars
  BY <1>6 DEF vars
<1> QED BY <1>1, <1>2, <1>3, <1>4, <1>5, <1>6 DEF Next

\* The cycles that could inspect the replica release no more quarantines than
\* values the operator has given the clear-quarantine annotation, over any number
\* of lost patches, blind cycles and new bursts (operatorRequestedClear).
THEOREM ReleasedOncePerRequest == Spec => []OneReleasePerRequest
<1>1. Init => ReleaseInv
  BY DEF Init, ReleaseInv
<1>2. TypeOK /\ ReleaseInv => OneReleasePerRequest
  BY SkipAssumption DEF TypeOK, ReleaseInv, OneReleasePerRequest
<1> QED BY <1>1, <1>2, SkipTypes, ReleaseStep, PTL DEF Spec

=============================================================================
