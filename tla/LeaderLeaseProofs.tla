-------------------------- MODULE LeaderLeaseProofs --------------------------
(***************************************************************************)
(* Proofs about LeaderLease, for any TTL, clock difference, number of      *)
(* epochs, attempts and faults.                                            *)
(*                                                                         *)
(* The rows of keeper.leader are handled through the lemmas of the first   *)
(* section, which say what each operation on a row does to its owner,      *)
(* epoch and age.                                                          *)
(***************************************************************************)
EXTENDS LeaderLease, TLAPS

-----------------------------------------------------------------------------
(***************************************************************************)
(* Rows and sites.                                                         *)
(***************************************************************************)

LEMMA StaleType == Stale \in Nat /\ Stale # 0 /\ Stale > TTL
  BY LeaseAssumption DEF Stale

LEMMA SitesOther ==
    ASSUME NEW c \in Sites
    PROVE  /\ Remote(c) \in Sites /\ Remote(c) # c /\ Remote(Remote(c)) = c
           /\ \A d \in Sites : d = c \/ d = Remote(c)
  BY DEF Sites, Remote

\* What the owner field can hold.
Owners == {"no table", "no row", ""} \cup Sites

LEMMA RowsAre == Rows = [owner : Owners, epoch : 0 .. MaxEpoch, age : 0 .. Stale]
  BY DEF Rows, Owners

LEMMA OwnersHold ==
    /\ "no table" \in Owners /\ "no row" \in Owners /\ "" \in Owners
    /\ \A k \in Sites : k \in Owners
    /\ "none" \notin Owners
  BY DEF Owners, Sites

LEMMA FixedRows ==
    /\ NoTable \in Rows /\ NoRow \in Rows /\ SeedRow \in Rows
    /\ NoTable.owner \notin Sites /\ NoRow.owner \notin Sites /\ SeedRow.owner \notin Sites
    /\ NoTable.owner = "no table" /\ NoRow.owner # "no table" /\ SeedRow.owner # "no table"
    /\ NoTable.owner # "no row" /\ SeedRow.owner # "no row"
    /\ NoTable.epoch = 0 /\ NoRow.epoch = 0 /\ SeedRow.epoch = 0
  <1>1. 0 \in 0 .. MaxEpoch /\ Stale \in 0 .. Stale
    BY LeaseAssumption, StaleType
  <1>2. NoTable \in Rows /\ NoRow \in Rows /\ SeedRow \in Rows
    BY <1>1, RowsAre, OwnersHold DEF NoTable, NoRow, SeedRow
  <1>3. /\ NoTable.owner \notin Sites /\ NoRow.owner \notin Sites /\ SeedRow.owner \notin Sites
        /\ NoTable.owner = "no table" /\ NoRow.owner # "no table" /\ SeedRow.owner # "no table"
        /\ NoTable.owner # "no row" /\ SeedRow.owner # "no row"
    BY DEF NoTable, NoRow, SeedRow, Sites
  <1>4. NoTable.epoch = 0 /\ NoRow.epoch = 0 /\ SeedRow.epoch = 0
    BY DEF NoTable, NoRow, SeedRow
  <1> QED BY <1>2, <1>3, <1>4

LEMMA NoEventIs ==
    /\ NoEvent.owner \notin Sites /\ NoEvent.owner \notin {"no table", "no row"}
    /\ NoEvent.epoch = 0 /\ NoEvent \notin Rows
    /\ OlderRow(NoEvent) = NoEvent
  <1>1. NoEvent.owner = "none" /\ NoEvent.epoch = 0 /\ NoEvent.age = Stale
    BY DEF NoEvent
  <1>2. NoEvent \notin Rows
    BY <1>1, RowsAre, OwnersHold
  <1>3. Older(Stale) = Stale
    BY StaleType DEF Older
  <1>4. OlderRow(NoEvent) = NoEvent
    BY <1>3 DEF OlderRow, NoEvent
  <1> QED BY <1>1, <1>2, <1>4 DEF Sites

\* The DDL and the seed leave an owned row alone.
LEMMA SchemaRow ==
    ASSUME NEW l \in Rows, NEW r \in {Created(l), Seeded(l)}
    PROVE  /\ r \in Rows
           /\ l.owner \in Sites => r = l
           /\ r = l \/ (r.owner \notin Sites /\ r.epoch = 0 /\ r.owner # "no table")
  BY FixedRows DEF Created, Seeded, Sites

\* The seed is there after EnsureLeaderLeaseSchema, and is not set again.
LEMMA SeedRowTabled ==
    ASSUME NEW l \in Rows
    PROVE  /\ Seeded(l).owner # "no table" /\ Seeded(l).owner # "no row"
           /\ l.owner \notin {"no table", "no row"} => Seeded(l) = l
  BY FixedRows DEF Seeded

LEMMA AgedRow ==
    ASSUME NEW l \in Rows
    PROVE  /\ OlderRow(l) \in Rows
           /\ OlderRow(l).owner = l.owner /\ OlderRow(l).epoch = l.epoch
           /\ OlderRow(l).age = Older(l.age)
  <1>1. l \in [owner : Owners, epoch : 0 .. MaxEpoch, age : 0 .. Stale]
    BY RowsAre
  <1>2. Older(l.age) \in 0 .. Stale
    BY <1>1, StaleType DEF Older
  <1> QED BY <1>1, <1>2, RowsAre DEF OlderRow

\* What a heartbeat that is not refused leaves in the row.
LEMMA AcquiredRow ==
    ASSUME NEW k \in Sites, NEW l \in Rows, Renewable(l, k) \/ Available(l)
    PROVE  LET a == AcquireOrRenew(l, k) IN
           /\ a.owner = k /\ a.age = 0
           /\ (a.epoch = l.epoch /\ l.owner = k) \/ a.epoch = l.epoch + 1
           /\ a.epoch <= MaxEpoch => a \in Rows
  <1>1. l \in [owner : Owners, epoch : 0 .. MaxEpoch, age : 0 .. Stale]
    BY RowsAre
  <1>2. 0 \in 0 .. Stale /\ l.epoch + 1 \in Nat
    BY <1>1, StaleType, LeaseAssumption
  <1>a. k \in Owners
    BY OwnersHold
  <1>3. CASE Renewable(l, k)
    BY <1>1, <1>2, <1>3, RowsAre DEF AcquireOrRenew, Renewable
  <1>4. CASE ~Renewable(l, k)
    <2>1. AcquireOrRenew(l, k) = [owner |-> k, epoch |-> l.epoch + 1, age |-> 0]
      BY <1>4 DEF AcquireOrRenew
    <2> QED BY <1>1, <1>2, <1>a, <2>1, RowsAre, LeaseAssumption
  <1> QED BY <1>3, <1>4

\* An owned row replaces what the applier finds, another one does what the
\* statements it stands for do.
LEMMA ReplicatedRow ==
    ASSUME NEW e \in Rows, NEW l \in Rows
    PROVE  /\ Replicated(e, l) \in Rows
           /\ e.owner \in Sites => Replicated(e, l) = e
           /\ \/ Replicated(e, l) = e
              \/ Replicated(e, l) \in {Created(l), Seeded(l)}
  BY SchemaRow DEF Replicated, Sites

\* The rows that are replicated when no DDL has stopped halfway.
LEMMA ReplicatedWhole ==
    ASSUME NEW e \in Rows, NEW l \in Rows, e.owner \notin {"no table", "no row"}
    PROVE  Replicated(e, l) = IF e.owner \in Sites THEN e ELSE Seeded(l)
  <1>1. e.owner = "" \/ e.owner \in Sites
    BY RowsAre DEF Owners
  <1> QED BY <1>1 DEF Replicated, Sites

-----------------------------------------------------------------------------
(***************************************************************************)
(* Type correctness, by parts: flags, rows, control and histories.         *)
(***************************************************************************)

FlagTypes ==
    /\ writable \in [Sites -> {"yes", "no"}] /\ follows \in [Sites -> {"yes", "no"}]
    /\ behind \in [Sites -> {"yes", "no"}] /\ clobbered \subseteq Sites

RowTypes == lease \in [Sites -> Rows] /\ relay \in [Sites -> Rows \cup {NoEvent}]

ControlTypes ==
    /\ pc \in [Sites -> Steps] /\ beat \in [Sites -> 0 .. Stale]
    /\ attempts \in [Sites -> 0 .. MaxAttempts] /\ faults \in 0 .. MaxFaults

LEMMA TypeParts == TypeOK <=> FlagTypes /\ RowTypes /\ ControlTypes
  BY DEF TypeOK, FlagTypes, RowTypes, ControlTypes

LEMMA TypeInit == Init => TypeOK
  <1> SUFFICES ASSUME Init PROVE FlagTypes /\ RowTypes /\ ControlTypes
    BY TypeParts
  <1>1. FlagTypes
    BY DEF Init, FlagTypes
  <1>2. RowTypes
    BY FixedRows DEF Init, RowTypes
  <1>3. ControlTypes
    BY LeaseAssumption, StaleType DEF Init, ControlTypes, Steps
  <1> QED BY <1>1, <1>2, <1>3

\* The rows that EnsureKeeperSchema leaves, whatever stopped it.
LEMMA SchemaRows ==
    ASSUME RowTypes, NEW k \in Sites, EnsureKeeperSchema(k)
    PROVE  \E rows \in [Sites -> Rows] :
              /\ Write(rows)
              /\ \A c \in Sites :
                    /\ rows[c] \in {lease[c], Created(lease[c]), Seeded(lease[c])}
                    /\ writable[c] # "yes" => rows[c] = lease[c]
              /\ \/ Fault
                 \/ \A c \in Sites : writable[c] = "yes" => rows[c] = Seeded(lease[c])
  <1>1. CASE Write([c \in Sites |-> IF c \in DDLReaches THEN Seeded(lease[c]) ELSE lease[c]])
    <2> DEFINE rows == [c \in Sites |-> IF c \in DDLReaches THEN Seeded(lease[c]) ELSE lease[c]]
    <2>1. rows \in [Sites -> Rows]
      BY SchemaRow DEF RowTypes
    <2> QED BY <1>1, <2>1 DEF DDLReaches
  <1>2. ASSUME NEW c \in DDLReaches, NEW l \in {lease[c], Created(lease[c])}, Fault,
               Write([d \in Sites |-> IF d = c THEN l
                                      ELSE IF d \in DDLReaches THEN Seeded(lease[d])
                                      ELSE lease[d]])
        PROVE  \E rows \in [Sites -> Rows] :
                  /\ Write(rows)
                  /\ \A d \in Sites :
                        /\ rows[d] \in {lease[d], Created(lease[d]), Seeded(lease[d])}
                        /\ writable[d] # "yes" => rows[d] = lease[d]
                  /\ Fault
    <2> DEFINE rows == [d \in Sites |-> IF d = c THEN l
                                        ELSE IF d \in DDLReaches THEN Seeded(lease[d])
                                        ELSE lease[d]]
    <2>1. rows \in [Sites -> Rows]
      BY SchemaRow DEF RowTypes, DDLReaches
    <2> QED BY <1>2, <2>1 DEF DDLReaches
  <1> QED BY <1>1, <1>2 DEF EnsureKeeperSchema

LEMMA TypeFlags == ASSUME TypeOK, Next PROVE FlagTypes'
  <1> USE TypeParts, SitesOther DEF FlagTypes, dbVars, historyVars, SetWritable, Write
  <1>1. ASSUME NEW k \in Sites, Reconcile(k) \/ Crash(k) PROVE FlagTypes'
    <2>1. CASE EnsureKeeperSchema(k) BY <2>1 DEF EnsureKeeperSchema
    <2>2. CASE Heartbeat(k) BY <2>2 DEF Heartbeat
    <2>3. CASE \/ HeartbeatSkipped(k) \/ NoSwitch(k) \/ GatePasses(k) \/ GateDenies(k)
               \/ Requeue(k) \/ PreFlight(k) \/ Routing(k) \/ Crash(k)
      BY <2>3 DEF HeartbeatSkipped, NoSwitch, GatePasses, GateDenies, Requeue, PreFlight,
             Routing, Crash
    <2>4. CASE Fence(k) BY <2>4 DEF Fence
    <2>5. CASE Promote(k) BY <2>5 DEF Promote
    <2>6. CASE StopReplica(k) BY <2>6 DEF StopReplica
    <2>7. CASE Rollback(k) BY <2>7 DEF Rollback, Undo
    <2> QED BY <1>1, <2>1, <2>2, <2>3, <2>4, <2>5, <2>6, <2>7 DEF Reconcile
  <1>2. ASSUME NEW c \in Sites, Fetch(c) \/ Apply(c) \/ Resubscribe(c) PROVE FlagTypes'
    BY <1>2 DEF Fetch, Apply, Resubscribe
  <1>3. CASE Tick BY <1>3 DEF Tick
  <1> QED BY <1>1, <1>2, <1>3 DEF Next

LEMMA TypeRows == ASSUME TypeOK, Next PROVE RowTypes'
  <1> USE TypeParts, SitesOther DEF RowTypes, dbVars
  <1>1. ASSUME NEW k \in Sites, Reconcile(k) \/ Crash(k) PROVE RowTypes'
    <2>1. CASE EnsureKeeperSchema(k)
      BY <2>1, SchemaRows DEF EnsureKeeperSchema, Write
    <2>2. CASE Heartbeat(k)
      BY <2>2, AcquiredRow DEF Heartbeat, HeartbeatWrites
    <2>3. CASE \/ HeartbeatSkipped(k) \/ NoSwitch(k) \/ GatePasses(k) \/ GateDenies(k)
               \/ Requeue(k) \/ PreFlight(k) \/ Routing(k) \/ Crash(k)
               \/ Fence(k) \/ Promote(k) \/ Rollback(k)
      BY <2>3 DEF HeartbeatSkipped, NoSwitch, GatePasses, GateDenies, Requeue, PreFlight,
             Routing, Crash, Fence, Promote, Rollback, Undo
    <2>4. CASE StopReplica(k) BY <2>4 DEF StopReplica
    <2> QED BY <1>1, <2>1, <2>2, <2>3, <2>4 DEF Reconcile
  <1>2. ASSUME NEW c \in Sites, Fetch(c) PROVE RowTypes'
    BY <1>2 DEF Fetch
  <1>3. ASSUME NEW c \in Sites, Apply(c) PROVE RowTypes'
    BY <1>3, ReplicatedRow DEF Apply
  <1>4. ASSUME NEW c \in Sites, Resubscribe(c) PROVE RowTypes'
    BY <1>4 DEF Resubscribe
  <1>5. CASE Tick BY <1>5, AgedRow, NoEventIs DEF Tick
  <1> QED BY <1>1, <1>2, <1>3, <1>4, <1>5 DEF Next

LEMMA TypeControl == ASSUME TypeOK, Next PROVE ControlTypes'
  <1> USE TypeParts, SitesOther, LeaseAssumption, StaleType
      DEF ControlTypes, historyVars, Goto, Fault, NoFault, SetWritable
  <1>1. ASSUME NEW k \in Sites, Reconcile(k) \/ Crash(k) PROVE ControlTypes'
    <2>1. CASE EnsureKeeperSchema(k) BY <2>1 DEF EnsureKeeperSchema, Steps
    <2>2. CASE Heartbeat(k) BY <2>2 DEF Heartbeat, Steps
    <2>3. CASE HeartbeatSkipped(k) BY <2>3 DEF HeartbeatSkipped, Steps
    <2>4. CASE NoSwitch(k) BY <2>4 DEF NoSwitch, Steps
    <2>5. CASE GatePasses(k) BY <2>5 DEF GatePasses, Steps
    <2>6. CASE GateDenies(k) BY <2>6 DEF GateDenies, Steps
    <2>7. CASE Requeue(k) BY <2>7 DEF Requeue, Steps
    <2>8. CASE PreFlight(k) BY <2>8 DEF PreFlight, Steps
    <2>9. CASE Fence(k) BY <2>9 DEF Fence, Steps
    <2>10. CASE Promote(k) BY <2>10 DEF Promote, Steps
    <2>11. CASE StopReplica(k) BY <2>11 DEF StopReplica, Steps
    <2>12. CASE Routing(k) BY <2>12 DEF Routing, Steps
    <2>13. CASE Rollback(k) BY <2>13 DEF Rollback, Undo, Steps
    <2>14. CASE Crash(k) BY <2>14 DEF Crash, Steps
    <2> QED BY <1>1, <2>1, <2>2, <2>3, <2>4, <2>5, <2>6, <2>7, <2>8, <2>9, <2>10, <2>11,
               <2>12, <2>13, <2>14 DEF Reconcile
  <1>2. ASSUME NEW c \in Sites, Fetch(c) \/ Apply(c) \/ Resubscribe(c) PROVE ControlTypes'
    BY <1>2 DEF Fetch, Apply, Resubscribe
  <1>3. CASE Tick
    <2>1. \A k \in Sites : Older(beat[k]) \in 0 .. Stale
      BY DEF Older
    <2> QED BY <1>3, <2>1 DEF Tick
  <1> QED BY <1>1, <1>2, <1>3 DEF Next

LEMMA TypeStep == ASSUME TypeOK, [Next]_vars PROVE TypeOK'
  <1>1. CASE Next
    <2>1. FlagTypes' /\ RowTypes' /\ ControlTypes'
      BY <1>1, TypeFlags, TypeRows, TypeControl
    <2> QED BY <2>1 DEF TypeOK, FlagTypes, RowTypes, ControlTypes
  <1>2. CASE UNCHANGED vars
    BY <1>2 DEF TypeOK, vars, dbVars, historyVars
  <1> QED BY <1>1, <1>2

\* Every reachable state is well typed: in particular the row of keeper.leader
\* keeps its shape through DDL that stops halfway, takeovers and replication
\* over it (EnsureLeaderLeaseSchema, AcquireOrRenewLease).
THEOREM LeaseTypes == Spec => []TypeOK
  BY TypeInit, TypeStep, PTL DEF Spec

-----------------------------------------------------------------------------
(***************************************************************************)
(* The fresh lease. The gate reads the row, the property speaks of the     *)
(* heartbeat: the invariant ties the two together for a cluster that has   *)
(* been writable since the heartbeat, unless replication wrote over it.    *)
(***************************************************************************)

BeatInRow(c) ==
    beat[c] < Stale =>
        /\ writable[c] = "yes"
        /\ c \in clobbered \/ (lease[c].owner = c /\ lease[c].age = beat[c])

BeatInv == TypeOK /\ \A c \in Sites : BeatInRow(c)

LEMMA BeatInit == Init => BeatInv
  <1> SUFFICES ASSUME Init PROVE BeatInv
    OBVIOUS
  <1> QED BY TypeInit, StaleType DEF Init, BeatInv, BeatInRow

\* A step that leaves the row, the heartbeat and the switch of c alone keeps the
\* link, and so does one that fences c.
LEMMA BeatFrame ==
    ASSUME NEW c \in Sites, BeatInRow(c), clobbered \subseteq clobbered',
           \/ /\ beat'[c] = beat[c] /\ (writable[c] = "yes" => writable'[c] = "yes")
              /\ lease'[c].owner = lease[c].owner /\ lease'[c].age = lease[c].age
           \/ beat'[c] = Stale
    PROVE  BeatInRow(c)'
  BY StaleType DEF BeatInRow

LEMMA BeatStep == ASSUME BeatInv, Next PROVE \A c \in Sites : BeatInRow(c)'
  <1> USE StaleType, SitesOther DEF BeatInv
  <1>0. FlagTypes /\ RowTypes /\ ControlTypes
    BY TypeParts
  <1>1. ASSUME NEW k \in Sites, Reconcile(k) \/ Crash(k), NEW c \in Sites
        PROVE  BeatInRow(c)'
    <2> USE <1>0 DEF dbVars, historyVars
    <2>1. CASE EnsureKeeperSchema(k)
      <3>1. PICK rows \in [Sites -> Rows] :
               /\ lease' = rows
               /\ rows[c] \in {lease[c], Created(lease[c]), Seeded(lease[c])}
        BY <2>1, SchemaRows DEF Write
      <3>2. lease[c].owner = c => lease'[c] = lease[c]
        <4>1. lease[c] \in Rows /\ c \in Sites
          BY DEF RowTypes
        <4>2. \A r \in {Created(lease[c]), Seeded(lease[c])} :
                 lease[c].owner \in Sites => r = lease[c]
          BY <4>1, SchemaRow
        <4> QED BY <3>1, <4>1, <4>2
      <3> QED BY <2>1, <3>2 DEF EnsureKeeperSchema, BeatInRow
    <2>2. CASE Heartbeat(k)
      <3>1. CASE c = k
        BY <2>2, <3>1, AcquiredRow
        DEF Heartbeat, HeartbeatWrites, BeatInRow, RowTypes, ControlTypes
      <3>2. CASE c # k
        BY <2>2, <3>2, BeatFrame DEF Heartbeat, RowTypes, ControlTypes
      <3> QED BY <3>1, <3>2
    <2>3. CASE \/ HeartbeatSkipped(k) \/ NoSwitch(k) \/ GatePasses(k) \/ GateDenies(k)
               \/ Requeue(k) \/ PreFlight(k) \/ Routing(k) \/ Crash(k) \/ StopReplica(k)
      BY <2>3, BeatFrame DEF HeartbeatSkipped, NoSwitch, GatePasses, GateDenies, Requeue,
             PreFlight, Routing, Crash, StopReplica
    <2>a. ASSUME NEW d \in Sites, NEW w \in {"yes", "no"}, SetWritable(d, w),
                 UNCHANGED <<lease, clobbered>>
          PROVE  BeatInRow(c)'
      <3>1. CASE c = d /\ w = "no"
        BY <2>a, <3>1, BeatFrame DEF SetWritable, ControlTypes
      <3>2. CASE c # d \/ w = "yes"
        <4>1. beat'[c] = beat[c] /\ (writable[c] = "yes" => writable'[c] = "yes")
          BY <2>a, <3>2 DEF SetWritable, ControlTypes, FlagTypes
        <4> QED BY <2>a, <4>1, BeatFrame
      <3> QED BY <3>1, <3>2
    <2>4. CASE Fence(k)
      <3>1. \/ UNCHANGED <<writable, beat>>
            \/ \E w \in {"yes", "no"} : SetWritable(k, w)
        BY <2>4 DEF Fence, FlagTypes
      <3> QED BY <2>4, <2>a, <3>1, BeatFrame DEF Fence
    <2>5. CASE Promote(k)
      <3>1. \E w \in {"yes", "no"} : SetWritable(Remote(k), w)
        BY <2>5 DEF Promote, FlagTypes
      <3> QED BY <2>5, <2>a, <3>1 DEF Promote
    <2>6. CASE Rollback(k)
      <3>1. \/ UNCHANGED <<writable, beat>>
            \/ \E d \in Sites, w \in {"yes", "no"} : SetWritable(d, w)
        BY <2>6 DEF Rollback, Undo
      <3> QED BY <2>6, <2>a, <3>1, BeatFrame DEF Rollback, Undo
    <2> QED BY <1>1, <2>1, <2>2, <2>3, <2>4, <2>5, <2>6 DEF Reconcile
  <1>2. ASSUME NEW d \in Sites, Fetch(d) \/ Resubscribe(d), NEW c \in Sites
        PROVE  BeatInRow(c)'
    BY <1>2, BeatFrame DEF Fetch, Resubscribe, historyVars
  <1>3. ASSUME NEW d \in Sites, Apply(d), NEW c \in Sites PROVE BeatInRow(c)'
    <2>1. CASE c = d
      BY <1>0, <1>3, <2>1 DEF Apply, BeatInRow, FlagTypes
    <2>2. CASE c # d
      BY <1>0, <1>3, <2>2, BeatFrame DEF Apply, RowTypes
    <2> QED BY <2>1, <2>2
  <1>4. ASSUME Tick, NEW c \in Sites PROVE BeatInRow(c)'
    <2>1. /\ lease'[c].owner = lease[c].owner
          /\ lease'[c].age = Older(lease[c].age) /\ beat'[c] = Older(beat[c])
      BY <1>0, <1>4, AgedRow DEF Tick, RowTypes
    <2>2. beat[c] \in 0 .. Stale /\ (beat'[c] < Stale => beat[c] < Stale)
      BY <1>0, <2>1 DEF ControlTypes, Older
    <2> QED BY <1>4, <2>1, <2>2 DEF Tick, BeatInRow
  <1> QED BY <1>1, <1>2, <1>3, <1>4 DEF Next

LEMMA BeatAlways == Spec => []BeatInv
  <1>1. ASSUME BeatInv, [Next]_vars PROVE BeatInv'
    <2>1. TypeOK'
      BY <1>1, TypeStep DEF BeatInv
    <2>2. CASE Next
      BY <1>1, <2>1, <2>2, BeatStep DEF BeatInv
    <2>3. CASE UNCHANGED vars
      BY <1>1, <2>1, <2>3 DEF BeatInv, BeatInRow, vars, dbVars, historyVars
    <2> QED BY <1>1, <2>2, <2>3
  <1> QED BY BeatInit, <1>1, PTL DEF Spec

\* The gate of one controller lets no attempt through while the heartbeat of the
\* other is fresh on the cluster it would promote, for any TTL and clock
\* difference, through faults, controller stops and interleaved attempts, unless
\* replication wrote over the row (decideSwitchover, CheckPeerLease,
\* AcquireOrRenewLease).
THEOREM FreshLeaseHolds == Spec => FreshSourceNotTaken
  <1>1. ASSUME BeatInv, [Next]_vars, NEW k \in Sites,
               pc[k] = "decide", pc'[k] = "PreFlight"
        PROVE  beat[Remote(k)] + Skew > TTL \/ Remote(k) \in clobbered
    <2> DEFINE r == Remote(k)
    <2>0. FlagTypes /\ RowTypes /\ ControlTypes /\ r \in Sites
      BY <1>1, TypeParts, SitesOther DEF BeatInv
    <2>1. GatePasses(k)
      <3>1. Next
        BY <1>1 DEF vars
      <3>2. \A j \in Sites : Reconcile(j) \/ Crash(j) => j = k
        BY <1>1, <2>0 DEF ControlTypes, Reconcile, Crash, EnsureKeeperSchema, Heartbeat,
           HeartbeatSkipped, NoSwitch, GatePasses, GateDenies, Requeue, PreFlight, Fence,
           Promote, StopReplica, Routing, Rollback, Undo, Goto
      <3>3. Reconcile(k) \/ Crash(k)
        BY <1>1, <3>1, <3>2 DEF Next, Fetch, Apply, Resubscribe, Tick
      <3> QED BY <1>1, <2>0, <3>3 DEF ControlTypes, Reconcile, Crash, EnsureKeeperSchema,
           Heartbeat, HeartbeatSkipped, NoSwitch, GateDenies, Requeue, PreFlight, Fence,
           Promote, StopReplica, Routing, Rollback, Undo, Goto
    <2>2. lease[r].owner = r => MayBeExpired(lease[r])
      BY <2>0, <2>1, SitesOther DEF GatePasses, MayPromote, Sites
    <2>3. lease[r].age = beat[r] /\ lease[r].owner = r => beat[r] + Skew > TTL
      BY <2>2 DEF MayBeExpired
    <2>4. lease[r].owner # r => ~(beat[r] < Stale) \/ r \in clobbered
      BY <1>1, <2>0 DEF BeatInv, BeatInRow
    <2>5. ~(beat[r] < Stale) => beat[r] + Skew > TTL
      BY <2>0, LeaseAssumption DEF ControlTypes, Stale
    <2> QED BY <1>1, <2>0, <2>3, <2>4, <2>5 DEF BeatInv, BeatInRow
  <1>2. BeatInv /\ [Next]_vars =>
           [\A k \in Sites : (pc[k] = "decide" /\ pc'[k] = "PreFlight") =>
                beat[Remote(k)] + Skew > TTL \/ Remote(k) \in clobbered]_vars
    BY <1>1
  <1> QED BY BeatAlways, <1>2, PTL DEF Spec, FreshSourceNotTaken

-----------------------------------------------------------------------------
(***************************************************************************)
(* The epoch of the new source, as long as nothing has failed. The two     *)
(* engines may overlap, so several facts are about both clusters at once.  *)
(***************************************************************************)

\* Row x, of the other cluster or on its way there, is superseded by row l of c.
Before(x, l, c) ==
    /\ x.epoch <= l.epoch
    /\ l.owner = c /\ x.owner = Remote(c) => x.epoch < l.epoch

\* Only a takeover gives a row an epoch, and no DDL has stopped halfway.
EpochOwned(c) ==
    /\ lease[c].owner # "no row" /\ relay[c].owner \notin {"no table", "no row"}
    /\ lease[c].owner \notin Sites => lease[c].epoch = 0
    /\ relay[c].owner \notin Sites => relay[c].epoch = 0

\* An event that is fetched and not applied is a write that is missing.
EventPending(c) == relay[c] # NoEvent => behind[c] = "yes" /\ follows[c] = "yes"

\* A cluster that lacks nothing, or that alone accepts writes, supersedes the
\* other one, and always what the other one has fetched.
Supersedes(c) ==
    /\ behind[c] = "no" => Before(lease[Remote(c)], lease[c], c)
    /\ writable[c] = "yes" /\ writable[Remote(c)] = "no" =>
          Before(lease[Remote(c)], lease[c], c)
    /\ Before(relay[Remote(c)], lease[c], c)

\* What PreFlight found stays true: only this engine writes on either cluster.
PreFlightHolds(k) ==
    /\ pc[k] \in {"Fence", "Promote", "StopReplica"} => behind[Remote(k)] = "no"
    /\ pc[k] \in {"Fence", "Promote"} => writable[Remote(k)] = "no"
    /\ pc[k] \notin {"undoPromote", "undoFence"}

\* A cluster goes on following after its promotion only until StopReplica, and
\* so do two clusters that follow each other.
FollowsBriefly(c) ==
    /\ follows[c] = "yes" /\ writable[c] = "yes" => pc[Remote(c)] = "StopReplica"
    /\ follows[c] = "yes" /\ follows[Remote(c)] = "yes" =>
          pc[c] = "StopReplica" \/ pc[Remote(c)] = "StopReplica"

\* The table is everywhere before the first attempt gets past PreFlight.
Tabled(c) == lease[c].owner # "no table"

TablesFirst ==
    /\ \/ \A c \in Sites : Tabled(c)
       \/ /\ writable["dc"] = "yes" /\ writable["dr"] = "no"
          /\ \A k \in Sites : pc[k] \notin {"Fence", "Promote", "StopReplica"}
    /\ Tabled("dr") => Tabled("dc")
    /\ \A c \in Sites : pc[c] = "PreFlight" => Tabled(Remote(c))
    /\ \A c \in Sites : behind[c] = "yes" => Tabled(Remote(c))

EpochFacts ==
    /\ \A c \in Sites : /\ EpochOwned(c) /\ EventPending(c) /\ Supersedes(c)
                        /\ PreFlightHolds(c) /\ FollowsBriefly(c)
    /\ TablesFirst

EpochInv == TypeOK /\ (faults = 0 => EpochFacts)

\* Facts about Before, which looks at owners and epochs only.
LEMMA EpochNat ==
    ASSUME RowTypes, NEW c \in Sites
    PROVE  /\ lease[c] \in Rows /\ lease[c].epoch \in Nat
           /\ relay[c] \in Rows \cup {NoEvent} /\ relay[c].epoch \in Nat
  <1>1. \A l \in Rows : l.epoch \in Nat
    BY RowsAre, LeaseAssumption
  <1>2. NoEvent.epoch = 0
    BY NoEventIs, Zenon
  <1> QED BY <1>1, <1>2 DEF RowTypes

LEMMA BeforeSelf ==
    ASSUME NEW x \in Rows, NEW c \in Sites PROVE Before(x, x, c)
  <1>1. x.epoch \in Nat
    BY RowsAre, LeaseAssumption
  <1> QED BY <1>1, SitesOther DEF Before

LEMMA BeforeZero ==
    ASSUME NEW x, NEW l, NEW c \in Sites,
           x.epoch = 0, x.owner \notin Sites, l.epoch \in Nat
    PROVE  Before(x, l, c)
  BY SitesOther DEF Before

LEMMA BeforeAcquired ==
    ASSUME NEW x, NEW l \in Rows, NEW c \in Sites, x.epoch \in Nat, Before(x, l, c),
           Renewable(l, c) \/ Available(l)
    PROVE  Before(x, AcquireOrRenew(l, c), c)
  <1>1. l.epoch \in Nat
    BY RowsAre, LeaseAssumption
  <1> QED BY <1>1, AcquiredRow DEF Before

LEMMA BeforeSame ==
    ASSUME NEW x, NEW y, NEW l, NEW m, NEW c, Before(x, l, c),
           x.epoch = y.epoch, x.owner = y.owner, l.epoch = m.epoch, l.owner = m.owner
    PROVE  Before(y, m, c)
  BY DEF Before

\* The DDL and the seed disturb neither side.
LEMMA BeforeSchema ==
    ASSUME NEW x, NEW l \in Rows, NEW c \in Sites, Before(x, l, c), x.epoch \in Nat,
           l.owner \notin Sites => l.epoch = 0,
           NEW r \in {l, Created(l), Seeded(l)}
    PROVE  Before(x, r, c)
  <1>1. CASE r = l
    BY <1>1
  <1>2. CASE r # l
    <2>1. r.owner \notin Sites /\ r.epoch = 0 /\ l.owner \notin Sites
      BY <1>2, SchemaRow
    <2> QED BY <2>1 DEF Before
  <1> QED BY <1>1, <1>2

LEMMA SchemaBefore ==
    ASSUME NEW x \in Rows, NEW l, NEW c \in Sites, Before(x, l, c), l.epoch \in Nat,
           NEW r \in {x, Created(x), Seeded(x)}
    PROVE  Before(r, l, c)
  <1>1. CASE r = x
    BY <1>1
  <1>2. CASE r # x
    <2>1. r.owner \notin Sites /\ r.epoch = 0
      BY <1>2, SchemaRow
    <2> QED BY <2>1, BeforeZero
  <1> QED BY <1>1, <1>2

LEMMA EpochInit == Init => EpochInv
  <1> SUFFICES ASSUME Init PROVE EpochFacts
    BY TypeInit DEF EpochInv
  <1>1. \A c \in Sites : /\ lease[c] = NoTable /\ relay[c] = NoEvent /\ behind[c] = "no"
                         /\ pc[c] = "idle"
    BY DEF Init
  <1>2. \A c \in Sites : EpochOwned(c) /\ EventPending(c)
    BY <1>1, FixedRows, NoEventIs DEF EpochOwned, EventPending
  <1>3. ASSUME NEW c \in Sites PROVE Supersedes(c)
    <2>1. NoTable.epoch = 0 /\ NoTable.owner \notin Sites
      BY FixedRows, Zenon
    <2>a. NoEvent.epoch = 0 /\ NoEvent.owner \notin Sites
      BY NoEventIs, Zenon
    <2>2. Before(NoTable, NoTable, c)
      BY <2>1, BeforeZero
    <2>3. Before(NoEvent, NoTable, c)
      BY <2>1, <2>a, BeforeZero
    <2> QED BY <1>1, <2>2, <2>3, SitesOther DEF Supersedes
  <1>4. \A c \in Sites : PreFlightHolds(c)
    BY <1>1 DEF PreFlightHolds
  <1>5. \A c \in Sites : FollowsBriefly(c)
    BY DEF Init, FollowsBriefly, Sites, Remote
  <1>6. TablesFirst
    BY <1>1, FixedRows DEF Init, TablesFirst, Tabled, Sites, Remote
  <1> QED BY <1>2, <1>3, <1>4, <1>5, <1>6 DEF EpochFacts

\* The parts of the invariant that are about rows and channels only, and the
\* parts that also know where the engines are.
RowFacts(c) == EpochOwned(c) /\ EventPending(c) /\ Supersedes(c)

EngineFacts(c) == PreFlightHolds(c) /\ FollowsBriefly(c)

LEMMA OwnedFrame ==
    ASSUME NEW c \in Sites, EpochOwned(c), UNCHANGED <<lease, relay>> PROVE EpochOwned(c)'
  BY DEF EpochOwned

LEMMA RowFrame ==
    ASSUME NEW c \in Sites, RowFacts(c),
           UNCHANGED <<writable, follows, lease, relay, behind>>
    PROVE  RowFacts(c)'
  BY DEF RowFacts, EpochOwned, EventPending, Supersedes, Before

\* Steps that move one controller and leave the databases alone.
LEMMA EpochQuiet ==
    ASSUME TypeOK, EpochFacts, NEW k \in Sites, UNCHANGED dbVars,
           NEW s \in {"decide", "idle", "denied"}, pc[k] # "StopReplica", Goto(k, s)
    PROVE  EpochFacts'
  <1> USE SitesOther DEF TypeOK, EpochFacts, dbVars, Goto
  <1>1. ASSUME NEW c \in Sites PROVE RowFacts(c)'
    BY <1>1, RowFrame DEF RowFacts
  <1>2. ASSUME NEW c \in Sites PROVE EngineFacts(c)'
    BY DEF EngineFacts, PreFlightHolds, FollowsBriefly
  <1>3. TablesFirst'
    BY DEF TablesFirst, Tabled
  <1> QED BY <1>1, <1>2, <1>3 DEF RowFacts, EngineFacts

LEMMA EpochGate ==
    ASSUME TypeOK, EpochFacts, NEW k \in Sites, GatePasses(k)
    PROVE  EpochFacts'
  <1> USE SitesOther DEF TypeOK, EpochFacts, dbVars, Goto, GatePasses
  <1>1. ASSUME NEW c \in Sites PROVE RowFacts(c)'
    BY <1>1, RowFrame DEF RowFacts
  <1>2. ASSUME NEW c \in Sites PROVE EngineFacts(c)'
    BY DEF EngineFacts, PreFlightHolds, FollowsBriefly
  <1>3. Tabled(Remote(k))
    BY DEF MayPromote, Tabled, Sites
  <1>4. TablesFirst'
    BY <1>3 DEF TablesFirst, Tabled
  <1> QED BY <1>1, <1>2, <1>4 DEF RowFacts, EngineFacts

LEMMA EpochPreFlight ==
    ASSUME TypeOK, EpochFacts, NEW k \in Sites, PreFlight(k), NoFault, ~Fault
    PROVE  EpochFacts'
  <1> USE SitesOther DEF TypeOK, EpochFacts, dbVars, Goto
  <1>1. CASE Goto(k, "idle")
    BY <1>1, EpochQuiet DEF PreFlight
  <1>2. CASE Goto(k, "Fence")
    <2>0. /\ behind[Remote(k)] = "no" /\ writable[Remote(k)] = "no" /\ pc[k] = "PreFlight"
          /\ UNCHANGED dbVars
      BY <1>2 DEF PreFlight
    <2>1. ASSUME NEW c \in Sites PROVE RowFacts(c)'
      BY <2>0, RowFrame DEF RowFacts
    <2>2. ASSUME NEW c \in Sites PROVE EngineFacts(c)'
      BY <1>2, <2>0 DEF EngineFacts, PreFlightHolds, FollowsBriefly
    <2>3. \A c \in Sites : Tabled(c)
      BY <2>0 DEF TablesFirst, Sites, Remote
    <2>4. TablesFirst'
      BY <1>2, <2>0, <2>3 DEF TablesFirst, Tabled
    <2> QED BY <2>1, <2>2, <2>4 DEF RowFacts, EngineFacts
  <1> QED BY <1>1, <1>2 DEF PreFlight

LEMMA EpochFence ==
    ASSUME TypeOK, EpochFacts, NEW k \in Sites, Fence(k), ~Fault
    PROVE  EpochFacts'
  <1> USE SitesOther DEF TypeOK, EpochFacts, Goto, SetWritable
  <1>0. /\ pc[k] = "Fence" /\ Goto(k, "Promote")
        /\ writable' = [writable EXCEPT ![k] = "no"]
        /\ UNCHANGED <<follows, lease, relay, behind>>
    BY DEF Fence
  <1>1. writable[Remote(k)] = "no"
    BY <1>0 DEF PreFlightHolds
  <1>2. ASSUME NEW c \in Sites PROVE RowFacts(c)'
    BY <1>0, <1>1, OwnedFrame DEF RowFacts, EventPending, Supersedes
  <1>3. ASSUME NEW c \in Sites PROVE EngineFacts(c)'
    BY <1>0 DEF EngineFacts, PreFlightHolds, FollowsBriefly
  <1>4. TablesFirst'
    BY <1>0 DEF TablesFirst, Tabled
  <1> QED BY <1>2, <1>3, <1>4 DEF RowFacts, EngineFacts

LEMMA EpochPromote ==
    ASSUME TypeOK, EpochFacts, NEW k \in Sites, Promote(k), ~Fault
    PROVE  EpochFacts'
  <1> USE SitesOther DEF TypeOK, EpochFacts, Goto, SetWritable
  <1>0. /\ pc[k] = "Promote" /\ Goto(k, "StopReplica")
        /\ writable' = [writable EXCEPT ![Remote(k)] = "yes"]
        /\ UNCHANGED <<follows, lease, relay, behind>>
    BY DEF Promote
  <1>1. behind[Remote(k)] = "no"
    BY <1>0 DEF PreFlightHolds
  <1>2. ASSUME NEW c \in Sites PROVE RowFacts(c)'
    BY <1>0, <1>1, OwnedFrame DEF RowFacts, EventPending, Supersedes
  <1>3. ASSUME NEW c \in Sites PROVE EngineFacts(c)'
    <2>1. pc[Remote(k)] \notin {"Fence", "Promote"} \/ writable'[k] = "no"
      BY <1>0 DEF PreFlightHolds
    <2> QED BY <1>0, <2>1 DEF EngineFacts, PreFlightHolds, FollowsBriefly
  <1>4. TablesFirst'
    BY <1>0 DEF TablesFirst, Tabled
  <1> QED BY <1>2, <1>3, <1>4 DEF RowFacts, EngineFacts

LEMMA EpochStopReplica ==
    ASSUME TypeOK, EpochFacts, NEW k \in Sites, StopReplica(k), ~Fault
    PROVE  EpochFacts'
  <1> USE SitesOther DEF TypeOK, EpochFacts, Goto
  <1>0. /\ pc[k] = "StopReplica" /\ Goto(k, "Routing")
        /\ follows' = [follows EXCEPT ![Remote(k)] = "no"]
        /\ relay' = [relay EXCEPT ![Remote(k)] = NoEvent]
        /\ UNCHANGED <<writable, lease, behind>>
    BY DEF StopReplica
  <1>1. relay[Remote(k)] = NoEvent
    BY <1>0 DEF PreFlightHolds, EventPending
  <1>2. UNCHANGED relay
    BY <1>0, <1>1
  <1>3. ASSUME NEW c \in Sites PROVE RowFacts(c)'
    BY <1>0, <1>1, <1>2, OwnedFrame DEF RowFacts, EventPending, Supersedes
  <1>4. ASSUME NEW c \in Sites PROVE EngineFacts(c)'
    BY <1>0 DEF EngineFacts, PreFlightHolds, FollowsBriefly
  <1>5. TablesFirst'
    BY <1>0 DEF TablesFirst, Tabled
  <1> QED BY <1>3, <1>4, <1>5 DEF RowFacts, EngineFacts

LEMMA EpochHeartbeat ==
    ASSUME TypeOK, TypeOK', EpochFacts, NEW k \in Sites, Heartbeat(k)
    PROVE  EpochFacts'
  <1> USE SitesOther DEF EpochFacts, Goto
  <1> DEFINE a == AcquireOrRenew(lease[k], k)
  <1>0. /\ pc[k] = "heartbeat" /\ Goto(k, "decide") /\ writable[k] = "yes"
        /\ Renewable(lease[k], k) \/ Available(lease[k])
        /\ lease' = [lease EXCEPT ![k] = a] /\ behind' = [behind EXCEPT ![Remote(k)] = "yes"]
        /\ UNCHANGED <<writable, follows, relay>>
    BY DEF Heartbeat, HeartbeatWrites
  <1>t. FlagTypes /\ RowTypes /\ ControlTypes
    BY TypeParts
  <1>1. lease'[k] = a /\ a.owner = k /\ \A c \in Sites : c # k => lease'[c] = lease[c]
    BY <1>0, <1>t, AcquiredRow DEF RowTypes
  <1>2. Tabled(k)' /\ (\A c \in Sites : Tabled(c) => Tabled(c)')
    BY <1>1 DEF Tabled, Sites
  <1>3. ASSUME NEW c \in Sites PROVE EpochOwned(c)' /\ EventPending(c)'
    BY <1>0, <1>1, <1>t DEF EpochOwned, EventPending, FlagTypes, Sites
  <1>4. ASSUME NEW c \in Sites PROVE Supersedes(c)'
    <2>1. CASE c = k
      <3>1. ASSUME NEW x, x.epoch \in Nat, Before(x, lease[k], k) PROVE Before(x, lease'[k], k)
        BY <1>0, <1>1, <1>t, <3>1, BeforeAcquired, EpochNat
      <3>2. /\ lease'[Remote(k)] = lease[Remote(k)] /\ lease[Remote(k)].epoch \in Nat
            /\ relay'[Remote(k)] = relay[Remote(k)] /\ relay[Remote(k)].epoch \in Nat
            /\ behind'[k] = behind[k] /\ UNCHANGED writable
        BY <1>0, <1>1, <1>t, EpochNat DEF FlagTypes
      <3>3. Supersedes(k)
        OBVIOUS
      <3> HIDE DEF EpochFacts
      <3> QED BY <2>1, <3>1, <3>2, <3>3 DEF Supersedes
    <2>2. CASE c = Remote(k)
      <3>1. behind'[c] = "yes" /\ writable'[Remote(c)] = "yes"
        BY <1>0, <1>t, <2>2 DEF FlagTypes
      <3>2. Before(relay'[Remote(c)], lease'[c], c)
        BY <1>0, <1>1, <2>2 DEF Supersedes
      <3> QED BY <3>1, <3>2 DEF Supersedes
    <2> QED BY <2>1, <2>2
  <1>5. ASSUME NEW c \in Sites PROVE EngineFacts(c)'
    BY <1>0, <1>t DEF EngineFacts, PreFlightHolds, FollowsBriefly, FlagTypes, ControlTypes
  <1>6. TablesFirst'
    <2>1. /\ \/ \A c \in Sites : Tabled(c)'
             \/ /\ writable'["dc"] = "yes" /\ writable'["dr"] = "no"
                /\ \A j \in Sites : pc'[j] \notin {"Fence", "Promote", "StopReplica"}
      BY <1>0, <1>2, <1>t DEF TablesFirst, ControlTypes
    <2>2. Tabled("dr")' => Tabled("dc")'
      <3>1. CASE k = "dr"
        BY <1>0, <1>2, <3>1 DEF TablesFirst, Sites
      <3>2. CASE k = "dc"
        BY <1>2, <3>2
      <3> QED BY <3>1, <3>2 DEF Sites
    <2>3. \A c \in Sites : pc'[c] = "PreFlight" => Tabled(Remote(c))'
      BY <1>0, <1>2, <1>t DEF TablesFirst, ControlTypes
    <2>4. \A c \in Sites : behind'[c] = "yes" => Tabled(Remote(c))'
      BY <1>0, <1>2, <1>t DEF TablesFirst, FlagTypes
    <2> QED BY <2>1, <2>2, <2>3, <2>4 DEF TablesFirst
  <1> QED BY <1>3, <1>4, <1>5, <1>6 DEF RowFacts, EngineFacts

\* EnsureKeeperSchema changes a row only while some cluster has no table, when
\* no engine is past PreFlight.
LEMMA EpochSchema ==
    ASSUME TypeOK, TypeOK', EpochFacts, NEW k \in Sites, EnsureKeeperSchema(k), ~Fault
    PROVE  EpochFacts'
  <1> USE SitesOther DEF EpochFacts, Goto
  <1>t. FlagTypes /\ RowTypes /\ ControlTypes
    BY TypeParts
  <1>0. PICK rows \in [Sites -> Rows] :
           /\ Write(rows)
           /\ \A c \in Sites :
                 /\ rows[c] \in {lease[c], Created(lease[c]), Seeded(lease[c])}
                 /\ writable[c] # "yes" => rows[c] = lease[c]
                 /\ writable[c] = "yes" => rows[c] = Seeded(lease[c])
    BY <1>t, SchemaRows, Zenon
  <1>1. /\ pc[k] = "idle" /\ Goto(k, "heartbeat") /\ UNCHANGED <<writable, follows, relay>>
        /\ lease' = rows
        /\ \A c \in Sites : behind'[c] = IF rows[Remote(c)] # lease[Remote(c)]
                                         THEN "yes" ELSE behind[c]
    BY <1>0 DEF EnsureKeeperSchema, Write
  <1>2. ASSUME NEW c \in Sites
        PROVE  /\ Tabled(c) => Tabled(c)'
               /\ lease'[c] # lease[c] => Tabled(c)' /\ ~Tabled(c)
               /\ writable[c] = "yes" => Tabled(c)'
               /\ lease'[c] # lease[c] =>
                     lease'[c].owner \notin Sites /\ lease'[c].epoch = 0
    <2>1. lease[c] \in Rows /\ lease'[c] = rows[c]
      BY <1>1, <1>t DEF RowTypes
    <2>2. CASE writable[c] = "yes"
      <3>1. lease'[c] = Seeded(lease[c])
        BY <1>0, <2>1, <2>2
      <3>2. Seeded(lease[c]).owner # "no table"
        BY <2>1, SeedRowTabled
      <3>3. Seeded(lease[c]) # lease[c] =>
               /\ Seeded(lease[c]).owner \notin Sites /\ Seeded(lease[c]).epoch = 0
        BY <2>1, SchemaRow
      <3>4. Tabled(c) => Seeded(lease[c]) = lease[c]
        BY <2>1, SeedRowTabled DEF Tabled, EpochOwned
      <3> QED BY <3>1, <3>2, <3>3, <3>4 DEF Tabled
    <2>3. CASE writable[c] # "yes"
      BY <1>0, <2>1, <2>3 DEF Tabled
    <2> QED BY <2>2, <2>3
  <1>o. ASSUME NEW c \in Sites PROVE lease'[c].owner # "no row"
    <2>1. lease[c] \in Rows /\ lease'[c] = rows[c]
      BY <1>1, <1>t DEF RowTypes
    <2>2. rows[c] = lease[c] \/ rows[c] = Seeded(lease[c])
      BY <1>0
    <2>3. lease[c].owner # "no row"
      BY DEF EpochOwned
    <2>4. Seeded(lease[c]).owner # "no row"
      BY <2>1, SeedRowTabled
    <2> QED BY <2>1, <2>2, <2>3, <2>4
  <1>3. ASSUME NEW c \in Sites PROVE EpochOwned(c)' /\ EventPending(c)'
    <2>1. EpochOwned(c)'
      BY <1>1, <1>2, <1>o DEF EpochOwned
    <2> QED BY <1>1, <2>1 DEF EventPending
  <1>4. ASSUME NEW c \in Sites PROVE Supersedes(c)'
    <2>1. ASSUME NEW x, x.epoch \in Nat, Before(x, lease[c], c) PROVE Before(x, lease'[c], c)
      <3>1. lease[c] \in Rows /\ lease'[c] = rows[c]
        BY <1>1, <1>t DEF RowTypes
      <3>2. rows[c] \in {lease[c], Created(lease[c]), Seeded(lease[c])}
        BY <1>0
      <3>3. lease[c].owner \notin Sites => lease[c].epoch = 0
        BY DEF EpochOwned
      <3> HIDE DEF EpochFacts
      <3> QED BY <2>1, <3>1, <3>2, <3>3, BeforeSchema
    <2>2. Before(lease[Remote(c)], lease[c], c) => Before(lease'[Remote(c)], lease[c], c)
      <3>1. CASE lease'[Remote(c)] = lease[Remote(c)]
        BY <3>1
      <3>2. CASE lease'[Remote(c)] # lease[Remote(c)]
        BY <1>2, <1>t, <3>2, BeforeZero, EpochNat
      <3> QED BY <3>1, <3>2
    <2>3. lease'[Remote(c)].epoch \in Nat /\ relay[Remote(c)].epoch \in Nat
      <3>1. RowTypes'
        BY DEF TypeOK, RowTypes
      <3>2. \A l \in Rows : l.epoch \in Nat
        BY RowsAre, LeaseAssumption
      <3> QED BY <1>t, <3>1, <3>2, EpochNat DEF RowTypes
    <2>4. behind'[c] = "no" => behind[c] = "no"
      BY <1>1
    <2>5. Supersedes(c) /\ UNCHANGED <<writable, relay>>
      BY <1>1
    <2> HIDE DEF EpochFacts
    <2> QED BY <2>1, <2>2, <2>3, <2>4, <2>5 DEF Supersedes
  <1>5. ASSUME NEW c \in Sites PROVE EngineFacts(c)'
    <2>1. pc[c] \in {"Fence", "Promote", "StopReplica"} => behind'[Remote(c)] = behind[Remote(c)]
      BY <1>1, <1>2 DEF TablesFirst
    <2>2. pc'[c] # "heartbeat" => pc'[c] = pc[c]
      BY <1>1, <1>t DEF ControlTypes
    <2>3. \A d \in Sites : pc[d] = "StopReplica" => pc'[d] = "StopReplica"
      BY <1>1, <1>t DEF ControlTypes
    <2> QED BY <1>1, <2>1, <2>2, <2>3 DEF EngineFacts, PreFlightHolds, FollowsBriefly
  <1>6. TablesFirst'
    <2>1. \A c \in Sites : pc'[c] # "heartbeat" => pc'[c] = pc[c]
      BY <1>1, <1>t DEF ControlTypes
    <2>2. \/ \A c \in Sites : Tabled(c)'
          \/ /\ writable'["dc"] = "yes" /\ writable'["dr"] = "no"
             /\ \A j \in Sites : pc'[j] \notin {"Fence", "Promote", "StopReplica"}
      BY <1>1, <1>2, <2>1 DEF TablesFirst
    <2>3. Tabled("dr")' => Tabled("dc")'
      BY <1>1, <1>2 DEF TablesFirst, Sites
    <2>4. \A c \in Sites : pc'[c] = "PreFlight" => Tabled(Remote(c))'
      BY <1>2, <2>1 DEF TablesFirst
    <2>5. \A c \in Sites : behind'[c] = "yes" => Tabled(Remote(c))'
      BY <1>1, <1>2 DEF TablesFirst
    <2> QED BY <2>2, <2>3, <2>4, <2>5 DEF TablesFirst
  <1> QED BY <1>3, <1>4, <1>5, <1>6 DEF RowFacts, EngineFacts

LEMMA EpochFetch ==
    ASSUME TypeOK, EpochFacts, NEW d \in Sites, Fetch(d) PROVE EpochFacts'
  <1> USE SitesOther DEF EpochFacts
  <1>t. FlagTypes /\ RowTypes /\ ControlTypes
    BY TypeParts
  <1>1. /\ follows[d] = "yes" /\ behind[d] = "yes"
        /\ relay'[d] = lease[Remote(d)] /\ (\A c \in Sites : c # d => relay'[c] = relay[c])
        /\ UNCHANGED <<writable, follows, lease, behind, pc>>
    BY <1>t DEF Fetch, RowTypes
  <1>2. ASSUME NEW c \in Sites PROVE EpochOwned(c)'
    <2>1. CASE c = d
      <3>1. lease[Remote(d)].owner # "no table"
        BY <1>1 DEF TablesFirst, Tabled
      <3>2. EpochOwned(d) /\ EpochOwned(Remote(d))
        OBVIOUS
      <3> HIDE DEF EpochFacts
      <3> QED BY <1>1, <2>1, <3>1, <3>2 DEF EpochOwned
    <2>2. CASE c # d
      <3>1. EpochOwned(c)
        OBVIOUS
      <3> HIDE DEF EpochFacts
      <3> QED BY <1>1, <2>2, <3>1 DEF EpochOwned
    <2> QED BY <2>1, <2>2
  <1>3. ASSUME NEW c \in Sites PROVE EventPending(c)'
    BY <1>1 DEF EventPending
  <1>4. ASSUME NEW c \in Sites PROVE Supersedes(c)'
    <2>1. Before(relay'[Remote(c)], lease[c], c)
      <3>1. CASE Remote(c) = d
        <4>1. relay'[Remote(c)] = lease[c] /\ lease[c] \in Rows
          BY <1>1, <1>t, <3>1 DEF RowTypes
        <4> QED BY <4>1, BeforeSelf
      <3>2. CASE Remote(c) # d
        BY <1>1, <3>2 DEF Supersedes
      <3> QED BY <3>1, <3>2
    <2> QED BY <1>1, <2>1 DEF Supersedes
  <1>5. ASSUME NEW c \in Sites PROVE EngineFacts(c)'
    BY <1>1 DEF EngineFacts, PreFlightHolds, FollowsBriefly
  <1>6. TablesFirst'
    BY <1>1 DEF TablesFirst, Tabled
  <1> QED BY <1>2, <1>3, <1>4, <1>5, <1>6 DEF EngineFacts

\* A writable cluster has nothing to apply, and neither has the cluster that the
\* applying one was fetched from: rows only move towards a higher epoch.
LEMMA EpochApply ==
    ASSUME TypeOK, TypeOK', EpochFacts, NEW d \in Sites, Apply(d) PROVE EpochFacts'
  <1> USE SitesOther DEF EpochFacts
  <1> DEFINE r == Remote(d)
  <1> DEFINE e == relay[d]
  <1>t. FlagTypes /\ RowTypes /\ ControlTypes
    BY TypeParts
  <1>1. /\ e # NoEvent /\ e \in Rows /\ lease[d] \in Rows /\ lease[r] \in Rows
        /\ lease'[d] = Replicated(e, lease[d]) /\ lease'[r] = lease[r]
        /\ relay'[d] = NoEvent /\ relay'[r] = relay[r]
        /\ behind'[d] = "no" => lease[r] = e
        /\ behind'[r] = behind[r] /\ behind'[d] \in {"yes", "no"}
        /\ UNCHANGED <<writable, follows, pc>>
    BY <1>t DEF Apply, RowTypes, FlagTypes
  <1>2. behind[d] = "yes" /\ follows[d] = "yes"
    BY <1>1 DEF EventPending
  <1>3. writable[d] # "yes"
    BY <1>2 DEF FollowsBriefly, PreFlightHolds
  <1>4. relay[r] = NoEvent
    <2>1. CASE follows[r] = "yes"
      <3>1. pc[d] = "StopReplica" \/ pc[r] = "StopReplica"
        BY <1>2, <2>1 DEF FollowsBriefly
      <3>2. pc[d] = "StopReplica"
        BY <1>2, <3>1 DEF PreFlightHolds
      <3> QED BY <3>2 DEF PreFlightHolds, EventPending
    <2>2. CASE follows[r] # "yes"
      BY <2>2 DEF EventPending
    <2> QED BY <2>1, <2>2
  <1>5. lease'[d] = IF e.owner \in Sites THEN e ELSE Seeded(lease[d])
    <2>1. e.owner \notin {"no table", "no row"}
      BY DEF EpochOwned
    <2> QED BY <1>1, <2>1, ReplicatedWhole
  <1>6. e.owner \notin Sites => e.epoch = 0
    BY DEF EpochOwned
  <1>7. Tabled(r) /\ Tabled(d)' /\ Tabled(r)' /\ lease'[d].owner # "no row"
    <2>1. Tabled(r) /\ Tabled(r)'
      BY <1>1, <1>2 DEF TablesFirst, Tabled
    <2>2. Seeded(lease[d]).owner \notin {"no table", "no row"}
      BY <1>1, SeedRowTabled
    <2> QED BY <1>5, <2>1, <2>2 DEF Tabled, Sites
  <1>8. lease'[d].owner \notin Sites => lease'[d].epoch = 0
    <2>1. CASE e.owner \in Sites
      BY <1>5, <2>1
    <2>2. CASE e.owner \notin Sites
      <3>1. Seeded(lease[d]) = lease[d] \/ Seeded(lease[d]).epoch = 0
        BY <1>1, SchemaRow
      <3>2. lease[d].owner \notin Sites => lease[d].epoch = 0
        BY DEF EpochOwned
      <3> HIDE DEF EpochFacts
      <3> QED BY <1>5, <2>2, <3>1, <3>2
    <2> QED BY <2>1, <2>2
  <1>9. ASSUME NEW c \in Sites PROVE EpochOwned(c)' /\ EventPending(c)'
    <2>1. NoEvent.owner \notin Sites /\ NoEvent.owner \notin {"no table", "no row"}
      BY NoEventIs, Zenon
    <2>2. NoEvent.epoch = 0
      BY NoEventIs, Zenon
    <2>3. CASE c = d
      BY <1>1, <1>7, <1>8, <2>1, <2>2, <2>3 DEF EpochOwned, EventPending
    <2>4. CASE c = r
      BY <1>1, <2>4 DEF EpochOwned, EventPending
    <2> QED BY <2>3, <2>4
  <1>10. Supersedes(d)'
    <2>1. lease'[d].epoch \in Nat
      <3>1. RowTypes'
        BY DEF TypeOK, RowTypes
      <3>2. \A l \in Rows : l.epoch \in Nat
        BY RowsAre, LeaseAssumption
      <3> QED BY <3>1, <3>2 DEF RowTypes
    <2>2. Before(relay'[r], lease'[d], d)
      <3>1. NoEvent.epoch = 0 /\ NoEvent.owner \notin Sites
        BY NoEventIs, Zenon
      <3> QED BY <1>1, <1>4, <2>1, <3>1, BeforeZero
    <2>3. behind'[d] = "no" => Before(lease'[r], lease'[d], d)
      <3>1. CASE e.owner \in Sites
        BY <1>1, <1>5, <3>1, BeforeSelf
      <3>2. CASE e.owner \notin Sites
        <4>1. Before(e, lease'[d], d)
          BY <1>6, <2>1, <3>2, BeforeZero
        <4> QED BY <1>1, <4>1
      <3> QED BY <3>1, <3>2
    <2> QED BY <1>1, <1>3, <2>2, <2>3 DEF Supersedes
  <1>11. Supersedes(r)'
    <2>1. Before(e, lease[r], r)
      BY DEF Supersedes
    <2>2. Before(lease[d], lease[r], r) => Before(lease'[d], lease[r], r)
      <3>1. CASE e.owner \in Sites
        BY <1>5, <2>1, <3>1
      <3>2. CASE e.owner \notin Sites
        <4>1. lease[r].epoch \in Nat /\ r \in Sites
          BY <1>t, EpochNat
        <4> HIDE DEF EpochFacts
        <4> QED BY <1>1, <1>5, <3>2, <4>1, SchemaBefore
      <3> QED BY <3>1, <3>2
    <2>3. Supersedes(r) /\ Remote(r) = d
      OBVIOUS
    <2>4. Before(relay'[d], lease[r], r)
      <3>1. NoEvent.epoch = 0 /\ NoEvent.owner \notin Sites
        BY NoEventIs, Zenon
      <3> QED BY <1>1, <1>t, <3>1, BeforeZero, EpochNat
    <2> HIDE DEF EpochFacts
    <2> QED BY <1>1, <2>2, <2>3, <2>4 DEF Supersedes
  <1>12. ASSUME NEW c \in Sites PROVE EngineFacts(c)'
    <2>1. behind'[r] = behind[r] /\ pc[r] \notin {"Fence", "Promote", "StopReplica"}
      BY <1>1, <1>2 DEF PreFlightHolds
    <2> QED BY <1>1, <2>1 DEF EngineFacts, PreFlightHolds, FollowsBriefly
  <1>13. TablesFirst'
    BY <1>1, <1>7 DEF TablesFirst, Sites
  <1> QED BY <1>9, <1>10, <1>11, <1>12, <1>13 DEF EngineFacts

LEMMA EpochResubscribe ==
    ASSUME TypeOK, EpochFacts, NEW d \in Sites, Resubscribe(d) PROVE EpochFacts'
  <1> USE SitesOther DEF EpochFacts
  <1>t. FlagTypes /\ RowTypes /\ ControlTypes
    BY TypeParts
  <1>1. /\ writable[d] = "no" /\ writable[Remote(d)] = "yes"
        /\ follows'[d] = "yes" /\ (\A c \in Sites : c # d => follows'[c] = follows[c])
        /\ UNCHANGED <<writable, lease, relay, behind, pc>>
    BY <1>t DEF Resubscribe, FlagTypes
  <1>2. ASSUME NEW c \in Sites PROVE RowFacts(c)'
    BY <1>1, OwnedFrame DEF RowFacts, EventPending, Supersedes
  <1>3. ASSUME NEW c \in Sites PROVE EngineFacts(c)'
    BY <1>1 DEF EngineFacts, PreFlightHolds, FollowsBriefly
  <1>4. TablesFirst'
    BY <1>1 DEF TablesFirst, Tabled
  <1> QED BY <1>2, <1>3, <1>4 DEF RowFacts, EngineFacts

LEMMA EpochTick == ASSUME TypeOK, EpochFacts, Tick PROVE EpochFacts'
  <1> USE SitesOther DEF EpochFacts
  <1>t. FlagTypes /\ RowTypes /\ ControlTypes
    BY TypeParts
  <1>1. ASSUME NEW c \in Sites
        PROVE  /\ lease'[c].owner = lease[c].owner /\ lease'[c].epoch = lease[c].epoch
               /\ relay'[c].owner = relay[c].owner /\ relay'[c].epoch = relay[c].epoch
               /\ relay[c] = NoEvent => relay'[c] = NoEvent
    BY <1>t, AgedRow, NoEventIs DEF Tick, RowTypes
  <1>2. UNCHANGED <<writable, follows, behind, pc>>
    BY DEF Tick
  <1>3. ASSUME NEW c \in Sites PROVE RowFacts(c)'
    BY <1>1, <1>2 DEF RowFacts, EpochOwned, EventPending, Supersedes, Before
  <1>4. ASSUME NEW c \in Sites PROVE EngineFacts(c)'
    BY <1>2 DEF EngineFacts, PreFlightHolds, FollowsBriefly
  <1>5. TablesFirst'
    BY <1>1, <1>2 DEF TablesFirst, Tabled, Sites
  <1> QED BY <1>3, <1>4, <1>5 DEF RowFacts, EngineFacts

\* While the number of faults stays zero, no alternative that counts one is taken.
LEMMA EpochStep ==
    ASSUME EpochInv, TypeOK', Next, faults' = 0 PROVE EpochFacts'
  <1>0. TypeOK /\ faults \in Nat
    BY LeaseAssumption DEF EpochInv, TypeOK
  <1>1. ~Fault
    BY <1>0 DEF Fault
  <1>2. faults = 0
    BY <1>0, <1>1 DEF Next, Reconcile, Crash, EnsureKeeperSchema, Heartbeat,
       HeartbeatSkipped, NoSwitch, GatePasses, GateDenies, Requeue, PreFlight, Fence,
       Promote, StopReplica, Routing, Rollback, Undo, Fetch, Apply, Resubscribe, Tick,
       NoFault
  <1>3. EpochFacts
    BY <1>2 DEF EpochInv
  <1>4. ASSUME NEW k \in Sites, Reconcile(k) PROVE EpochFacts'
    <2>1. CASE HeartbeatSkipped(k) \/ NoSwitch(k) \/ GateDenies(k) \/ Requeue(k) \/ Routing(k)
      <3>1. /\ UNCHANGED dbVars /\ pc[k] # "StopReplica"
            /\ \E s \in {"decide", "idle", "denied"} : Goto(k, s)
        BY <1>1, <2>1 DEF HeartbeatSkipped, NoSwitch, GateDenies, Requeue, Routing
      <3> QED BY <1>0, <1>3, <3>1, EpochQuiet
    <2>2. CASE PreFlight(k)
      <3>1. NoFault
        BY <1>1, <2>2 DEF PreFlight
      <3> QED BY <1>0, <1>1, <1>3, <2>2, <3>1, EpochPreFlight
    <2>3. CASE Rollback(k)
      BY <1>3, <2>3 DEF Rollback, Undo, EpochFacts, PreFlightHolds
    <2> QED BY <1>0, <1>1, <1>3, <1>4, <2>1, <2>2, <2>3, EpochSchema, EpochHeartbeat,
               EpochGate, EpochFence, EpochPromote, EpochStopReplica DEF Reconcile
  <1>5. ASSUME NEW k \in Sites, Crash(k) PROVE EpochFacts'
    BY <1>1, <1>5 DEF Crash
  <1> QED BY <1>0, <1>3, <1>4, <1>5, EpochFetch, EpochApply, EpochResubscribe, EpochTick
      DEF Next

\* As long as no operation has failed and no controller has stopped, however the
\* two controllers, their attempts, the replication channels and the clock are
\* interleaved: of two clusters that each hold a row of their own controller, the
\* one that alone accepts writes has the higher epoch (AcquireOrRenewLease,
\* phasePromote).
THEOREM EpochOfNewSource == Spec => [](faults = 0 => NewSourceBumpsEpoch)
  <1>1. ASSUME EpochInv, [Next]_vars PROVE EpochInv'
    <2>1. TypeOK'
      BY <1>1, TypeStep DEF EpochInv
    <2>2. CASE Next
      BY <1>1, <2>1, <2>2, EpochStep DEF EpochInv
    <2>3. CASE UNCHANGED vars
      <3>1. EpochFacts => EpochFacts'
        <4>1. ASSUME NEW c \in Sites, RowFacts(c) PROVE RowFacts(c)'
          BY <2>3, <4>1, RowFrame DEF vars, dbVars
        <4>2. ASSUME NEW c \in Sites, EngineFacts(c) PROVE EngineFacts(c)'
          BY <2>3, <4>2 DEF vars, dbVars, EngineFacts, PreFlightHolds, FollowsBriefly
        <4>3. TablesFirst => TablesFirst'
          BY <2>3 DEF vars, dbVars, TablesFirst, Tabled
        <4> QED BY <4>1, <4>2, <4>3 DEF EpochFacts, RowFacts, EngineFacts
      <3> QED BY <1>1, <2>1, <2>3, <3>1 DEF EpochInv, vars
    <2> QED BY <1>1, <2>2, <2>3
  <1>2. EpochInv => (faults = 0 => NewSourceBumpsEpoch)
    <2> SUFFICES ASSUME EpochInv, faults = 0, NEW c \in Sites,
                        writable[c] = "yes", writable[Remote(c)] = "no",
                        lease[c].owner = c, lease[Remote(c)].owner = Remote(c)
                 PROVE  lease[c].epoch > lease[Remote(c)].epoch
      BY DEF NewSourceBumpsEpoch
    <2>1. Before(lease[Remote(c)], lease[c], c)
      BY DEF EpochInv, EpochFacts, Supersedes
    <2>2. RowTypes /\ Remote(c) \in Sites
      BY TypeParts, SitesOther DEF EpochInv
    <2> QED BY <2>1, <2>2, EpochNat DEF Before
  <1> QED BY EpochInit, <1>1, <1>2, PTL DEF Spec

=============================================================================
