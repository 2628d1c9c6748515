----------------------------- MODULE LeaderLease -----------------------------
(***************************************************************************)
(* The leader lease that keeps the controllers of the two clusters apart:  *)
(* the row of keeper.leader (internal/pxc/leader_lease.go), the heartbeat  *)
(* and the peer-lease gate of the reconciler, CheckPeerLease               *)
(* (internal/switchover/lease.go), and what the gate is there for: the     *)
(* Fence and Promote phases of the two engines, interleaved.               *)
(*                                                                         *)
(* One controller runs beside each cluster: controller k has cluster k as  *)
(* its local cluster and promotes the other one. A cluster has one row,    *)
(* written by the controllers while the cluster is writable, or by the     *)
(* replication channel through which it follows the other cluster. The     *)
(* channel holds at most one row event that is fetched and not yet         *)
(* applied.                                                                *)
(*                                                                         *)
(* A heartbeat is kept as its age, which the clock advances up to Stale.   *)
(* A controller compares a heartbeat written with the clock of a database  *)
(* with its own clock: the two differ by up to Skew, differently each time.*)
(***************************************************************************)
EXTENDS Naturals

CONSTANTS
    TTL,          \* leaseTTL, in units of the clock
    Skew,         \* how far a controller's clock and a database's can differ
    AllowDataLossFailover,  \* spec.allowDataLossFailover: "on" or "off"
    MaxEpoch,     \* bound: epochs of a lease
    MaxAttempts,  \* bound: attempts started by one controller
    MaxFaults     \* bound: failed operations and controller stops

ASSUME LeaseAssumption ==
    /\ AllowDataLossFailover \in {"on", "off"}
    /\ TTL \in Nat \ {0} /\ Skew \in Nat /\ MaxEpoch \in Nat \ {0}
    /\ MaxAttempts \in Nat /\ MaxFaults \in Nat

VARIABLES
    writable,  \* writable[c]: "yes" (read_only = OFF) or "no"
    follows,   \* follows[c]: "yes" while c replicates from the other cluster
    lease,     \* lease[c]: the row of keeper.leader on c
    relay,     \* relay[c]: the row event c has fetched and not applied
    behind,    \* behind[c]: "yes" while c lacks a write of the other cluster
    pc,        \* pc[k]: where the Reconcile of controller k is
    beat,      \* history: age of k's last heartbeat since its cluster became writable
    clobbered, \* history: clusters whose row was replicated over while writable
    attempts, faults

dbVars == <<writable, follows, lease, relay, behind>>
historyVars == <<beat, clobbered>>
vars == <<dbVars, pc, historyVars, attempts, faults>>

Sites == {"dc", "dr"}

Remote(k) == IF k = "dc" THEN "dr" ELSE "dc"

Stale == TTL + Skew + 1

\* LeaderLease.Expired, by a clock that may be ahead or behind.
MayBeExpired(l) == l.age + Skew > TTL

MayBeFresh(l) == l.age <= TTL + Skew

\* A row of keeper.leader. The owner also tells a missing table and a
\* missing row apart, which a SELECT answers differently.
Rows == [owner : {"no table", "no row", ""} \cup Sites, epoch : 0 .. MaxEpoch, age : 0 .. Stale]

NoTable == [owner |-> "no table", epoch |-> 0, age |-> Stale]
NoRow == [owner |-> "no row", epoch |-> 0, age |-> Stale]
\* Slip: the seed names an owner.
SeedRowOwned == [owner |-> "nobody", epoch |-> 0, age |-> Stale]

SeedRow == [owner |-> "", epoch |-> 0, age |-> Stale]

\* Nothing in the relay log.
NoEvent == [owner |-> "none", epoch |-> 0, age |-> Stale]

Steps == {"idle", "heartbeat", "decide", "denied",
          "PreFlight", "Fence", "Promote", "StopReplica", "Routing",
          "undoPromote", "undoFence"}

TypeOK ==
    /\ writable \in [Sites -> {"yes", "no"}] /\ follows \in [Sites -> {"yes", "no"}]
    /\ lease \in [Sites -> Rows] /\ relay \in [Sites -> Rows \cup {NoEvent}]
    /\ behind \in [Sites -> {"yes", "no"}] /\ pc \in [Sites -> Steps]
    /\ beat \in [Sites -> 0 .. Stale] /\ clobbered \subseteq Sites
    /\ attempts \in [Sites -> 0 .. MaxAttempts] /\ faults \in 0 .. MaxFaults

\* DC is the source, DR follows it, and the controllers have just been
\* installed: no cluster has the table.
Init ==
    /\ writable = [c \in Sites |-> IF c = "dc" THEN "yes" ELSE "no"]
    /\ follows = [c \in Sites |-> IF c = "dr" THEN "yes" ELSE "no"]
    /\ lease = [c \in Sites |-> NoTable] /\ relay = [c \in Sites |-> NoEvent]
    /\ behind = [c \in Sites |-> "no"]
    /\ pc = [k \in Sites |-> "idle"]
    /\ beat = [k \in Sites |-> Stale] /\ clobbered = {}
    /\ attempts = [k \in Sites |-> 0] /\ faults = 0

Goto(k, step) == pc' = [pc EXCEPT ![k] = step]

\* Statements on a cluster: a write leaves the other cluster behind, and
\* read_only is switched (the history starts anew on a fenced cluster).
Write(rows) ==
    /\ lease' = rows
    /\ behind' = [c \in Sites |-> IF rows[Remote(c)] # lease[Remote(c)] THEN "yes" ELSE behind[c]]

SetWritable(c, w) ==
    /\ writable' = [writable EXCEPT ![c] = w]
    /\ beat' = IF w = "no" THEN [beat EXCEPT ![c] = Stale] ELSE beat

Fault == faults < MaxFaults /\ faults' = faults + 1

NoFault == UNCHANGED faults

(***************************************************************************)
(* The row of keeper.leader.                                               *)
(***************************************************************************)

\* EnsureLeaderLeaseSchema: CREATE TABLE IF NOT EXISTS, then INSERT IGNORE.
Created(l) == IF l.owner = "no table" THEN NoRow ELSE l

Seeded(l) == IF l.owner \in {"no table", "no row"} THEN SeedRow ELSE l

\* AcquireOrRenewLease, one transaction under the row lock. A missing row is
\* seeded inside it; a missing table is an error, like a fresh row of the
\* other controller (ErrLeaseHeldElsewhere).
Renewable(l, k) == l.owner = k

\* Slip: an expired row is not taken over.
AvailableUnownedOnly(l) == l.owner \in {"", "no row"}

Available(l) == l.owner \in {"", "no row"} \/ (l.owner \in Sites /\ MayBeExpired(l))

HeldElsewhere(l, k) == l.owner = "no table" \/ (l.owner = Remote(k) /\ MayBeFresh(l))

\* Slip: a takeover keeps the epoch.
AcquireKeepsEpoch(l, k) ==
    IF Renewable(l, k) THEN [l EXCEPT !.age = 0]
    ELSE IF Available(l) THEN [owner |-> k, epoch |-> l.epoch, age |-> 0]
    ELSE l

AcquireOrRenew(l, k) ==
    IF Renewable(l, k) THEN [l EXCEPT !.age = 0]
    ELSE IF Available(l) THEN [owner |-> k, epoch |-> l.epoch + 1, age |-> 0]
    ELSE l

\* Slip: the row of another owner is safe whatever its age.
MayPromoteAnyAge(l, k) == l.owner # "no table"

\* CheckPeerLease: no row and our own row are safe, a read error is not, and
\* the row of another owner is safe once it has expired.
MayPromote(l, k) ==
    \/ l.owner \in {"no row", k}
    \/ l.owner \in {"", Remote(k)} /\ MayBeExpired(l)

MustNotPromote(l, k) ==
    \/ l.owner = "no table"
    \/ l.owner \in {"", Remote(k)} /\ MayBeFresh(l)

(***************************************************************************)
(* One Reconcile of controller k, up to the decision.                      *)
(***************************************************************************)

\* ensureKeeperSchema, on each cluster that is writable. The cache
\* schemaEnsured only skips DDL that would find the table there, and is left
\* out. An error is logged: the DDL stopped before the table, or before the
\* seed.
DDLReaches == {c \in Sites : writable[c] = "yes"}

EnsureKeeperSchema(k) ==
    /\ pc[k] = "idle" /\ Goto(k, "heartbeat")
    /\ \/ /\ NoFault
          /\ Write([c \in Sites |-> IF c \in DDLReaches THEN Seeded(lease[c]) ELSE lease[c]])
       \/ /\ Fault
          /\ \E c \in DDLReaches : \E l \in {lease[c], Created(lease[c])} :
                Write([d \in Sites |-> IF d = c THEN l
                                       ELSE IF d \in DDLReaches THEN Seeded(lease[d])
                                       ELSE lease[d]])
    /\ UNCHANGED <<writable, follows, relay, historyVars, attempts>>

\* heartbeatLeaderLease, on a local cluster that is writable. A health check
\* that did not see it writable, or an error of the transaction, is a fault
\* here; Reconcile goes on.
HeartbeatWrites(k) ==
    writable[k] = "yes" /\ (Renewable(lease[k], k) \/ Available(lease[k]))

Heartbeat(k) ==
    /\ pc[k] = "heartbeat" /\ Goto(k, "decide")
    /\ HeartbeatWrites(k)
    /\ AcquireOrRenew(lease[k], k).epoch <= MaxEpoch
    /\ lease' = [lease EXCEPT ![k] = AcquireOrRenew(@, k)]
    /\ behind' = [behind EXCEPT ![Remote(k)] = "yes"]
    /\ beat' = [beat EXCEPT ![k] = 0]
    /\ UNCHANGED <<writable, follows, relay, clobbered, attempts, faults>>

HeartbeatSkipped(k) ==
    /\ pc[k] = "heartbeat" /\ Goto(k, "decide")
    /\ \/ (writable[k] = "no" \/ HeldElsewhere(lease[k], k)) /\ NoFault
       \/ HeartbeatWrites(k) /\ Fault
    /\ UNCHANGED <<dbVars, historyVars, attempts>>

\* EvaluateSwitchover is modelled in Reconciler. Here it may answer either
\* way: a manual request makes it answer yes whatever the health checks say.
NoSwitch(k) ==
    /\ pc[k] = "decide" /\ Goto(k, "idle")
    /\ UNCHANGED <<dbVars, historyVars, attempts, faults>>

\* The peer-lease gate of decideSwitchover reads the row on the remote
\* cluster, the one it is about to promote.
GatePasses(k) ==
    /\ pc[k] = "decide" /\ Goto(k, "PreFlight")
    /\ MayPromote(lease[Remote(k)], k)
    /\ attempts[k] < MaxAttempts /\ attempts' = [attempts EXCEPT ![k] = @ + 1]
    /\ UNCHANGED <<dbVars, historyVars, faults>>

GateDenies(k) ==
    /\ pc[k] = "decide" /\ Goto(k, "denied")
    /\ \/ MustNotPromote(lease[Remote(k)], k) /\ NoFault
       \/ MayPromote(lease[Remote(k)], k) /\ Fault
    /\ UNCHANGED <<dbVars, historyVars, attempts>>

\* A denied Reconcile keeps the policy in Monitoring and is requeued.
Requeue(k) ==
    /\ pc[k] = "denied" /\ Goto(k, "idle")
    /\ UNCHANGED <<dbVars, historyVars, attempts, faults>>

(***************************************************************************)
(* The engine of controller k, by what it does to the two clusters.        *)
(***************************************************************************)

\* C1: the remote is reachable and read-only. C5 and C6: it has caught up
\* with the local cluster; with allowDataLossFailover, a local cluster that
\* cannot be asked does not fail the check. Any other check may fail.
PreFlight(k) ==
    /\ pc[k] = "PreFlight"
    /\ \/ /\ Goto(k, "Fence") /\ writable[Remote(k)] = "no"
          /\ \/ behind[Remote(k)] = "no" /\ NoFault
             \/ AllowDataLossFailover = "on" /\ Fault
       \/ Goto(k, "idle") /\ NoFault
    /\ UNCHANGED <<dbVars, historyVars, attempts>>

\* SetReadOnly. When it fails, the engine stops if the cluster is reachable
\* (the statement may have had its effect), and goes on behind the ProxySQL
\* blackhole if it is not.
Fence(k) ==
    /\ pc[k] = "Fence"
    /\ \/ NoFault /\ Goto(k, "Promote") /\ SetWritable(k, "no")
       \/ Fault /\ Goto(k, "Promote") /\ UNCHANGED <<writable, beat>>
       \/ Fault /\ Goto(k, "idle") /\ \E w \in {writable[k], "no"} : SetWritable(k, w)
    /\ UNCHANGED <<follows, lease, relay, behind, clobbered, attempts>>

\* SetReadWrite on the remote. A failure, which may have had its effect,
\* rolls back the Fence only.
Promote(k) ==
    /\ pc[k] = "Promote"
    /\ \/ NoFault /\ Goto(k, "StopReplica") /\ SetWritable(Remote(k), "yes")
       \/ /\ Fault /\ Goto(k, "undoFence")
          /\ \E w \in {writable[Remote(k)], "yes"} : SetWritable(Remote(k), w)
    /\ UNCHANGED <<follows, lease, relay, behind, clobbered, attempts>>

\* STOP REPLICA and RESET REPLICA ALL on the new source. An error is logged.
StopReplica(k) ==
    /\ pc[k] = "StopReplica" /\ Goto(k, "Routing")
    /\ \/ /\ NoFault
          /\ follows' = [follows EXCEPT ![Remote(k)] = "no"]
          /\ relay' = [relay EXCEPT ![Remote(k)] = NoEvent]
       \/ Fault /\ UNCHANGED <<follows, relay>>
    /\ UNCHANGED <<writable, lease, behind, historyVars, attempts>>

\* Routing, ReverseReplica and Verify. Only a Routing failure rolls back.
Routing(k) ==
    /\ pc[k] = "Routing"
    /\ \/ NoFault /\ Goto(k, "idle")
       \/ Fault /\ Goto(k, "undoPromote")
    /\ UNCHANGED <<dbVars, historyVars, attempts>>

\* rollback: demote the remote, then make the local cluster writable again.
\* A failure is logged.
Undo(k, step, next, c, w) ==
    /\ pc[k] = step /\ Goto(k, next)
    /\ \/ NoFault /\ SetWritable(c, w)
       \/ Fault /\ UNCHANGED <<writable, beat>>
    /\ UNCHANGED <<follows, lease, relay, behind, clobbered, attempts>>

Rollback(k) ==
    \/ Undo(k, "undoPromote", "undoFence", Remote(k), "no")
    \/ Undo(k, "undoFence", "idle", k, "yes")

\* The controller stops; the next one starts with a fresh Reconcile.
Crash(k) ==
    /\ pc[k] # "idle" /\ Goto(k, "idle") /\ Fault
    /\ UNCHANGED <<dbVars, historyVars, attempts>>

(***************************************************************************)
(* The replication channels, and the clock.                                *)
(***************************************************************************)

Fetch(c) ==
    /\ follows[c] = "yes" /\ relay[c] = NoEvent
    /\ behind[c] = "yes"
    /\ relay' = [relay EXCEPT ![c] = lease[Remote(c)]]
    /\ UNCHANGED <<writable, follows, lease, behind, pc, historyVars, attempts, faults>>

\* The DDL and the seed change nothing that is there; an UPDATE of the row
\* replaces what the applier finds.
Replicated(e, l) ==
    IF e.owner = "no row" THEN Created(l) ELSE IF e.owner = "" THEN Seeded(l) ELSE e

Apply(c) ==
    /\ relay[c] # NoEvent
    /\ lease' = [lease EXCEPT ![c] = Replicated(relay[c], @)]
    /\ relay' = [relay EXCEPT ![c] = NoEvent]
    /\ behind' = [behind EXCEPT ![c] = IF lease[Remote(c)] = relay[c] THEN "no" ELSE "yes"]
    /\ clobbered' = IF writable[c] = "yes" THEN clobbered \cup {c} ELSE clobbered
    /\ UNCHANGED <<writable, follows, pc, beat, attempts, faults>>

\* The operator of a demoted cluster makes it follow the new source.
Resubscribe(c) ==
    /\ follows[c] = "no" /\ writable[c] = "no" /\ writable[Remote(c)] = "yes"
    /\ follows' = [follows EXCEPT ![c] = "yes"]
    /\ UNCHANGED <<writable, lease, relay, behind, pc, historyVars, attempts, faults>>

Older(age) == IF age < Stale THEN age + 1 ELSE age

OlderRow(l) == [l EXCEPT !.age = Older(@)]

Tick ==
    /\ lease' = [c \in Sites |-> OlderRow(lease[c])]
    /\ relay' = [c \in Sites |-> OlderRow(relay[c])]
    /\ beat' = [k \in Sites |-> Older(beat[k])]
    /\ UNCHANGED <<writable, follows, behind, pc, clobbered, attempts, faults>>

Reconcile(k) ==
    \/ EnsureKeeperSchema(k) \/ Heartbeat(k) \/ HeartbeatSkipped(k)
    \/ NoSwitch(k) \/ GatePasses(k) \/ GateDenies(k) \/ Requeue(k)
    \/ PreFlight(k) \/ Fence(k) \/ Promote(k) \/ StopReplica(k) \/ Routing(k) \/ Rollback(k)

Next ==
    \/ \E k \in Sites : Reconcile(k) \/ Crash(k)
    \/ \E c \in Sites : Fetch(c) \/ Apply(c) \/ Resubscribe(c)
    \/ Tick

Spec == Init /\ [][Next]_vars

\* Reconcile is requeued for ever and every call in it has a timeout; the
\* clock and the replication channels go on.
FairSpec ==
    /\ Spec
    /\ \A k \in Sites : WF_vars(Reconcile(k))
    /\ \A c \in Sites : WF_vars(Apply(c))
    /\ WF_vars(Tick)

(***************************************************************************)
(* Properties.                                                             *)
(***************************************************************************)

\* "a fresh lease means don't flip, the source is alive"
\* (controller.go:236-240): a controller whose heartbeat reached its cluster
\* within the TTL, less the difference of the clocks, does not see the gate of the other controller let an
\* attempt through, unless replication wrote over its row while the cluster
\* was already writable.
FreshSourceNotTaken ==
    [][\A k \in Sites :
          (pc[k] = "decide" /\ pc'[k] = "PreFlight") =>
              beat[Remote(k)] + Skew > TTL \/ Remote(k) \in clobbered]_vars

\* "the lease expires and the peer may take over" (leader_lease.go:1-3): on a
\* cluster that stays writable and follows nobody, the lease ends up with its
\* own controller, however the row got there.
LeaseSettles ==
    \A c \in Sites :
        <>[](writable[c] = "yes" /\ follows[c] = "no") => <>[](lease[c].owner = c)

\* "prevent two controllers (one on DC, one on DR) from believing they can
\* promote at the same instant" (lease.go:1-3): the two engines are never
\* both past PreFlight and before the end of Promote.
OnePromoter == \E k \in Sites : pc[k] \notin {"Fence", "Promote"}

\* "After promotion the new source bumps the epoch. A resurrected former
\* source ... sees an epoch higher than its own" (lease.go:15-17): when one
\* cluster is writable and the other fenced, each with a row of its own
\* controller, the writable one has the higher epoch.
NewSourceBumpsEpoch ==
    \A c \in Sites :
        (writable[c] = "yes" /\ writable[Remote(c)] = "no"
            /\ lease[c].owner = c /\ lease[Remote(c)].owner = Remote(c))
        => lease[c].epoch > lease[Remote(c)].epoch

=============================================================================
