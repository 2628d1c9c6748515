# mysql-keeper in TLA+

mysql-keeper is a Kubernetes controller that keeps one of two Percona XtraDB
Clusters (DC and DR) writable and moves the write role between them. This
directory holds TLA+ specifications of its core, TLC configurations that check
them on small instances, and TLAPS proofs, for all instances, of the safety
properties these runs check.
`PROJECT.json` lists components, runs, the source lines behind every
definition, hazards, findings and theorems.

Run a check with `tlc -config <run>.cfg <module>` and a proof with
`tlapm <module>.tla`.

## The system

| Part | State | Operations | Interacts with |
|---|---|---|---|
| Policy reconciler (`internal/controller`) | the custom resource: phase, progress, counters, trigger, finalizer | Reconcile: finalizer, health patch, stuck attempts, recovery, decision, attempt, result | everything below; the API server; users |
| Switchover engine (`internal/switchover/engine.go`) | the phase in progress | Execute: PreFlight, Fence, Promote, Routing, ReverseReplica, Verify, rollback | the PXC managers, the ProxySQL manager, the progress reporter |
| Direct PXC manager (`internal/pxc/manager.go`) | none of its own; `read_only` in MySQL, `isSource` in the PXC resource | SetReadOnly, SetReadWrite, CRD-first or SQL-first | MySQL, the PXC operator |
| ProxySQL manager (`internal/proxysql`) | `mysql_servers` in memory, at run time and on disk, per instance | ApplyFailoverRouting (prepare and commit), Blackhole, RollbackRouting | ProxySQL instances |
| Replication errors (`internal/controller/replication_*.go`, `internal/pxc/replication.go`) | skip history and quarantine in the status | observe, auto-skip, quarantine, release | the replica's applier; users |
| Leader lease (`internal/pxc/leader_lease.go`, `internal/switchover/lease.go`) | one row per cluster | heartbeat, peer-lease gate | both clusters; replication between them |
| Health checkers (`internal/health`) | none | Check | MySQL, the PXC resource |
| MANO client and manager (`internal/mano`) | a token; operations of an external service | SetReadOnly and SetReadWrite by asynchronous operations that are polled | the MANO service, the PXC operator behind it |
| Preflight and GTID queries (`internal/switchover/preflight.go`, `internal/pxc/gtid.go`) | none of their own; the GTID sets of both clusters | the checks C1 to C12, the lag measurement | MySQL, while clients and replication go on |

What is hard here: a call may take effect and lose its answer; the controller
may stop between any two writes, and its successor knows only what was saved;
an attempt touches two clusters and several ProxySQL instances with no
transaction over them; the PXC operator acts on its own; two controllers, one
beside each cluster, coordinate through a row that is itself replicated; and
every status write can fail. Under MANO a call can return before the operation
it started, and preflight compares data that goes on changing. What each part
has to guarantee:

- engine, managers, ProxySQL: never two writers by the controller's own hand,
  never two write paths, a reported success is a completed switch, and every
  attempt ends;
- reconciler: one attempt per manual request, failover only after a sustained
  failure, no deletion under an attempt, Degraded left only when safe, no
  attempt that is stuck for ever;
- replication errors: bounded skipping, quarantine after a burst, no skipping
  in quarantine and one release for one request;
- MANO: two writers never come from operations whose calls told the truth, the
  result of an attempt is what MANO enforces, and every call returns;
- preflight: what is lost by a flip was written after the comparison, was
  skipped on the replica before, or was given up by the operator;
- lease: no promotion against a live source, epochs that grow, a lease that
  finds its owner.

## The modules

| Module | Models |
|---|---|
| `PXCManager` | SetReadOnly and SetReadWrite step by step, the PXC operator, loss of contact |
| `ProxySQL` | the statements of prepare, commit and blackhole on one instance, and its restart |
| `SwitchoverEngine` | Execute and rollback; EXTENDS `PXCManager` and instantiates `ProxySQL` |
| `WriteRole` | what a switchover promises, seen from outside; implemented by `SwitchoverEngine` |
| `MANOManager` | SetReadOnly and SetReadWrite over MANO: token, POST, poll, probe, the operation and what outlives its call |
| `MANOSwitchover` | the engine over these managers; EXTENDS `MANOManager` |
| `PreFlight` | the GTID sets of both clusters, every check, the lag measurement, the flip |
| `Reconciler` | Reconcile against the API server |
| `ReplicationSkip` | the replication part of one cycle: skip, record, quarantine |
| `LeaderLease` | two controllers, two clusters, two lease rows, one replication channel each way |
| `SwitchoverEngineProofs`, `MANOSwitchoverProofs`, `PreFlightProofs`, `ReconcilerProofs`, `ReplicationSkipProofs`, `LeaderLeaseProofs` | theorems |
| `MC*` | the TLC side: symmetry, nothing else |

Definitions prefixed by a comment that starts with *Slip* are plausible errors
in the code, one for each property; each breaks its property when it replaces
the definition it follows.

**PXCManager.** `writable`, `isSource` and `reachable` are sets of clusters. A
call in progress is `on` (cluster), `op`, `step`, `tries` and `ret`. Each SQL
statement or CRD patch is an action that may fail with or without its effect.
`KubeAPI` is the set of clusters whose CRD the controller can patch;
`CRDApplyRetries > 0` selects the CRD-first form. `OperatorEnforce` is the PXC
operator making `read_only` follow `isSource`. `risk` is a history variable:
which of the four known ways past the fence have been taken.

**ProxySQL.** Rows are pairs of hostgroup and host in three layers (`mem`,
`runtime`, `disk`). A loop visits the instances one after the other; every
statement of a visit is a step (`answered` counts those that have returned) and
may fail with or without its effect, SAVE included. A restart may come between
any two statements: database/sql opens a new connection and the rest of the visit
works on the rows read from disk. `WriterServesReads` says whether the writer has a row in the
read hostgroup as well, in which case the UPDATE of the blackhole collides on
the primary key. `RollbackRouting` is not modelled: rollback restores Routing
only when it is among the completed phases, and the engine never rolls back
after completing Routing.

**SwitchoverEngine.** `pc` is the phase. PreFlight is C1 (the remote is
read-only and answers); the other checks may pass or fail. STOP REPLICA and
RESET REPLICA ALL change nothing here and their errors are logged. The context
may expire at any time and then every further statement fails. `Crash` stops
the controller; `Execute` may run again. `RestartOne` restarts a ProxySQL
instance, at most `MaxRestarts` times. Two history variables say when:
`unstaged` since the prepare loop began, `reopened` in the middle of being
blackholed.

**WriteRole.** The abstract specification: `holders` of the write role, the last
`outcome`, and whether the promise is `waived`. The role is released and
acquired, acquired only when nobody holds it; success may be reported only when
the new cluster is the holder, a rollback only when it is not one. The refinement
mapping in `SwitchoverEngine` (`Role`) reads `writable` as the holders, `result`
as the outcome, and waives the promise when `risk` is not empty: what the code
can guarantee ends where one of the four recorded ways past the fence is taken.

**MANOManager and MANOSwitchover.** The frame of a call is `step`, `on`, `goal`,
`polls` and `ret`, as in `PXCManager`. `occ` is the operation the call follows
at MANO, which applies `isSource` and completes or fails in its own time; the
PXC operator makes `read_only` follow, before or after COMPLETED. `late` counts
operations whose call has returned, because the answer of the POST was lost, the
poll failed or timed out, or the controller stopped: each may still take effect.
Any request may fail at any time, which includes the context of the fence
(`FenceTimeout`), usually shorter than the poll timeout. The token is captured
when a call begins, and a poll does not look at the HTTP status, so an expired
token shows as an operation that never ends. `surprises` and `risk` are history:
operations that did not do what their call said, and errors the engine went
past. The ProxySQL phases are reduced to their outcome.

**PreFlight.** A transaction is a cluster and a number. Clients commit on the
source, the channel replicates in any order, stops, and is skipped past or
repaired, binary logs expire, and a privileged session may write on the replica,
between any two queries. A skip puts the GTID of a transaction on the replica
without its rows; `skipped` remembers which. Every check is an action in the order of Run, every query may fail, and
`allowLoss` is `allowDataLossFailover`. C5 and C6 are followed branch by branch,
including the second subset query whose error is dropped (`preflight.go:305`).
C7 to C9 may pass or fail, C11 is soft. The engine afterwards is reduced to what
stops and starts writes, with a fence that may take hold only after its call has
returned (`FenceTakesHold`: a CRD-first SetReadOnly leaves `read_only` to the
operator, a blackhole stops only clients of ProxySQL), lost answers, rollback as
far as its calls succeed, and a stop at any point. `MeasureLocal` and `MeasureRemote` are observeGTIDLag;
the count goes through the intervals MySQL prints: an interval contributes one
element for each number it spans, which is what adding up lengths counts.

**Reconciler.** One action per write to the API server, each with its failure,
and a stop between any two. The health checks return any member of `Health`.
The engine is seen through its progress reporter. Durations are flags that a
clock action raises. The model is of the policy with role dc: local is DC,
remote is DR. The peer-lease gate is part of the choice `NoSwitch` may make. Not modelled:
events, metrics, the SplitBrain condition.

**ReplicationSkip.** A cycle observes failing transactions, skips those it may,
and saves its record with the health patch, which may be lost (`LoseCycle`) or
empty because the replica could not be inspected (`BlindCycle`). An error that
only the coordinator reports may go unseen: when the second query of
DetectWorkerErrors fails, that reads as no error (`pxc/replication.go:355`), and a
release may follow. Time is a counter; a cycle is short against it.

**LeaderLease.** Controller k runs beside cluster k and promotes the other. The
row carries an owner (or *no table*, *no row*, seeded and unowned), an epoch and
the age of its heartbeat. `AcquireOrRenew` is one transaction. `MayPromote` is
CheckPeerLease, which reads the row on the cluster about to be promoted. The
engines behind the gate are reduced to what they do to `read_only` and to the
channel, with C1 and C5/C6 of PreFlight: `behind[c]` says that cluster c lacks a
write of the other. `relay[c]` holds one fetched row event. `Skew`
bounds the difference between the clock that wrote a heartbeat and the one that
judges its age: near the TTL both answers are possible.
EvaluateSwitchover may answer either way, as a manual request makes it.
AcquireLeaseOnSource and the self-fencing described in `lease.go:15-18` have no
code that calls or does them.

## The runs

Passing runs:

| Run | Shows |
|---|---|
| `engine_sqlfirst` | SQL-first manager, two attempts, two interchangeable ProxySQL instances, one restart of an instance, stops, lost contact, expired context (3.0 million states, about two minutes): `DualWritersExplained`, `SingleWritePath`, `SuccessMeansSwitched`, and the refinement of the write role, `MovesWriteRole` |
| `engine_returns` | CRD-first with two retries on both clusters, two restarts of a ProxySQL instance: `ExecuteReturns` |
| `reconciler_safety` | two attempts, a manual request and a recovery annotation, one fault: `ManualOneAttempt`, `FailoverSustained`, `NotDeletedMidAttempt`, `DegradedHolds` |
| `reconciler_stuck` | a stopped controller: `StuckAttemptEnds` |
| `skip_accounting` | three transactions, two of them skippable, five units of time, three skips, two clear requests: `SkipRateBounded`, `BurstQuarantined`, `QuarantineStopsSkips`, `OneReleasePerRequest` |
| `lease_gate` | two faults, one attempt by each controller: `FreshSourceNotTaken` |
| `lease_handover` | no faults, clocks one unit apart, two attempts by each controller: `NewSourceBumpsEpoch`, `FreshSourceNotTaken`, `LeaseSettles` |
| `mano_calls` | two attempts over MANO, one poll per call, one operation of each kind left behind at a time: `DualWritersNeedLostOperation`, `ReportsMatchSources`, `CallsReturn` |
| `preflight_gtid` | three client transactions and two attempts (6.7 million states, about two minutes): `LossAccountedFor`, `NoGapMeansCaughtUp` |

Three exceptions in these properties are there because the code has them:

- `SingleWritePath` leaves out the instances in `reopened`, and
  `SuccessMeansSwitched` those in `unstaged`: a restart between two statements of
  a visit lets the remaining LOAD and SAVE activate the old rows, and the manager
  reports no error. Without the exception TLC finds the two write paths.
- `LossAccountedFor` speaks of rows, and allows those of skipped transactions to
  be missing. PreFlight compares GTIDs and cannot tell a skipped transaction from
  an applied one; a skip during the wait of C6 even ends it. The documentation
  says the same of the skip itself ("Auto-skip silently drops rows",
  `docs/replication-error-handling.md:97`); what should stop the flip is C12,
  which asks about the other replica (below). What is committed after the
  snapshot, before or after the fence has returned, may be lost as well.

Nothing is claimed of the former source following the new one: C10 compares what
the remote had purged when it was read, before the wait of C6, and binary logs
may expire at any time after that.

Runs whose property is what a comment says and the code does not do:

| Run | Counterexample |
|---|---|
| `phase_stuck` | the controller stops after a failed phase is checkpointed; `handleStuckSwitchover` ignores attempts with a failed phase; the policy stays in SwitchingOver |
| `quarantine_sticky` | a cycle that cannot inspect the replica is saved and clears the quarantine |
| `both_promoting` | the DR controller passes the gate on a stale row of DC; the DC controller renews its lease and passes on its own row; once it has fenced DC, both have passed PreFlight and are about to promote |

Bounds. Two ProxySQL instances are what partial commits need, and they are
symmetric. One restart in two attempts meets every point of every visit; the
proofs are for any number. Two attempts show what one leaves to the next. One fault is enough
for each lost write in the reconciler because a Reconcile starts again from the
stored object; `lease_gate` has two because overwriting a live row takes a
failed STOP REPLICA, or a slow one, and something for the gate to follow.
`TTL = 1` gives a heartbeat three ages: just written, fresh and expired. The
thresholds, windows and caps of `skip_accounting` are the smallest that keep the
order of the defaults (limit below cap, windows within the retention); its time
is enough for a quarantine, its release and a second quarantine.
`lease_handover` has `TTL = 2` and `Skew = 1`, so that there is an age at which
the answer depends on the clock and one on each side at which it does not. One
poll per call is enough for an operation that is slower than its call, and one
operation of each kind left behind for it to meet the calls of the next attempt.
Three transactions are what a set with a hole needs (an interval, a gap and a
single number), and two attempts what a second one finds after a rollback.

Fairness. `ExecuteReturns` assumes that the engine and the manager calls it
makes go on, as every statement has a timeout. `StuckAttemptEnds` and
`SwitchingOverEnds` assume that Reconcile is requeued for ever
(controller-runtime) and that attempts grow old. `LeaseSettles` assumes the same of Reconcile,
of the clock and of the appliers. `CallsReturn` assumes
that the engine and the client go on (every request has a timeout of 30 seconds, the poll
loop a deadline) and nothing of MANO, its operations or its tokens. No fairness is assumed of users, of faults or
of the PXC operator.

Deadlock is not checked where the model really stops: in `Reconciler` when the
resource is gone, in `ReplicationSkip` when the bounded clock ends, in
`MANOSwitchover` and `PreFlight` when the attempts are used up.

## Proofs

Every safety invariant and every action property of the passing runs is also a
theorem, for every value of the constants that the assumptions stated in the
modules (`ASSUME`) allow: positive or natural bounds, Boolean or two-valued
switches, two distinct clusters. Two theorems have a hypothesis besides, named
with them below. The inductive invariants named below were
checked by TLC with the constants of the runs before they were proved.

Engine (`SwitchoverEngineProofs`), for any set of ProxySQL instances, either
form of the managers and any number of attempts:

- `TypeCorrect`: `[]TypeOK`.
- `NoUnexplainedSplitBrain`: `[]DualWritersExplained`. The property says nothing
  about the moment before the second cluster becomes writable, so it is not
  inductive. `FenceInv` adds that a manager call is made by the phase it belongs
  to, and that, as long as no risk is recorded, the two clusters are never both
  writable, the remote is read-only while the engine drains, fences, blackholes
  or re-fences it in a rollback, the local is read-only from Promote to Verify
  and while a rollback re-promotes it, and each step of a call in progress has
  what the call has established so far. Each action either keeps that or records
  its risk.
- `ImplementsWriteRole`: `MovesWriteRole`. Every initial state maps to one of
  `WriteRole`. With `FenceInv` as the invariant, a manager call that changes
  `read_only` releases the role, or acquires it when nobody holds it; an engine
  step that reports does so in a state that allows the report; a step of the
  operator or of a fault that would do otherwise records its risk and is the
  `Unpromised` step; all else stutters.
- `OneWritePath`: `[]SingleWritePath`. `FenceInv` settles every case but the
  blackhole. For that one `CutOffInv` says that an instance, once blackholed, has
  no write row for the old source in any of its three layers, so that neither a
  LOAD, a restart nor a later prepare brings the write path back (no statement
  adds such a row: `StatementEffect`), and that the blackhole loop has done this
  for the instances it has passed without an error. Within a visit the row leaves
  one layer after the other, and the invariant follows that statement by
  statement; a restart in between puts the instance into `reopened`, for which
  nothing is claimed.
- `SuccessIsSwitched`: `SuccessMeansSwitched`. `RoutedInv` follows the two loops
  of ApplyFailoverRouting, statement by statement: what prepare has passed is
  staged, what commit has passed runs, and commit is reached only when prepare
  had no error.

MANO (`MANOSwitchoverProofs`), for every poll limit and number of attempts:

- `TypeCorrect`: `[]TypeOK`, made inductive by `RoomKept`: a call is followed
  only while there is room for its operation to be left behind.
- `NoSplitBrainByReturnedCalls`: `[]DualWritersNeedLostOperation`. `RoleInv` adds
  that a call belongs to its phase (`CallPlaced`) and that, as long as nothing
  unexpected is on record, at most one cluster accepts writes or has isSource
  set, so that the operator will make it accept them, and each phase knows which
  one does not (`OneMayWrite`).
- `ReportsAreKept`: `[]ReportsMatchSources`. `RoleInv` is of no use here, because
  this property allows a fence that completed early. `ReportInv` reconstructs
  isSource, phase by phase, from its value when the attempt began and from
  whether the call in progress has had its effect. An error return tells that it
  has not: an effect its call did not report is a surprise, which the property
  excepts.

Preflight (`PreFlightProofs`), for any number of transactions and attempts:

- `FlipLossAccountedFor`: `[]LossAccountedFor`. `DataInv` says what the checks
  have established once they have run without failing: from C10 on every GTID of
  the snapshot is on the replica. Executed sets only grow, so that is not lost
  while the later checks and phases run; a row that is missing all the same is
  one of a skipped GTID.
- `CountIsExact`: for every GTID set `s` over both clusters,
  `CountGTIDTransactions(s) = Cardinality(s)`. Every number of the set lies in
  one printed interval (`IntervalAround`, from the least and the greatest numbers
  of a run) and in no other (`IntervalsApart`), so interval and position name
  each transaction once (`CountedBijection`).
- `PreFlightTypes` and `GapZeroIsCaughtUp`: `[]TypeOK` and
  `[]NoGapMeansCaughtUp`. Both need `CountIsExact`: a count of zero is an empty
  difference, and a count is at most the number of transactions. `GapInv` adds
  that the source has only transactions of its own and that the snapshot is a
  part of them; a report is withdrawn before the snapshot is read anew.

Reconciler (`ReconcilerProofs`), for every threshold and bound:

- `ManualAttemptsBounded`: `[]ManualOneAttempt`. `ManualInv` counts requests that
  can still start an attempt: one while the trigger is in the spec, one while a
  Reconcile carries it past the write that clears it, two when both.
- `ReconcilerTypes`: `[]TypeOK`, with `AttemptInv` for the room that a decided
  attempt still has.
- `FailoverIsSustained`: `[]FailoverSustained`. `StreakInv`: neither stored
  counter exceeds the number of saved bad checks in a row, and a decision
  because of the local cluster was made with the threshold reached.
- `NotDeleted`: `[]NotDeletedMidAttempt`. `HeldInv`: a Reconcile past its
  beginning has the finalizer set and the object there, and a resource in
  SwitchingOver has its finalizer until it is gone, which a fresh attempt delays.
- `DegradedIsHeld`: `DegradedHolds`. `DecidedInv`: between decision and attempt
  the phase is not Degraded.

Replication errors (`ReplicationSkipProofs`), for every window, limit and cap:

- `SkipTypes`: `[]TypeOK`.
- `SkipRate`: `[]SkipRateBounded`, if the retention covers the window and the cap
  is no smaller than the limit (`HistoryKeepsWindow`). The defaults satisfy this
  and no code checks it; with a cap below the limit the property is false, since
  skips that still count are forgotten. The limit is applied to records and the
  property is about skips. `Accounted` links them: every skip in the window has a
  record unless that was lost, and the records in the window are within the
  limit. It survives the cap on the history because skips are numbered in the
  order of time (`Ordered`), so that the records dropped are the oldest.
- `Quarantined`: `[]BurstQuarantined`, through `BurstInv`, the same at every point
  of a cycle.
- `NoSkipInQuarantine`: `QuarantineStopsSkips`. `TodoInv`: work is left in a
  cycle only if it began on a replica not quarantined.
- `ReleasedOncePerRequest`: `[]OneReleasePerRequest`. `ReleaseInv`: a value that
  released a quarantine is remembered in the same patch, and remembered values
  only grow, so the releases never exceed the remembered value, nor that the
  annotation.

Lease (`LeaderLeaseProofs`), for every TTL, skew and bound:

- `LeaseTypes`: `[]TypeOK`.
- `FreshLeaseHolds`: `FreshSourceNotTaken`, with any number of faults. `BeatInv`
  ties the heartbeat a controller remembers to the row the other one reads: as
  long as it is not stale the row is its own and as old, or was written over.
- `EpochOfNewSource`: `[](faults = 0 => NewSourceBumpsEpoch)`. The hypothesis is
  part of the claim, as in the run `lease_handover`, which has no faults: a failed
  STOP REPLICA or rollback lets an old row overwrite a newer one. The two engines
  may overlap, so the invariant is about both clusters at once (`EpochFacts`): a
  cluster that lacks no write of the other, or alone accepts writes, supersedes
  the row of the other and always the event the other has fetched; what PreFlight
  found still holds when the cluster is promoted; and a promoted cluster follows
  only until StopReplica.

Only model-checked: everything under fairness (`ExecuteReturns`,
`StuckAttemptEnds`, `LeaseSettles`, `CallsReturn`), since the prover handles
neither liveness under fairness nor ENABLED. `NewSourceBumpsEpoch` after a fault
is not claimed at all. The three runs that expect a violation state what
comments say, which the code does not do.

## Other disagreements between comments and code

Seen while modelling; the modules have these behaviours, no run states them:

- With CRD retries SetReadOnly returns once the isSource patch is verified,
  before the PXC operator has set `read_only`, and the engine goes on to Promote
  (`pxc/manager.go:121`, against `engine.go:379`, "makes writes to the local cluster
  impossible").
- After a partial commit nothing restores the instances that committed
  (`proxysql/manager.go:140`, against `:75`).
- C12 asks about the quarantine of the local replica and the engine promotes
  the remote one (`preflight.go:475` and `engine.go:433`, against `preflight.go:466`
  and `docs/replication-error-handling.md:17`).
- A MANO promotion whose write probe fails is not taken back, and rollback
  re-enables the local cluster (`mano/pxc_manager.go:116`; the direct manager does undo it).
  The same happens when the poll times out and the operation completes later,
  which `docs/runbooks/switchover-stuck.md:87` calls stuck "in the controller only".
- Under MANO the two clusters are updated by two operations
  (`mano/pxc_manager.go:104` and `:112`, against `README.md:226`, "updated
  atomically"), and the flow at `README.md:232` has COMPLETED before
  `read_only` is set.
- Rows staged by an aborted prepare are called harmless
  (`proxysql/manager.go:114`), and the LOAD of a later blackhole activates them
  (`:234`).
- Rolling back a fence made by blackhole leaves the blackhole in place
  (`engine.go:516`, against `:252`).
- The UPDATE of the blackhole collides on the primary key when the writer has
  two rows (`proxysql/manager.go:216`; the same file explains the collision at
  `:282`).
- An instance that restarts between prepare and commit commits its old rows
  (`proxysql/manager.go:327`, against `:69`). One that restarts between the UPDATE
  and the SAVE of a blackhole goes on with its old rows, and Blackhole returns no
  error (`proxysql/manager.go:216-239`, against `:164-166`, which promises an
  error for any host that could not be reconfigured).
- A clear of the quarantine that is refused is remembered as used and is not
  tried again until the annotation changes (`replication_errors.go:367`, against
  `docs/replication-error-handling.md:131-133`, "the controller will retry the
  release on subsequent reconciles").
- FailedPhase stays set after a success, because ReverseReplica always reports
  an error and the result is a merge patch (`clusterswitchpolicy_controller.go:541`,
  against `clusterswitchpolicy_types.go:523`).
- An attempt that reached Done and lost its result is abandoned as stuck
  (`clusterswitchpolicy_controller.go:338`, against `:326`).
- The decision does not look at the phase (`:257`, against `:307`).
- Unreachability alone starts a failover (`decision.go:119`, against
  `clusterswitchpolicy_types.go:436`).
- A success toggles activeCluster from whatever it was
  (`clusterswitchpolicy_controller.go:535`, against `clusterswitchpolicy_types.go:412`).
- A lost status write lets more skips through than maxSkipsPerWindow
  (`replication_skip.go:234`, against `clusterswitchpolicy_types.go:711`);
  `SkipRateBounded` states the bound that does hold.
- CheckPeerLease denies, not allows, when the table is missing: the error is not
  sql.ErrNoRows (`lease.go:65`, against `:51`). It also reads the cluster about
  to be promoted, not "the CURRENT source" (`clusterswitchpolicy_controller.go:419`,
  against `lease.go:45`).

## Not modelled

Gauges and counters (nothing reads them back), the command line tools (drivers
around the same preflight and engine), the entry point, generated code,
manifests and scripts. The values MySQL compares in C7 to C9. The informer
cache. The state of the applier thread after a skip whose START fails
(`replication.go:470`). The ProxySQL health checker, which feeds metrics only.

## Plan

Done: `PXCManager`, `ProxySQL`, `SwitchoverEngine` with `WriteRole`,
`MANOManager`, `MANOSwitchover`, `PreFlight`, `Reconciler`, `ReplicationSkip`,
`LeaderLease`, with the runs and theorems above.

Next, in this order:

1. A cached copy of the failure counters in `Reconciler`, behind the stored
   ones. The rest of the policy is refreshed by the response of the health patch
   before the decision reads it.
2. The applier thread in `ReplicationSkip`, and a history cap below the limits.
3. Two policies whose remotes are unreachable (`decision.go:93`), and C12 with
   the quarantine of both replicas.

Proofs: the safety properties of the runs are done. Next are the bound on skips
when records are lost, `NewSourceBumpsEpoch` under the faults that leave it true,
and an abstract specification of the write role over MANO with its refinement.
