--------------------------- MODULE ReplicationSkip ---------------------------
(***************************************************************************)
(* Automatic skipping of failed replicated transactions and the quarantine *)
(* of the replica (internal/controller/replication_errors.go and           *)
(* replication_skip.go; the empty transaction of SkipNextTransaction in    *)
(* internal/pxc/replication.go).                                           *)
(*                                                                         *)
(* A cycle is the replication part of one Reconcile: it observes the       *)
(* applier errors, skips transactions one by one on the replica, decides   *)
(* on the quarantine and saves everything with the health patch. A skip    *)
(* takes effect in MySQL at once; its record exists only in memory         *)
(* (pending) until the patch is saved. A cycle is short against the clock: *)
(* now does not advance during one.                                        *)
(***************************************************************************)
EXTENDS Naturals, FiniteSets

CONSTANTS
    Txns,                       \* transactions that may fail to apply
    Skippable,                  \* those with a whitelisted errno and a known GTID
    MaxSkipsPerWindow, Window,
    MaxSkipBeforeQuarantine, QuarantineWindow,
    HistoryRetention,
    HistoryCap,                 \* entries kept in the CR (50 in the code)
    MaxTime,                    \* bound: the clock
    MaxSkips,                   \* bound: skips recorded or executed
    MaxClears                   \* bound: values of the clear-quarantine annotation

\* The windows, the limits and the retention are configured independently of
\* each other; the defaults are 10m, 1h and 7 days, 3 and 5, and the cap is 50.
ASSUME SkipAssumption ==
    /\ Skippable \subseteq Txns
    /\ Window \in Nat \ {0} /\ QuarantineWindow \in Nat \ {0} /\ HistoryRetention \in Nat
    /\ MaxSkipsPerWindow \in Nat \ {0} /\ MaxSkipBeforeQuarantine \in Nat \ {0}
    /\ MaxTime \in Nat /\ MaxSkips \in Nat /\ MaxClears \in Nat /\ HistoryCap \in Nat

VARIABLES
    now,            \* the clock
    mode,           \* spec autoSkip: "off", "dryRun" or "live"
    clear,          \* the clear-quarantine annotation; 0 = unset
    \* Saved in the CR status.
    history,        \* skippedTransactions: records [id, at]
    quarantined,    \* whether quarantinedSince is set: "yes" or "no"
    lastClear,      \* lastClearAnnotationValue
    \* The replica.
    failing,        \* transactions the applier is stopped on
    \* The cycle in progress.
    pc, todo, pending, run, seen, errors,
    \* History and bounds.
    serial,         \* number of the last skip
    executed,       \* skips that took effect on the replica
    lost,           \* those among them whose record was never saved
    sighted,        \* whether the last saved cycle could inspect the replica
    releases        \* quarantines released by cycles that could

savedVars == <<history, quarantined, lastClear>>
cycleVars == <<pc, todo, pending, run, seen, errors>>
logVars == <<serial, executed, lost>>
noteVars == <<sighted, releases>>
vars == <<now, mode, clear, savedVars, failing, cycleVars, logVars, noteVars>>

Entries == [id : 1..MaxSkips, at : 0..MaxTime]

\* Every variable keeps its type; outside a cycle no record is pending.
TypeOK ==
    /\ now \in 0..MaxTime /\ mode \in {"off", "dryRun", "live"}
    /\ clear \in 0..MaxClears /\ lastClear \in 0..MaxClears /\ seen \in 0..MaxClears
    /\ history \subseteq Entries /\ pending \subseteq Entries
    /\ executed \subseteq Entries /\ lost \subseteq executed
    /\ quarantined \in {"yes", "no"} /\ sighted \in {"yes", "no"}
    /\ failing \subseteq Txns /\ todo \subseteq Txns /\ errors \subseteq Txns
    /\ pc \in {"idle", "skip"} /\ run \in {"off", "dryRun", "live"}
    /\ serial \in 0..MaxSkips /\ releases \in Nat
    /\ pc = "idle" => pending = {} /\ todo = {}

Init ==
    /\ now = 0 /\ mode = "off" /\ clear = 0
    /\ history = {} /\ quarantined = "no" /\ lastClear = 0
    /\ failing = {}
    /\ pc = "idle" /\ todo = {} /\ pending = {} /\ run = "off" /\ seen = 0 /\ errors = {}
    /\ serial = 0 /\ executed = {} /\ lost = {} /\ sighted = "yes" /\ releases = 0

\* countSkipsInWindow: the entries not older than the window.
InWindow(entries, window) == {e \in entries : e.at + window >= now}
Count(entries, window) == Cardinality(InWindow(entries, window))

\* Slip: the outcome of one cycle is carried over to the next.
EndCycleKeepingSkips ==
    pc' = "idle" /\ todo' = {} /\ run' = "off" /\ seen' = 0 /\ errors' = {} /\ UNCHANGED pending

EndCycle ==
    pc' = "idle" /\ todo' = {} /\ run' = "off" /\ seen' = 0 /\ errors' = {} /\ pending' = {}

-----------------------------------------------------------------------------
(***************************************************************************)
(* observeReplicationErrors and applyAutoSkipWith.                         *)
(***************************************************************************)

\* Slip: a quarantined replica is skipped on as any other.
SkipAllowedAnyway == mode # "off"

SkipAllowed == mode # "off" /\ quarantined = "no"

\* What the query may return: the failed transactions, one entry each. An error
\* that no worker reports, only the coordinator, has no GTID, and if the query
\* of the coordinator fails too there is "no error".
DetectWorkerErrors ==
    {failing} \cup (IF failing \cap Skippable = {} THEN {{}} ELSE {})

Observe ==
    /\ pc = "idle"
    /\ pc' = "skip" /\ run' = mode /\ seen' = clear
    /\ \E found \in DetectWorkerErrors :
          errors' = found /\ todo' = IF SkipAllowed THEN found ELSE {}
    /\ UNCHANGED <<now, mode, clear, savedVars, failing, pending, logVars, noteVars>>

\* Slip: skips of this cycle are not counted against the limit.
RateLimitedBySaved == Count(history, Window) >= MaxSkipsPerWindow

RateLimited == Count(history \cup pending, Window) >= MaxSkipsPerWindow

\* Not whitelisted, no GTID, or over the limit.
SkipBlocked(t) ==
    /\ pc = "skip" /\ t \in todo
    /\ t \notin Skippable \/ RateLimited
    /\ todo' = todo \ {t}
    /\ UNCHANGED <<now, mode, clear, savedVars, failing, pc, pending, run, seen, errors,
                   logVars, noteVars>>

MaySkip(t) == pc = "skip" /\ t \in todo /\ t \in Skippable /\ ~RateLimited /\ serial < MaxSkips

\* A dry run records what it would have skipped.
WouldSkip(t) ==
    /\ MaySkip(t) /\ run = "dryRun"
    /\ serial' = serial + 1
    /\ pending' = pending \cup {[id |-> serial + 1, at |-> now]}
    /\ todo' = todo \ {t}
    /\ UNCHANGED <<now, mode, clear, savedVars, failing, pc, run, seen, errors, executed,
                   lost, noteVars>>

SkipOk(t) ==
    /\ MaySkip(t) /\ run = "live"
    /\ serial' = serial + 1
    /\ pending' = pending \cup {[id |-> serial + 1, at |-> now]}
    /\ executed' = executed \cup {[id |-> serial + 1, at |-> now]}
    /\ failing' = failing \ {t}
    /\ todo' = todo \ {t}
    /\ UNCHANGED <<now, mode, clear, savedVars, pc, run, seen, errors, lost, noteVars>>

\* SkipNextTransaction failed before the empty transaction committed; the
\* cleanup restarted the applier, which fails on the transaction again.
SkipFails(t) ==
    /\ MaySkip(t) /\ run = "live"
    /\ todo' = todo \ {t}
    /\ UNCHANGED <<now, mode, clear, savedVars, failing, pc, pending, run, seen, errors,
                   logVars, noteVars>>

\* It failed after the commit (the answer was lost, gtid_next could not be
\* reset, the applier did not start): skipped, but not recorded.
SkipFailsLate(t) ==
    /\ MaySkip(t) /\ run = "live"
    /\ serial' = serial + 1
    /\ executed' = executed \cup {[id |-> serial + 1, at |-> now]}
    /\ lost' = lost \cup {[id |-> serial + 1, at |-> now]}
    /\ failing' = failing \ {t}
    /\ todo' = todo \ {t}
    /\ UNCHANGED <<now, mode, clear, savedVars, pc, pending, run, seen, errors, noteVars>>

-----------------------------------------------------------------------------
(***************************************************************************)
(* evaluateQuarantine, updateReplicationErrorStatus and the health patch.  *)
(***************************************************************************)

\* Slip: an annotation that was used before is a request.
ClearRequestedAgain == seen # 0

ClearRequested == seen # 0 /\ seen # lastClear

\* safeToClearQuarantine
SafeToClear ==
    /\ errors = {}
    /\ Count(history \cup pending, QuarantineWindow) <= MaxSkipBeforeQuarantine

\* Slip: the skips of this cycle do not count towards the quarantine.
OverThresholdSaved == Count(history, QuarantineWindow) > MaxSkipBeforeQuarantine

OverThreshold == Count(history \cup pending, QuarantineWindow) > MaxSkipBeforeQuarantine

QuarantineActive ==
    IF quarantined = "yes" THEN ~(ClearRequested /\ SafeToClear) ELSE OverThreshold

Pruned(entries) == {e \in entries : e.at + HistoryRetention >= now}
Capped(entries) ==
    {e \in entries : Cardinality({f \in entries : f.id > e.id}) < HistoryCap}

Recorded(new) == IF new = {} THEN Pruned(history) ELSE Capped(Pruned(history) \cup new)

\* A clear is remembered when it was granted or refused.
SaveCycle ==
    /\ pc = "skip" /\ todo = {}
    /\ history' = Recorded(pending)
    /\ quarantined' = IF QuarantineActive THEN "yes" ELSE "no"
    /\ lastClear' = IF quarantined = "yes" /\ ClearRequested THEN seen ELSE lastClear
    /\ sighted' = "yes"
    /\ releases' = IF quarantined = "yes" /\ ~QuarantineActive THEN releases + 1 ELSE releases
    /\ EndCycle
    /\ UNCHANGED <<now, mode, clear, failing, logVars>>

\* The patch failed or the controller stopped: what was skipped stays skipped.
LoseCycle ==
    /\ pc = "skip"
    /\ lost' = lost \cup (pending \cap executed)
    /\ EndCycle
    /\ UNCHANGED <<now, mode, clear, savedVars, failing, serial, executed, noteVars>>

\* MySQL unreachable, or the error query failed: the outcome is empty, the
\* quarantine is not evaluated, and the status update takes it for inactive.
BlindCycle ==
    /\ pc = "idle"
    /\ history' = Recorded({})
    /\ quarantined' = "no"
    /\ lastClear' = IF quarantined = "yes" /\ clear # 0 THEN clear ELSE lastClear
    /\ sighted' = "no"
    /\ UNCHANGED <<now, mode, clear, failing, cycleVars, logVars, releases>>

-----------------------------------------------------------------------------
(***************************************************************************)
(* The replica, the clock and the operator. A cycle looks at the mode, the *)
(* annotation and the errors once, when it starts, so that they may as     *)
(* well change between cycles only.                                        *)
(***************************************************************************)

ApplierFails(t) ==
    /\ pc = "idle" /\ t \notin failing
    /\ failing' = failing \cup {t}
    /\ UNCHANGED <<now, mode, clear, savedVars, cycleVars, logVars, noteVars>>

ApplierRepaired(t) ==
    /\ pc = "idle" /\ t \in failing
    /\ failing' = failing \ {t}
    /\ UNCHANGED <<now, mode, clear, savedVars, cycleVars, logVars, noteVars>>

Tick ==
    /\ pc = "idle" /\ now < MaxTime
    /\ now' = now + 1
    /\ UNCHANGED <<mode, clear, savedVars, failing, cycleVars, logVars, noteVars>>

SetMode(m) ==
    /\ pc = "idle" /\ mode # m
    /\ mode' = m
    /\ UNCHANGED <<now, clear, savedVars, failing, cycleVars, logVars, noteVars>>

AskClear ==
    /\ pc = "idle" /\ clear < MaxClears
    /\ clear' = clear + 1
    /\ UNCHANGED <<now, mode, savedVars, failing, cycleVars, logVars, noteVars>>

Next ==
    \/ Observe \/ SaveCycle \/ LoseCycle \/ BlindCycle \/ Tick \/ AskClear
    \/ \E t \in Txns :
          \/ SkipBlocked(t) \/ WouldSkip(t) \/ SkipOk(t) \/ SkipFails(t) \/ SkipFailsLate(t)
          \/ ApplierFails(t) \/ ApplierRepaired(t)
    \/ \E m \in {"off", "dryRun", "live"} : SetMode(m)

Spec == Init /\ [][Next]_vars

-----------------------------------------------------------------------------
(***************************************************************************)
(* Properties.                                                             *)
(***************************************************************************)

\* Apart from skips whose record was lost, no more than MaxSkipsPerWindow
\* transactions are skipped within any window, over any number of cycles,
\* prunings and restarts (applyAutoSkipWith, appendSkipsCapped).
SkipRateBounded == Count(executed \ lost, Window) <= MaxSkipsPerWindow

\* Once a cycle that could inspect the replica is saved, a replica with too many
\* recorded skips in the window is quarantined, whatever was cleared before.
BurstQuarantined ==
    pc = "idle" /\ sighted = "yes"
        /\ Count(history, QuarantineWindow) > MaxSkipBeforeQuarantine
        => quarantined = "yes"

\* No transaction is skipped on a replica the CR holds quarantined.
QuarantineStopsSkips == [][executed' # executed => quarantined = "no"]_vars

\* An operator's request releases one quarantine: an annotation value left on
\* the CR, granted or refused, does not release the next one, whatever cycles
\* were lost, blind or retried in between (operatorRequestedClear,
\* updateReplicationErrorStatus). Releases by blind cycles are not counted:
\* nobody has to ask for them.
OneReleasePerRequest == releases <= clear

-----------------------------------------------------------------------------
(***************************************************************************)
(* What comments of the code say and the code does not do.                 *)
(***************************************************************************)

\* "Once entered, quarantine is sticky until the user clears it via the
\* mysql.keeper.io/clear-quarantine annotation" (evaluateQuarantine).
QuarantineSticky ==
    [][quarantined = "yes" /\ quarantined' = "no" => clear # 0 /\ clear # lastClear]_vars

=============================================================================
