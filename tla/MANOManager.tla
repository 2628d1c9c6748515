----------------------------- MODULE MANOManager -----------------------------
(***************************************************************************)
(* The manager used under spec.mano (internal/mano): SetReadOnly and       *)
(* SetReadWrite as lifecycle operations of the MANO service, started by a  *)
(* POST and followed by polling.                                           *)
(*                                                                         *)
(* The engine is sequential, so one frame describes the call in progress:  *)
(* step, on (the cluster), goal (what it is to become), polls and ret.    *)
(* occ is the state at MANO of the operation the call follows. A call that *)
(* returns before its operation was applied leaves it behind in late,      *)
(* which counts such operations; they may take effect at any later time.   *)
(*                                                                         *)
(* Any request or statement may fail at any time, for the sake of the      *)
(* network or of the deadline of its context, so neither is kept as state. *)
(***************************************************************************)
EXTENDS Naturals

CONSTANTS
    Local, Remote,  \* the two clusters, each a CNF/VDU of MANO
    StaticToken,    \* a fixed token instead of credentials
    MaxPolls,       \* pollTimeout, in rounds of the poll loop
    MaxLate         \* bound: operations of one kind left behind at a time

ASSUME MANOAssumption ==
    /\ Local # Remote
    /\ StaticToken \in BOOLEAN
    /\ MaxPolls \in Nat
    /\ MaxLate \in Nat

VARIABLES
    writable,       \* the clusters with @@read_only = OFF
    isSource,       \* the clusters whose PXC CRD has isSource = true
    token,          \* the bearer token held by the client
    occ,            \* the operation the call follows, "none" without one
    late,           \* how many operations of each kind were left behind
    surprises,      \* history: operations that did not do what their call said
    step, on, goal, polls, ret

clusterVars == <<writable, isSource>>
opVars == <<occ, late, surprises>>
frameVars == <<step, on, goal, polls, ret>>
manoVars == <<writable, isSource, token, occ, late, surprises, step, on, goal, polls, ret>>

Clusters == {Local, Remote}

\* "early": reported COMPLETED before the PXC operator had acted; "dirty":
\* reported as failed although isSource was changed.
OccStates == {"none", "processing", "applied", "completed", "early", "failed", "dirty"}

Goals == {"source", "replica"}

LateOps == [on : Clusters, goal : Goals]

Surprises == {"enabled", "disabled", "earlyFence"}

MANOInit ==
    /\ writable = {Local} /\ isSource = {Local}
    /\ token = IF StaticToken THEN "valid" ELSE "none"
    /\ occ = "none" /\ late = [o \in LateOps |-> 0] /\ surprises = {}
    /\ step = "none" /\ on = Local /\ goal = "replica" /\ polls = 0 /\ ret = "none"

MANOTypeOK ==
    /\ writable \subseteq Clusters
    /\ isSource \subseteq Clusters
    /\ token \in {"none", "valid", "expired"}
    /\ occ \in OccStates
    /\ late \in [LateOps -> 0..MaxLate]
    /\ surprises \subseteq Surprises
    /\ step \in {"none", "token", "post", "poll", "wait", "probe"}
    /\ on \in Clusters
    /\ goal \in Goals
    /\ polls \in 0..MaxPolls
    /\ ret \in {"none", "ok", "err"}
    /\ (occ # "none") <=> (step \in {"poll", "wait", "probe"})

-----------------------------------------------------------------------------
(***************************************************************************)
(* The client: ensureToken, SetIsSource, pollLcmOpOcc.                     *)
(***************************************************************************)

CallSetIsSource(c, g) ==
    /\ step' = "token"
    /\ on' = c /\ goal' = g /\ polls' = 0 /\ ret' = "none"

Goto(s) == step' = s /\ UNCHANGED <<on, goal, polls, ret>>

Return(r) == step' = "none" /\ ret' = r /\ polls' = 0 /\ UNCHANGED <<on, goal>>

Kind == [on |-> on, goal |-> goal]

\* An operation that took effect although its call reports an error.
Surprise(g) == surprises \cup {IF g = "source" THEN "enabled" ELSE "disabled"}

\* The call returns after its POST was accepted; its operation is left behind
\* if it still has its effect to come.
Leave(r) ==
    /\ occ' = "none"
    /\ late' = IF occ = "processing" THEN [late EXCEPT ![Kind] = @ + 1] ELSE late
    /\ surprises' = IF r = "err" /\ occ \in {"applied", "completed", "early", "dirty"}
                    THEN Surprise(goal) ELSE surprises

ReturnFromOp(r) == Return(r) /\ Leave(r)

\* The cached token is used until 60 seconds before its expiry, a static one
\* for ever. When a valid one has come so near, the client logs in again.
UseToken ==
    /\ step = "token" /\ (StaticToken \/ token = "valid")
    /\ Goto("post")
    /\ UNCHANGED <<clusterVars, token, opVars>>

LoginOk ==
    /\ step = "token" /\ ~StaticToken
    /\ token' = "valid"
    /\ Goto("post")
    /\ UNCHANGED <<clusterVars, opVars>>

LoginFail ==
    /\ step = "token" /\ ~StaticToken
    /\ Return("err")
    /\ UNCHANGED <<clusterVars, token, opVars>>

Room == late[Kind] < MaxLate

\* 202 with an operation id.
PostAccepted ==
    /\ step = "post" /\ token # "expired" /\ Room
    /\ occ' = "processing"
    /\ Goto("poll")
    /\ UNCHANGED <<clusterVars, token, late, surprises>>

\* The operation has started, but the answer is lost or has no id.
PostUnanswered ==
    /\ step = "post" /\ token # "expired" /\ Room
    /\ late' = [late EXCEPT ![Kind] = @ + 1]
    /\ Return("err")
    /\ UNCHANGED <<clusterVars, token, occ, surprises>>

PostRefused ==
    /\ step = "post"
    /\ Return("err")
    /\ UNCHANGED <<clusterVars, token, opVars>>

\* Slip: the loop has no deadline of its own.
PollAgainForEver ==
    /\ step = "poll"
    /\ Goto("wait")
    /\ UNCHANGED <<clusterVars, token, opVars>>

\* Slip: the deadline is compared after the request, one round too late.
PollAgainOnceMore ==
    /\ step = "poll" /\ polls <= MaxPolls
    /\ step' = "wait" /\ polls' = polls + 1
    /\ UNCHANGED <<clusterVars, token, opVars, on, goal, ret>>

\* STARTING, PROCESSING, no body, or any answer without a state: the HTTP
\* status is not looked at, so an expired token looks like this too.
PollAgain ==
    /\ step = "poll" /\ polls < MaxPolls
    /\ step' = "wait" /\ polls' = polls + 1
    /\ UNCHANGED <<clusterVars, token, opVars, on, goal, ret>>

PollIntervalOver ==
    /\ step = "wait"
    /\ Goto("poll")
    /\ UNCHANGED <<clusterVars, token, opVars>>

\* COMPLETED: SetReadOnly is done, SetReadWrite goes on to its write probe.
PollCompleted ==
    /\ step = "poll" /\ polls < MaxPolls /\ token # "expired"
    /\ occ \in {"completed", "early"}
    /\ IF goal = "source" THEN Goto("probe") /\ UNCHANGED opVars ELSE ReturnFromOp("ok")
    /\ UNCHANGED <<clusterVars, token>>

\* FAILED, FAILED_TEMP or ROLLED_BACK.
PollFailed ==
    /\ step = "poll" /\ polls < MaxPolls /\ token # "expired"
    /\ occ \in {"failed", "dirty"}
    /\ ReturnFromOp("err")
    /\ UNCHANGED <<clusterVars, token>>

\* The request or the decoding fails, or the context is done.
PollBroken ==
    /\ step \in {"poll", "wait"}
    /\ ReturnFromOp("err")
    /\ UNCHANGED <<clusterVars, token>>

PollDeadline ==
    /\ step = "poll" /\ polls = MaxPolls
    /\ ReturnFromOp("err")
    /\ UNCHANGED <<clusterVars, token>>

\* verifyWrite. Unlike the direct manager it takes nothing back on failure.
ProbeOk ==
    /\ step = "probe" /\ on \in writable
    /\ ReturnFromOp("ok")
    /\ UNCHANGED <<clusterVars, token>>

ProbeFail ==
    /\ step = "probe"
    /\ ReturnFromOp("err")
    /\ UNCHANGED <<clusterVars, token>>

ClientStep ==
    \/ UseToken \/ LoginOk \/ LoginFail
    \/ PostAccepted \/ PostUnanswered \/ PostRefused
    \/ PollAgain \/ PollIntervalOver \/ PollCompleted \/ PollFailed \/ PollBroken \/ PollDeadline
    \/ ProbeOk \/ ProbeFail

-----------------------------------------------------------------------------
(***************************************************************************)
(* The MANO service and the PXC operator. Operations advance independently *)
(* of each other and of the calls.                                         *)
(***************************************************************************)

Apply(c, g) == isSource' = IF g = "source" THEN isSource \cup {c} ELSE isSource \ {c}

\* The operation a call is following.
OccApply ==
    /\ occ = "processing"
    /\ occ' = "applied" /\ Apply(on, goal)
    /\ UNCHANGED <<writable, token, late, surprises, frameVars>>

OccComplete ==
    /\ occ = "applied"
    /\ IF (on \in writable) <=> (goal = "source")
       THEN occ' = "completed" /\ UNCHANGED surprises
       ELSE /\ occ' = "early"
            /\ surprises' = IF goal = "source" THEN surprises ELSE surprises \cup {"earlyFence"}
    /\ UNCHANGED <<clusterVars, token, late, frameVars>>

OccFail ==
    /\ occ \in {"processing", "applied"}
    /\ occ' = IF occ = "applied" THEN "dirty" ELSE "failed"
    /\ UNCHANGED <<clusterVars, token, late, surprises, frameVars>>

\* One that was left behind.
LateApply(o) ==
    /\ late[o] > 0
    /\ late' = [late EXCEPT ![o] = @ - 1]
    /\ Apply(o.on, o.goal)
    /\ surprises' = Surprise(o.goal)
    /\ UNCHANGED <<writable, token, occ, frameVars>>

LateFail(o) ==
    /\ late[o] > 0
    /\ late' = [late EXCEPT ![o] = @ - 1]
    /\ UNCHANGED <<clusterVars, token, occ, surprises, frameVars>>

\* The operator makes read_only follow isSource, at a time of its own.
OperatorEnforce(c) ==
    /\ (c \in isSource) # (c \in writable)
    /\ writable' = IF c \in isSource THEN writable \cup {c} ELSE writable \ {c}
    /\ UNCHANGED <<isSource, token, opVars, frameVars>>

\* The token of the call in progress expires: the margin was too short for it,
\* the service granted less, or the token is static.
TokenExpires ==
    /\ step \in {"post", "poll"} /\ token = "valid"
    /\ token' = "expired"
    /\ UNCHANGED <<clusterVars, opVars, frameVars>>

ServiceStep ==
    \/ OccApply \/ OccComplete \/ OccFail
    \/ \E o \in LateOps : LateApply(o) \/ LateFail(o)
    \/ \E c \in Clusters : OperatorEnforce(c)
    \/ TokenExpires

=============================================================================
