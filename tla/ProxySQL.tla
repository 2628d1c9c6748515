------------------------------ MODULE ProxySQL ------------------------------
(***************************************************************************)
(* The ProxySQL manager (internal/proxysql/manager.go) and the instances   *)
(* it administers.                                                         *)
(*                                                                         *)
(* An instance keeps three copies of mysql_servers: the admin table that   *)
(* DML changes (mem), the copy that routes traffic (runtime, replaced by   *)
(* LOAD ... TO RUNTIME) and the one read at start-up (disk, replaced by    *)
(* SAVE ... TO DISK). A row is <<hostgroup, host>>, which with the port is *)
(* the table's primary key; rows of "bh" are OFFLINE_HARD, the others      *)
(* ONLINE.                                                                 *)
(*                                                                         *)
(* ApplyFailoverRouting and Blackhole loop over the endpoints, in any      *)
(* order: todo holds the instances the current loop has not finished with, *)
(* loopErrs what its iterations failed on: "io" (connection, statement,    *)
(* deadline) or "pk" (primary key). A visit is a sequence of statements,   *)
(* each a step of its own, and answered counts those of the current visit  *)
(* that have returned without an error. A restart may come between any two *)
(* of them: database/sql reconnects and the next one runs on the tables    *)
(* read from disk.                                                         *)
(***************************************************************************)
EXTENDS Naturals, FiniteSets

CONSTANTS
    Instances,          \* the local ProxySQL admin endpoints
    OldWriter,          \* RoutingConfig.OldWriterHost, BlackholeConfig.TargetHost
    NewWriter,          \* RoutingConfig.NewWriterHost
    WriterServesReads   \* whether OldWriter starts with a row in the read hostgroup

VARIABLES mem, runtime, disk, todo, loopErrs, answered

tableVars == <<mem, runtime, disk>>
loopVars == <<todo, loopErrs, answered>>

Hostgroups == {"rw", "ro", "bh"}
Rows == Hostgroups \X {OldWriter, NewWriter}

InitialRows ==
    {<<"rw", OldWriter>>, <<"ro", NewWriter>>}
        \cup (IF WriterServesReads THEN {<<"ro", OldWriter>>} ELSE {})

ProxyInit ==
    /\ mem = [i \in Instances |-> InitialRows]
    /\ runtime = [i \in Instances |-> InitialRows]
    /\ disk = [i \in Instances |-> InitialRows]
    /\ todo = {} /\ loopErrs = {}
    /\ answered = [i \in Instances |-> 0]

ProxyTypeOK ==
    /\ mem \in [Instances -> SUBSET Rows]
    /\ runtime \in [Instances -> SUBSET Rows]
    /\ disk \in [Instances -> SUBSET Rows]
    /\ todo \subseteq Instances
    /\ loopErrs \subseteq {"io", "pk"}
    /\ answered \in [Instances -> 0..3]

\* Instance i sends writes to host h.
RoutesWritesTo(i, h) == <<"rw", h>> \in runtime[i]

-----------------------------------------------------------------------------
(***************************************************************************)
(* A loop over the instances and a visit of one of them.                   *)
(***************************************************************************)

StartLoop ==
    /\ todo' = Instances /\ loopErrs' = {}
    /\ answered' = [i \in Instances |-> 0]

\* No loop is running: the process that ran one is gone, or starts anew.
DropLoop ==
    /\ todo' = {} /\ loopErrs' = {}
    /\ answered' = [i \in Instances |-> 0]

\* The next statement goes to instance i: no other visit is unfinished.
Visiting(i) == i \in todo /\ \A j \in Instances \ {i} : answered[j] = 0

Leave(i, errs) ==
    /\ todo' = todo \ {i} /\ loopErrs' = loopErrs \cup errs
    /\ answered' = [answered EXCEPT ![i] = 0]

\* The statement returned without an error; last is the visit's last one.
Answer(i, last) ==
    \/ answered[i] + 1 = last /\ Leave(i, {})
    \/ /\ answered[i] + 1 < last
       /\ answered' = [answered EXCEPT ![i] = @ + 1]
       /\ UNCHANGED <<todo, loopErrs>>

\* The effect of the statements: DML, LOAD MYSQL SERVERS TO RUNTIME and
\* SAVE MYSQL SERVERS TO DISK.
Dml(i, rows) == mem' = [mem EXCEPT ![i] = rows] /\ UNCHANGED <<runtime, disk>>
Load(i) == runtime' = [runtime EXCEPT ![i] = mem[i]] /\ UNCHANGED <<mem, disk>>
Save(i) == disk' = [disk EXCEPT ![i] = mem[i]] /\ UNCHANGED <<mem, runtime>>

-----------------------------------------------------------------------------
(***************************************************************************)
(* Phase 1 of ApplyFailoverRouting: runPrepareSteps, DELETE and two        *)
(* INSERT OR REPLACE, each effective in the admin table at once.           *)
(***************************************************************************)

PrepareStmt(i) ==
    \/ answered[i] = 0 /\ Dml(i, mem[i] \ {<<"rw", OldWriter>>})
    \/ answered[i] = 1 /\ Dml(i, mem[i] \cup {<<"rw", NewWriter>>})
    \/ answered[i] = 2 /\ Dml(i, mem[i] \cup {<<"ro", NewWriter>>})

PrepareOk(i) == Visiting(i) /\ PrepareStmt(i) /\ Answer(i, 3)

\* The ping or a statement failed, or its answer was lost after it took
\* effect; what was staged stays staged.
PrepareFail(i) ==
    /\ Visiting(i)
    /\ UNCHANGED tableVars \/ PrepareStmt(i)
    /\ Leave(i, {"io"})

(***************************************************************************)
(* Phase 2: commitOne.                                                     *)
(***************************************************************************)

CommitStmt(i) ==
    \/ answered[i] = 0 /\ Load(i)
    \/ answered[i] = 1 /\ Save(i)

CommitOk(i) == Visiting(i) /\ CommitStmt(i) /\ Answer(i, 2)

CommitFail(i) ==
    /\ Visiting(i)
    /\ UNCHANGED tableVars \/ CommitStmt(i)
    /\ Leave(i, {"io"})

-----------------------------------------------------------------------------
(***************************************************************************)
(* Blackhole: runBlackholeSteps on every instance.                         *)
(***************************************************************************)

HostRows(t, h) == {r \in t : r[2] = h}

\* UPDATE ... SET hostgroup_id moves every row of the host to one hostgroup:
\* two such rows collide on the primary key and the statement fails.
UpdateCollides(t) == Cardinality(HostRows(t, OldWriter)) > 1
Moved(t) == {IF r[2] = OldWriter THEN <<"bh", OldWriter>> ELSE r : r \in t}

BlackholeStmt(i) ==
    \/ answered[i] = 0 /\ ~UpdateCollides(mem[i]) /\ Dml(i, Moved(mem[i]))
    \/ answered[i] = 1 /\ Dml(i, mem[i] \cup {<<"bh", OldWriter>>})
    \/ answered[i] = 2 /\ Load(i)
    \/ answered[i] = 3 /\ Save(i)

BlackholeOk(i) == Visiting(i) /\ BlackholeStmt(i) /\ Answer(i, 4)

BlackholeFail(i) ==
    /\ Visiting(i)
    /\ UNCHANGED tableVars \/ BlackholeStmt(i)
    /\ Leave(i, {"io"})

\* The UPDATE violates the primary key.
BlackholeRefused(i) ==
    /\ Visiting(i) /\ answered[i] = 0
    /\ UpdateCollides(mem[i])
    /\ Leave(i, {"pk"})
    /\ UNCHANGED tableVars

-----------------------------------------------------------------------------
\* An instance restarts from its saved configuration.
ProxyRestart(i) ==
    /\ <<mem[i], runtime[i]>> # <<disk[i], disk[i]>>
    /\ mem' = [mem EXCEPT ![i] = disk[i]]
    /\ runtime' = [runtime EXCEPT ![i] = disk[i]]
    /\ UNCHANGED <<disk, loopVars>>

=============================================================================
