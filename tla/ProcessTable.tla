---------------------------- MODULE ProcessTable ----------------------------
(***************************************************************************)
(* The process manager (managers/process.py): the records of the processes *)
(* in memory, the pid table over them, and their rows, while processes     *)
(* exit, pids are used again, the database fails and the program restarts. *)
(*                                                                         *)
(* All statements go through one database connection in the order they are *)
(* issued; `row` is what the connection sees, `disk` what has been         *)
(* committed, and every commit commits everything.                         *)
(***************************************************************************)
EXTENDS Naturals

CONSTANTS
    Pid,
    ProcId,         \* the process ids a record can be given
    NoId,
    Req,            \* the coroutines that call the manager
    Free,           \* the registry lock is not held
    MaxBirths,      \* bound: processes that get the same pid, one after the other
    MaxCrashes,     \* bound: restarts of the program
    MaxFailures     \* bound: writes and commits that fail

ASSUME TableAssumption ==
    /\ NoId \notin ProcId /\ Free \notin Req
    /\ MaxBirths \in Nat /\ MaxCrashes \in Nat /\ MaxFailures \in Nat

VARIABLES
    alive,      \* the process that has the pid: the how-many-eth one, 0 for none
    births,     \* how many have had it
    record,     \* the record made for each process id; `birth` is the process it is of
    table,      \* the keys of _processes
    owner,      \* _pid_to_process_id
    row, disk,  \* status in process_registry, before and after the commit
    unsaved,    \* records whose last write did not reach the database
    failures,   \* how many writes and commits have failed
    lock,       \* _registry_lock
    at,         \* what each coroutine is waiting for
    up, crashes

osVars == <<alive, births>>
memVars == <<record, table, owner>>
dbVars == <<row, disk, unsaved, failures>>
runVars == <<up, crashes>>
tableVars == <<osVars, memVars, dbVars, runVars, lock, at>>

Active == {"running", "stopping"}       \* with "starting", which lasts no await
Status == Active \cup {"stopped", "orphaned"}
NoRow == "none"
NoRecord == [pid |-> NoId, birth |-> 0, status |-> NoRow]
Idle == [pc |-> "idle", id |-> NoId, left |-> {}]
Steps == {"idle", "detecting", "logging", "registering", "unregistering", "saving",
          "signalling", "waiting", "cleaning", "beating", "sweeping"}

ProcRecord == [pid : Pid, birth : 1 .. MaxBirths, status : Status]
CallState == [pc : Steps, id : ProcId \cup {NoId}, left : SUBSET ProcId]

PidOf(i) == record[i].pid
IsAlive(i) == alive[PidOf(i)] # 0                   \* os.kill(pid, 0)
Lives(i) == IsAlive(i) /\ alive[PidOf(i)] = record[i].birth

TableTypeOK ==
    /\ births \in [Pid -> 0 .. MaxBirths]
    /\ alive \in [Pid -> 0 .. MaxBirths] /\ \A p \in Pid : alive[p] \in {0, births[p]}
    /\ record \in [ProcId -> ProcRecord \cup {NoRecord}]
    /\ table \subseteq {i \in ProcId : record[i] # NoRecord}
    /\ owner \in [Pid -> ProcId \cup {NoId}]
    /\ row \in [ProcId -> Status \cup {NoRow}] /\ disk \in [ProcId -> Status \cup {NoRow}]
    /\ \A i \in ProcId : record[i] = NoRecord => row[i] = NoRow /\ disk[i] = NoRow
    /\ unsaved \subseteq ProcId
    /\ lock \in Req \cup {Free}
    /\ at \in [Req -> CallState]
    /\ failures \in 0 .. MaxFailures /\ up \in BOOLEAN /\ crashes \in 0 .. MaxCrashes

TableInit ==
    /\ births = [p \in Pid |-> 0] /\ alive = births
    /\ record = [i \in ProcId |-> NoRecord] /\ table = {} /\ owner = [p \in Pid |-> NoId]
    /\ row = [i \in ProcId |-> NoRow] /\ disk = row /\ unsaved = {}
    /\ lock = Free /\ at = [r \in Req |-> Idle]
    /\ failures = 0 /\ up = TRUE /\ crashes = 0

-----------------------------------------------------------------------------
(* The operating system *)

Spawn(p) ==
    /\ alive[p] = 0 /\ births[p] < MaxBirths
    /\ births' = [births EXCEPT ![p] = @ + 1]
    /\ alive' = [alive EXCEPT ![p] = births[p] + 1]
    /\ UNCHANGED <<memVars, dbVars, runVars, lock, at>>

Exit(p) ==
    /\ alive[p] # 0
    /\ alive' = [alive EXCEPT ![p] = 0]
    /\ UNCHANGED <<births, memVars, dbVars, runVars, lock, at>>

-----------------------------------------------------------------------------
(* _save_process: a write that is issued, and the commit that ends it.  When *)
(* either fails the exception ends the call, and the lock is released.       *)

Move(r, step, i, left) == at' = [at EXCEPT ![r] = [pc |-> step, id |-> i, left |-> left]]
Goto(r, step, i) == Move(r, step, i, {})
Ends(r) == at' = [at EXCEPT ![r] = Idle] /\ lock' = (IF lock = r THEN Free ELSE lock)

Write(i, status) ==
    /\ row' = [row EXCEPT ![i] = status]
    /\ unsaved' = unsaved \ {i}
    /\ UNCHANGED failures

Loses(r, i) ==
    /\ failures < MaxFailures /\ failures' = failures + 1
    /\ unsaved' = unsaved \cup {i}
    /\ Ends(r)
    /\ UNCHANGED row

Save(r, i, status, step) ==
    \/ Write(i, status) /\ Goto(r, step, i) /\ UNCHANGED lock
    \/ Loses(r, i)

Commit == disk' = row

SetStatus(i, status) ==
    record' = [record EXCEPT ![i] = [pid |-> PidOf(i), birth |-> record[i].birth, status |-> status]]

CommitFails(r) ==
    /\ Loses(r, at[r].id)
    /\ UNCHANGED <<osVars, memVars, disk, runVars>>

\* The end of a call that waits for the commit and nothing else.
Saved(r) ==
    /\ at[r].pc = "saving"
    /\ \/ Commit /\ Ends(r) /\ UNCHANGED <<osVars, memVars, row, unsaved, failures, runVars>>
       \/ CommitFails(r)

-----------------------------------------------------------------------------
(* Registration, under the lock *)

\* A pid that is in the table with a record whose pid is alive is asked about
\* in the database before the record is returned.
RegisterKnown(r, p) ==
    /\ up /\ at[r] = Idle /\ lock = Free /\ alive[p] # 0
    /\ owner[p] \in table
    /\ lock' = r /\ Goto(r, "detecting", owner[p])
    /\ UNCHANGED <<osVars, memVars, dbVars, runVars>>

\* _detect_pid_reuse compares with pid_info, which _save_process never writes.
ReturnKnown(r) ==
    /\ at[r].pc = "detecting"
    /\ Ends(r)
    /\ UNCHANGED <<osVars, memVars, dbVars, runVars>>

\* Mutant: no psutil handle, no change of the status.
RegisterStarting(r, p, i) ==
    /\ up /\ at[r] = Idle /\ lock = Free /\ alive[p] # 0
    /\ owner[p] \notin table
    /\ record[i] = NoRecord
    /\ record' = [record EXCEPT ![i] = [pid |-> p, birth |-> alive[p], status |-> "starting"]]
    /\ table' = table \cup {i}
    /\ owner' = [owner EXCEPT ![p] = i]
    /\ lock' = r /\ Goto(r, "logging", i)
    /\ UNCHANGED <<osVars, dbVars, runVars>>

RegisterNew(r, p, i) ==
    /\ up /\ at[r] = Idle /\ lock = Free /\ alive[p] # 0
    /\ owner[p] \notin table
    /\ record[i] = NoRecord
    /\ record' = [record EXCEPT ![i] = [pid |-> p, birth |-> alive[p], status |-> "running"]]
    /\ table' = table \cup {i}
    /\ owner' = [owner EXCEPT ![p] = i]
    /\ lock' = r /\ Goto(r, "logging", i)
    /\ UNCHANGED <<osVars, dbVars, runVars>>

\* The audit event has been committed; the row follows.
Logged(r) ==
    LET i == at[r].id IN
    /\ at[r].pc = "logging"
    /\ \/ Commit /\ Save(r, i, record[i].status, "registering") /\ UNCHANGED <<osVars, memVars, runVars>>
       \/ CommitFails(r)

\* register_process() then raises: the priority of its event does not exist.
Registered(r) ==
    /\ at[r].pc = "registering"
    /\ \/ /\ Commit /\ Ends(r)
          /\ UNCHANGED <<osVars, memVars, row, unsaved, failures, runVars>>
       \/ CommitFails(r)

\* Mutant: the pid stays in the pid table.
UnregisterKeepsPid(r, i) ==
    /\ up /\ at[r] = Idle /\ lock = Free /\ i \in table
    /\ SetStatus(i, "stopped")
    /\ table' = table \ {i}
    /\ \/ Write(i, "stopped") /\ Goto(r, "unregistering", i) /\ lock' = r
       \/ Loses(r, i)
    /\ UNCHANGED <<osVars, owner, disk, runVars>>

Unregister(r, i) ==
    /\ up /\ at[r] = Idle /\ lock = Free /\ i \in table
    /\ SetStatus(i, "stopped")
    /\ table' = table \ {i}
    /\ owner' = [owner EXCEPT ![PidOf(i)] = NoId]
    /\ \/ Write(i, "stopped") /\ Goto(r, "unregistering", i) /\ lock' = r
       \/ Loses(r, i)
    /\ UNCHANGED <<osVars, disk, runVars>>

Unregistered(r) ==
    /\ at[r].pc = "unregistering"
    /\ \/ /\ Commit /\ Ends(r)
          /\ UNCHANGED <<osVars, memVars, row, unsaved, failures, runVars>>
       \/ CommitFails(r)

-----------------------------------------------------------------------------
(* Heartbeats, validation and termination take no lock *)

\* The row is written at most once a minute.
Heartbeat(r, i) ==
    /\ up /\ at[r] = Idle /\ i \in table
    /\ Save(r, i, record[i].status, "saving")
    /\ UNCHANGED <<osVars, memVars, disk, runVars>>

\* The audit event is committed, the row is not written.
ValidateIntegrity(r, i) ==
    /\ up /\ at[r] = Idle /\ i \in table /\ ~IsAlive(i)
    /\ SetStatus(i, "orphaned")
    /\ Goto(r, "saving", i)
    /\ UNCHANGED <<osVars, table, owner, dbVars, runVars, lock>>

SaveAs(r, i, status, step) ==
    /\ SetStatus(i, status)
    /\ Save(r, i, status, step)

Terminate(r, i) ==
    /\ up /\ at[r] = Idle /\ i \in table
    /\ \/ IsAlive(i) /\ SaveAs(r, i, "stopping", "signalling")
       \/ ~IsAlive(i) /\ SaveAs(r, i, "stopped", "saving")
    /\ UNCHANGED <<osVars, table, owner, disk, runVars>>

Kill(i) == alive' = [alive EXCEPT ![PidOf(i)] = 0]

\* SIGKILL if forced, else SIGTERM.  With no process to signal the call raises
\* and the record stays "stopping".
Signal(r) ==
    LET i == at[r].id IN
    /\ at[r].pc = "signalling"
    /\ \/ /\ Commit
          /\ \/ IsAlive(i) /\ Kill(i) /\ SaveAs(r, i, "stopped", "saving")
             \/ IsAlive(i) /\ Goto(r, "waiting", i) /\ UNCHANGED <<alive, record, row, unsaved, failures, lock>>
             \/ ~IsAlive(i) /\ Ends(r) /\ UNCHANGED <<alive, record, row, unsaved, failures>>
          /\ UNCHANGED <<births, table, owner, runVars>>
       \/ CommitFails(r)

\* The process has gone, or the time is over and it is killed, or it goes
\* between the last look and the kill, which then raises.
WaitEnds(r) ==
    LET i == at[r].id IN
    /\ at[r].pc = "waiting"
    /\ \/ ~IsAlive(i) /\ SaveAs(r, i, "stopped", "saving") /\ UNCHANGED alive
       \/ IsAlive(i) /\ Kill(i) /\ SaveAs(r, i, "stopped", "saving")
       \/ ~IsAlive(i) /\ Ends(r) /\ UNCHANGED <<alive, record, row, unsaved, failures>>
    /\ UNCHANGED <<births, table, owner, disk, runVars>>

-----------------------------------------------------------------------------
(* The clean-ups of the rows.  After the first DELETE they name a type that   *)
(* does not exist: the exception is swallowed, the DELETE stays uncommitted.  *)

\* Rows without a recent heartbeat.
CleanStale(r) ==
    /\ up /\ at[r] = Idle
    /\ \E stale \in SUBSET {i \in ProcId : row[i] # NoRow} :
          Move(r, "cleaning", NoId, stale)
    /\ UNCHANGED <<osVars, memVars, dbVars, runVars, lock>>

Delete(ids) == row' = [i \in ProcId |-> IF i \in ids THEN NoRow ELSE row[i]]

\* A process that exists has its heartbeat updated, and that raises when the
\* record is not in the table.
CleanNext(r) ==
    /\ at[r].pc = "cleaning"
    /\ \/ \E i \in at[r].left :
             \/ ~IsAlive(i) /\ Delete({i}) /\ Ends(r) /\ UNCHANGED <<unsaved, failures>>
             \/ IsAlive(i) /\ i \notin table /\ Ends(r) /\ UNCHANGED <<row, unsaved, failures>>
             \/ /\ IsAlive(i) /\ i \in table /\ UNCHANGED lock
                /\ \/ Move(r, "cleaning", NoId, at[r].left \ {i}) /\ UNCHANGED <<row, unsaved, failures>>
                   \/ /\ Write(i, record[i].status)
                      /\ Move(r, "beating", i, at[r].left \ {i})
             \/ IsAlive(i) /\ i \in table /\ Loses(r, i)
          /\ UNCHANGED disk
       \/ at[r].left = {} /\ Commit /\ Ends(r) /\ UNCHANGED <<row, unsaved, failures>>
    /\ UNCHANGED <<osVars, memVars, runVars>>

Beaten(r) ==
    /\ at[r].pc = "beating"
    /\ \/ /\ Commit
          /\ Move(r, "cleaning", NoId, at[r].left)
          /\ UNCHANGED <<osVars, memVars, row, unsaved, failures, runVars, lock>>
       \/ CommitFails(r)

\* Rows whose pid does not exist.
CleanOrphans(r) ==
    /\ up /\ at[r] = Idle
    /\ Move(r, "sweeping", NoId, {i \in ProcId : row[i] # NoRow})
    /\ UNCHANGED <<osVars, memVars, dbVars, runVars, lock>>

\* Mutant: the rows are taken away without a look at the process, and committed.
SweptBlindly(r) ==
    /\ at[r].pc = "sweeping"
    /\ Delete(at[r].left) /\ disk' = row'
    /\ Ends(r)
    /\ UNCHANGED <<osVars, memVars, unsaved, failures, runVars>>

Swept(r) ==
    /\ at[r].pc = "sweeping"
    /\ \/ \E i \in at[r].left :
             /\ ~IsAlive(i)
             /\ Delete({j \in ProcId : record[j] # NoRecord /\ PidOf(j) = PidOf(i)})
             /\ UNCHANGED disk
       \/ (\A i \in at[r].left : IsAlive(i)) /\ Commit /\ UNCHANGED row
    /\ Ends(r)
    /\ UNCHANGED <<osVars, memVars, unsaved, failures, runVars>>

-----------------------------------------------------------------------------
(* Restart *)

Crash ==
    /\ up /\ crashes < MaxCrashes
    /\ up' = FALSE /\ crashes' = crashes + 1
    /\ table' = {} /\ owner' = [p \in Pid |-> NoId]
    /\ row' = disk
    /\ lock' = Free /\ at' = [r \in Req |-> Idle]
    /\ UNCHANGED <<osVars, record, disk, unsaved, failures>>

\* _initialize: the active rows are read back, but each of them raises while it
\* is parsed: column 12, taken for created_at, is pid_info, which
\* _save_process never writes.  The exception is logged, and nothing is loaded.
Load ==
    /\ ~up /\ up' = TRUE
    /\ UNCHANGED <<osVars, memVars, dbVars, crashes, lock, at>>

-----------------------------------------------------------------------------
Answer(r) ==
    \/ ReturnKnown(r) \/ Logged(r) \/ Registered(r) \/ Unregistered(r) \/ Saved(r)
    \/ Signal(r) \/ WaitEnds(r) \/ CleanNext(r) \/ Beaten(r) \/ Swept(r)

Call(r) ==
    \/ \E p \in Pid : RegisterKnown(r, p) \/ \E i \in ProcId : RegisterNew(r, p, i)
    \/ \E i \in ProcId : Unregister(r, i) \/ Heartbeat(r, i) \/ ValidateIntegrity(r, i) \/ Terminate(r, i)
    \/ CleanStale(r) \/ CleanOrphans(r)

TableNext ==
    \/ \E p \in Pid : Spawn(p) \/ Exit(p)
    \/ \E r \in Req : Call(r) \/ Answer(r)
    \/ Crash \/ Load

TableSpec == TableInit /\ [][TableNext]_tableVars

-----------------------------------------------------------------------------
(* Properties *)

\* The pid table names records of _processes that have the pid: registration
\* and unregistration change the two together.
PidsNameRecords ==
    \A p \in Pid : owner[p] # NoId => owner[p] \in table /\ PidOf(owner[p]) = p

\* Every record is found by its pid, so no process is registered twice: also
\* when pids are used again, a write fails or the program restarts at any await
\* of any call (register_process, unregister_process).
FoundByPid == \A i \in table : owner[PidOf(i)] = i

\* Is the row of the record not yet where it should be, and a call at work on it?
Pending(i) ==
    \E r \in Req : at[r].id = i /\ at[r].pc \in {"logging", "registering", "saving", "signalling", "beating"}

\* A process that is registered and lives has a committed active row, unless
\* its write failed: no clean-up, termination or heartbeat of anybody, for this
\* record or for an old one of the same pid, takes it away.
LiveIsRecorded ==
    \A i \in table : Lives(i) /\ i \notin unsaved /\ ~Pending(i) => disk[i] \in Active

LookupInv == PidsNameRecords /\ FoundByPid /\ LiveIsRecorded

\* What the table promises from one call to the next, whoever calls.
TableInv == TableTypeOK /\ LookupInv

\* "Load active processes from database." (_load_active_processes): a start puts
\* the committed active rows into the table.
ActiveAreLoaded ==
    [][\A i \in ProcId : Load /\ disk[i] \in Active => i \in table']_tableVars

\* register_process answers with a record of the process that has the pid
\* ("Detect if a PID has been reused", _detect_pid_reuse).
DetectsReuse ==
    [][\A r \in Req : ReturnKnown(r) /\ IsAlive(at[r].id) => Lives(at[r].id)]_tableVars

\* A signal of terminate_process reaches the process it was registered for.
SignalsItsOwn ==
    [][\A r \in Req : (Signal(r) \/ WaitEnds(r)) /\
          alive'[PidOf(at[r].id)] # alive[PidOf(at[r].id)] => Lives(at[r].id)]_tableVars

=============================================================================
