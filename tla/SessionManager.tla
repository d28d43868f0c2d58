--------------------------- MODULE SessionManager ---------------------------
(***************************************************************************)
(* The session manager (managers/session.py) with the stream task of each  *)
(* session (streaming/processor.py).  Everything runs on one asyncio loop, *)
(* so a step of this module is what a coroutine does between two awaits    *)
(* that really suspend; between steps any other task may run.              *)
(*                                                                         *)
(* A session is identified with the create_session call that makes it      *)
(* (ids are fresh uuids).  Per session there are: the creator, the stream  *)
(* task, and one cancel_session call of each canceller (users, and the     *)
(* gather() of _shutdown_sessions).  The monitor serves all sessions.      *)
(*                                                                         *)
(* Time is a flag: overdue[s] says the clock the monitor reads for s       *)
(* (session_timeout since start_time while running, 300 s since end_time   *)
(* afterwards) has run out.  Assumption: spawning a process takes less     *)
(* than 300 s.                                                             *)
(***************************************************************************)
EXTENDS Naturals, FiniteSets

CONSTANTS
    Session,          \* the create_session calls
    Canceller,        \* callers of cancel_session; "shutdown" is the gather()
                      \* of _shutdown_sessions
    MaxConcurrent,    \* session_config.max_concurrent_sessions
    WriteIsAwaitable, \* FALSE: process.stdin is an asyncio StreamWriter, whose
                      \* write() returns None; TRUE: the AsyncMock of the tests
    DbMayFail,        \* can the statements of _save_session raise?
    Nobody            \* the lock is free / the monitor is not cleaning

ASSUME MaxConcurrentAssumption == MaxConcurrent \in Nat \ {0}
ASSUME SessionAssumption == IsFiniteSet(Session) /\ Nobody \notin Session
ASSUME SwitchAssumption == WriteIsAwaitable \in BOOLEAN /\ DbMayFail \in BOOLEAN

VARIABLES
    table,       \* the keys of _sessions
    lockHolder,  \* the creator that holds _session_lock, or Nobody
    creator,     \* where create_session is suspended
    state,       \* session.state ("absent" before the object exists)
    endTime,     \* session.metrics.end_time is set
    overdue,     \* the clock the monitor reads has run out
    process,     \* session.process as the operating system sees it
    signal,      \* the strongest signal sent to the process
    stream,      \* the task session._stream_task
    canceller,   \* where cancel_session is suspended, per caller and session
    shutdown,    \* _shutdown_sessions
    toClean,     \* sessions_to_clean of the monitor
    cleaning,    \* the session _cleanup_session waits for
    db           \* the state column of the session's row

callVars    == <<lockHolder, creator>>
sessionVars == <<state, endTime, overdue>>
osVars      == <<process, signal>>
monitorVars == <<toClean, cleaning>>
cancelVars  == <<canceller, shutdown>>
vars == <<table, callVars, sessionVars, osVars, stream, cancelVars, monitorVars, db>>

SessionState == {"absent", "created", "starting", "running", "cancelling",
                 "cancelled", "completed", "failed", "timeout"}

Terminal == {"completed", "failed", "cancelled", "timeout"}
Critical == {"discover", "saving", "spawning", "prompt"}  \* holds the lock
StreamActive == {"reading", "completing", "failing"}
CancelPending == {"called", "waitExit", "waitKill", "join", "saving"}
Alive(s) == process[s] = "alive"

\* What the tables, the tasks and the calls of managers/session.py may hold.
TypeOK ==
    /\ table \subseteq Session
    /\ lockHolder \in Session \cup {Nobody}
    /\ creator \in [Session -> {"idle", "waiting", "done", "failed"} \cup Critical]
    /\ state \in [Session -> SessionState]
    /\ endTime \in [Session -> BOOLEAN]
    /\ overdue \in [Session -> BOOLEAN]
    /\ process \in [Session -> {"none", "alive", "exited"}]
    /\ signal \in [Session -> {"none", "term", "kill"}]
    /\ stream \in [Session -> {"none", "done", "cancelled", "errored"} \cup StreamActive]
    /\ canceller \in [Canceller -> [Session -> {"idle", "done", "failed"} \cup CancelPending]]
    /\ shutdown \in {"idle", "cancelling", "down"}
    /\ toClean \subseteq Session
    /\ cleaning \in Session \cup {Nobody}
    /\ db \in [Session -> SessionState]

Init ==
    /\ table = {}
    /\ lockHolder = Nobody
    /\ creator = [s \in Session |-> "idle"]
    /\ state = [s \in Session |-> "absent"]
    /\ endTime = [s \in Session |-> FALSE]
    /\ overdue = [s \in Session |-> FALSE]
    /\ process = [s \in Session |-> "none"]
    /\ signal = [s \in Session |-> "none"]
    /\ stream = [s \in Session |-> "none"]
    /\ canceller = [k \in Canceller |-> [s \in Session |-> "idle"]]
    /\ shutdown = "idle"
    /\ toClean = {}
    /\ cleaning = Nobody
    /\ db = [s \in Session |-> "absent"]

-----------------------------------------------------------------------------
(* Helpers *)

Set(f, s, v) == [f EXCEPT ![s] = v]

\* metrics.end_time = utcnow(): the 300 s start now
StampEnd(s) == /\ endTime' = Set(endTime, s, TRUE)
               /\ overdue' = Set(overdue, s, FALSE)

\* The row takes the state the object has when the upsert is queued.
Save(s, st) == db' = Set(db, s, st)

CancelAt(k, s, pc) == canceller' = [canceller EXCEPT ![k][s] = pc]

\* create_session leaves the `async with _session_lock` block
Return(s, pc) == /\ creator' = Set(creator, s, pc)
                 /\ lockHolder' = Nobody

-----------------------------------------------------------------------------
(* create_session and _start_session *)

CallCreate(s) ==
    /\ creator[s] = "idle"
    /\ creator' = Set(creator, s, "waiting")
    /\ UNCHANGED <<table, lockHolder, sessionVars, osVars, stream, cancelVars, monitorVars, db>>

\* Mutant: one session more than the limit.
AcquireLockOffByOne(s) ==
    /\ creator[s] = "waiting"
    /\ lockHolder = Nobody
    /\ \/ /\ Cardinality(table) > MaxConcurrent
          /\ Return(s, "failed")
       \/ /\ Cardinality(table) <= MaxConcurrent
          /\ creator' = Set(creator, s, "discover")
          /\ lockHolder' = s
    /\ UNCHANGED <<table, sessionVars, osVars, stream, cancelVars, monitorVars, db>>

\* Mutant: the limit is checked without the lock.
AcquireNoLock(s) ==
    /\ creator[s] = "waiting"
    /\ Cardinality(table) < MaxConcurrent
    /\ creator' = Set(creator, s, "discover")
    /\ lockHolder' = s
    /\ UNCHANGED <<table, sessionVars, osVars, stream, cancelVars, monitorVars, db>>

\* The lock is taken and the limit checked; discover_binary suspends.
AcquireLock(s) ==
    /\ creator[s] = "waiting"
    /\ lockHolder = Nobody
    /\ \/ /\ Cardinality(table) >= MaxConcurrent
          /\ Return(s, "failed")
       \/ /\ Cardinality(table) < MaxConcurrent
          /\ creator' = Set(creator, s, "discover")
          /\ lockHolder' = s
    /\ UNCHANGED <<table, sessionVars, osVars, stream, cancelVars, monitorVars, db>>

\* The binary is known: the session enters the table and its first save starts.
Discovered(s) ==
    /\ creator[s] = "discover"
    /\ creator' = Set(creator, s, "saving")
    /\ table' = table \cup {s}
    /\ state' = Set(state, s, "created")
    /\ Save(s, "created")
    /\ UNCHANGED <<lockHolder, endTime, overdue, osVars, stream, cancelVars, monitorVars>>

\* Mutant: the error path keeps the lock.
DiscoverFailsKeepsLock(s) ==
    /\ creator[s] = "discover"
    /\ creator' = Set(creator, s, "failed")
    /\ UNCHANGED <<table, lockHolder, sessionVars, osVars, stream, cancelVars, monitorVars, db>>

DiscoverFails(s) ==
    /\ creator[s] = "discover"
    /\ Return(s, "failed")
    /\ UNCHANGED <<table, sessionVars, osVars, stream, cancelVars, monitorVars, db>>

CreateSaved(s) ==
    /\ creator[s] = "saving"
    /\ \/ /\ creator' = Set(creator, s, "spawning")
          /\ state' = Set(state, s, "starting")
          /\ UNCHANGED lockHolder
       \/ /\ DbMayFail
          /\ Return(s, "failed")
          /\ UNCHANGED state
    /\ UNCHANGED <<table, endTime, overdue, osVars, stream, cancelVars, monitorVars, db>>

\* create_subprocess_exec returns.  The state becomes RUNNING whatever it is,
\* the stream task is created, and the prompt is written: with a StreamWriter
\* the `await` of write()'s None raises before anything else can run.
Spawned(s) ==
    /\ creator[s] = "spawning"
    /\ process' = Set(process, s, "alive")
    /\ overdue' = Set(overdue, s, FALSE)
    /\ stream' = Set(stream, s, "reading")
    /\ IF WriteIsAwaitable
       THEN /\ state' = Set(state, s, "running")
            /\ creator' = Set(creator, s, "prompt")
            /\ UNCHANGED lockHolder
       ELSE /\ state' = Set(state, s, "failed")
            /\ Return(s, "failed")
    /\ UNCHANGED <<table, endTime, signal, cancelVars, monitorVars, db>>

SpawnFails(s) ==
    /\ creator[s] = "spawning"
    /\ state' = Set(state, s, "failed")
    /\ Return(s, "failed")
    /\ UNCHANGED <<table, endTime, overdue, osVars, stream, cancelVars, monitorVars, db>>

\* drain() returns, or raises because the other end of the pipe is gone.
Prompted(s) ==
    /\ creator[s] = "prompt"
    /\ \/ /\ Return(s, "done")
          /\ UNCHANGED state
       \/ /\ process[s] # "alive"
          /\ Return(s, "failed")
          /\ state' = Set(state, s, "failed")
    /\ UNCHANGED <<table, endTime, overdue, osVars, stream, cancelVars, monitorVars, db>>

-----------------------------------------------------------------------------
(* The Claude process: it may exit at any time, and closes its pipes then. *)

ProcessExits(s) ==
    /\ Alive(s)
    /\ process' = Set(process, s, "exited")
    /\ UNCHANGED <<table, callVars, sessionVars, signal, stream, cancelVars, monitorVars, db>>

-----------------------------------------------------------------------------
(* StreamProcessor.process_session *)

\* Mutant: the state is called "error".
FailStreamError(s) ==
    /\ state' = Set(state, s, "error")
    /\ StampEnd(s)
    /\ Save(s, "error")
    /\ stream' = Set(stream, s, "failing")

\* _handle_stream_error up to its save
FailStream(s) ==
    /\ state' = Set(state, s, "failed")
    /\ StampEnd(s)
    /\ Save(s, "failed")
    /\ stream' = Set(stream, s, "failing")

\* Mutant: any session that is not being cancelled completes.
EndOfStreamOverrides(s) ==
    /\ stream[s] = "reading"
    /\ process[s] # "alive"
    /\ state' = Set(state, s, IF state[s] = "cancelling" THEN state[s] ELSE "completed")
    /\ StampEnd(s)
    /\ Save(s, state'[s])
    /\ stream' = Set(stream, s, "completing")
    /\ UNCHANGED <<table, callVars, osVars, cancelVars, monitorVars>>

\* Mutant: the row is written before the verdict.
EndOfStreamSavesFirst(s) ==
    /\ stream[s] = "reading"
    /\ process[s] # "alive"
    /\ state' = Set(state, s, IF state[s] = "running" THEN "completed" ELSE state[s])
    /\ StampEnd(s)
    /\ Save(s, state[s])
    /\ stream' = Set(stream, s, "completing")
    /\ UNCHANGED <<table, callVars, osVars, cancelVars, monitorVars>>

\* Mutant: end_time is not set.
EndOfStreamNoEnd(s) ==
    /\ stream[s] = "reading"
    /\ process[s] # "alive"
    /\ state' = Set(state, s, IF state[s] = "running" THEN "completed" ELSE state[s])
    /\ Save(s, state'[s])
    /\ stream' = Set(stream, s, "completing")
    /\ UNCHANGED <<table, callVars, endTime, overdue, osVars, cancelVars, monitorVars>>

\* Mutant: the finished session is put back into _sessions.
EndOfStreamReinserts(s) ==
    /\ stream[s] = "reading"
    /\ process[s] # "alive"
    /\ table' = table \cup {s}
    /\ state' = Set(state, s, IF state[s] = "running" THEN "completed" ELSE state[s])
    /\ StampEnd(s)
    /\ Save(s, state'[s])
    /\ stream' = Set(stream, s, "completing")
    /\ UNCHANGED <<callVars, osVars, cancelVars, monitorVars>>

\* The read loop ends; _handle_stream_complete up to its save.
EndOfStream(s) ==
    /\ stream[s] = "reading"
    /\ process[s] # "alive"
    /\ state' = Set(state, s, IF state[s] = "running" THEN "completed" ELSE state[s])
    /\ StampEnd(s)
    /\ Save(s, state'[s])
    /\ stream' = Set(stream, s, "completing")
    /\ UNCHANGED <<table, callVars, osVars, cancelVars, monitorVars>>

StreamFault(s) ==
    /\ stream[s] = "reading"
    /\ FailStream(s)
    /\ UNCHANGED <<table, callVars, osVars, cancelVars, monitorVars>>

\* The save returns, or raises inside process_session's try.
StreamSaved(s) ==
    /\ stream[s] = "completing"
    /\ \/ /\ stream' = Set(stream, s, "done")
          /\ UNCHANGED <<sessionVars, db>>
       \/ /\ DbMayFail
          /\ FailStream(s)
    /\ UNCHANGED <<table, callVars, osVars, cancelVars, monitorVars>>

\* The handler's save returns or raises: the task ends with an exception.
StreamErrored(s) ==
    /\ stream[s] = "failing"
    /\ stream' = Set(stream, s, "errored")
    /\ UNCHANGED <<table, callVars, sessionVars, osVars, cancelVars, monitorVars, db>>

-----------------------------------------------------------------------------
(* cancel_session *)

\* `except Exception`: the state is FAILED, end_time stays as it is.
CancelRaises(k, s) ==
    /\ state' = Set(state, s, "failed")
    /\ CancelAt(k, s, "failed")

\* Mutant: the row is written before the state changes.
TearDownSavesFirst(k, s) ==
    /\ StampEnd(s)
    /\ state' = Set(state, s, "cancelled")
    /\ Save(s, state[s])
    /\ CancelAt(k, s, "saving")
    /\ stream' = Set(stream, s, IF stream[s] \in StreamActive THEN "cancelled" ELSE stream[s])

\* The process is gone: CANCELLED and end_time are set and the stream task is
\* cancelled.  Awaiting a task that has ended does not suspend, and raises what
\* the task raised.
TearDown(k, s) ==
    /\ StampEnd(s)
    /\ \/ /\ stream[s] \in StreamActive
          /\ state' = Set(state, s, "cancelled")
          /\ stream' = Set(stream, s, "cancelled")
          /\ CancelAt(k, s, "join")
          /\ UNCHANGED db
       \/ /\ stream[s] = "errored"
          /\ CancelRaises(k, s)
          /\ UNCHANGED <<stream, db>>
       \/ /\ stream[s] \in {"none", "done", "cancelled"}
          /\ state' = Set(state, s, "cancelled")
          /\ Save(s, "cancelled")
          /\ CancelAt(k, s, "saving")
          /\ UNCHANGED stream

\* The call up to its first suspension.  A user's call that finds nothing to
\* cancel changes nothing and is not a step.  killpg raises when the process
\* has been reaped, and does nothing to one that has exited but was not.
Cancel(k, s) ==
    /\ canceller[k][s] = IF k = "shutdown" THEN "called" ELSE "idle"
    /\ s \in table
    /\ state[s] \in {"running", "starting"}
    /\ \/ /\ process[s] = "none"
          /\ TearDown(k, s)
          /\ UNCHANGED signal
       \/ /\ process[s] # "none"
          /\ state' = Set(state, s, "cancelling")
          /\ CancelAt(k, s, "waitExit")
          /\ signal' = Set(signal, s, IF Alive(s) THEN "term" ELSE signal[s])
          /\ UNCHANGED <<endTime, overdue, stream, db>>
       \/ /\ process[s] = "exited"
          /\ CancelRaises(k, s)
          /\ UNCHANGED <<endTime, overdue, signal, stream, db>>
    /\ UNCHANGED <<table, callVars, process, shutdown, monitorVars>>

\* process.wait() returns within its 5 s, or after the SIGKILL.
ExitSeen(k, s) ==
    /\ canceller[k][s] \in {"waitExit", "waitKill"}
    /\ process[s] = "exited"
    /\ TearDown(k, s)
    /\ UNCHANGED <<table, callVars, osVars, shutdown, monitorVars>>

\* Mutant: SIGTERM is never followed by SIGKILL.
GraceOverNoKill(k, s) ==
    /\ canceller[k][s] = "waitExit"
    /\ Alive(s)
    /\ CancelAt(k, s, "waitKill")
    /\ UNCHANGED <<table, callVars, sessionVars, osVars, stream, shutdown, monitorVars, db>>

\* The 5 s are over: SIGKILL, which raises when the process was just reaped.
GraceOver(k, s) ==
    /\ canceller[k][s] = "waitExit"
    /\ \/ /\ Alive(s)
          /\ signal' = Set(signal, s, "kill")
          /\ CancelAt(k, s, "waitKill")
          /\ UNCHANGED state
       \/ /\ process[s] = "exited"
          /\ CancelRaises(k, s)
          /\ UNCHANGED signal
    /\ UNCHANGED <<table, callVars, endTime, overdue, process, stream, shutdown, monitorVars, db>>

\* The cancelled stream task has ended; the save is queued.
StreamJoined(k, s) ==
    /\ canceller[k][s] = "join"
    /\ Save(s, state[s])
    /\ CancelAt(k, s, "saving")
    /\ UNCHANGED <<table, callVars, sessionVars, osVars, stream, shutdown, monitorVars>>

CancelSaved(k, s) ==
    /\ canceller[k][s] = "saving"
    /\ \/ /\ CancelAt(k, s, "done")
          /\ UNCHANGED state
       \/ /\ DbMayFail
          /\ CancelRaises(k, s)
    /\ UNCHANGED <<table, callVars, endTime, overdue, osVars, stream, shutdown, monitorVars, db>>

-----------------------------------------------------------------------------
(* _shutdown_sessions: one cancel_session per session of the table, gathered *)

BeginShutdown ==
    /\ shutdown = "idle" /\ "shutdown" \in Canceller
    /\ shutdown' = "cancelling"
    /\ canceller' = [canceller EXCEPT !["shutdown"] =
                        [s \in Session |-> IF s \in table THEN "called" ELSE "idle"]]
    /\ UNCHANGED <<table, callVars, sessionVars, osVars, stream, monitorVars, db>>

\* The gathered call finds nothing to cancel: it warns, or raises into gather().
ShutdownSkips(s) ==
    /\ shutdown = "cancelling"
    /\ canceller["shutdown"][s] = "called"
    /\ s \notin table \/ state[s] \notin {"running", "starting"}
    /\ CancelAt("shutdown", s, "done")
    /\ UNCHANGED <<table, callVars, sessionVars, osVars, stream, shutdown, monitorVars, db>>

EndShutdown ==
    /\ shutdown = "cancelling"
    /\ \A s \in Session : canceller["shutdown"][s] \notin CancelPending
    /\ shutdown' = "down"
    /\ UNCHANGED <<table, callVars, sessionVars, osVars, stream, canceller, monitorVars, db>>

-----------------------------------------------------------------------------
(* _monitor_sessions and _cleanup_session *)

TimePasses(s) ==
    /\ ~overdue[s]
    /\ state[s] = "running" \/ (state[s] \in Terminal /\ endTime[s])
    /\ creator[s] # "spawning"
    /\ overdue' = Set(overdue, s, TRUE)
    /\ UNCHANGED <<table, callVars, state, endTime, osVars, stream, cancelVars, monitorVars, db>>

\* Mutant: a session that ran too long is dropped without a verdict.
ScanNoVerdict ==
    /\ toClean = {} /\ cleaning = Nobody
    /\ toClean' = {s \in table : overdue[s] /\ (state[s] = "running" \/ (state[s] \in Terminal /\ endTime[s]))}
    /\ toClean' # {}
    /\ UNCHANGED <<table, callVars, sessionVars, osVars, stream, cancelVars, cleaning, db>>

\* Every 10 s.  The scan has no await: it is one step over the whole table.
Scan ==
    /\ toClean = {} /\ cleaning = Nobody
    /\ LET late  == {s \in table : state[s] = "running" /\ overdue[s]}
           ended == {s \in table : state[s] \in Terminal /\ endTime[s] /\ overdue[s]}
       IN /\ late \cup ended # {}   \* otherwise the scan changes nothing
          /\ toClean' = late \cup ended
          /\ state' = [s \in Session |-> IF s \in late THEN "timeout" ELSE state[s]]
    /\ UNCHANGED <<table, callVars, endTime, overdue, osVars, stream, cancelVars, cleaning, db>>

\* Mutant: a session with a verdict is taken to have no process.
CleanupNoTerminate(s) ==
    /\ s \in toClean /\ cleaning = Nobody
    /\ toClean' = toClean \ {s}
    /\ table' = table \ {s}
    /\ signal' = Set(signal, s, IF state[s] = "timeout" /\ signal[s] = "none" THEN "term" ELSE signal[s])
    /\ UNCHANGED <<callVars, sessionVars, process, stream, cancelVars, cleaning, db>>

\* _cleanup_session up to the wait: out of the table, then terminate().
Cleanup(s) ==
    /\ s \in toClean /\ cleaning = Nobody
    /\ toClean' = toClean \ {s}
    /\ table' = table \ {s}
    /\ cleaning' = IF process[s] = "none" THEN Nobody ELSE s
    /\ signal' = Set(signal, s, IF Alive(s) /\ signal[s] = "none" THEN "term" ELSE signal[s])
    /\ UNCHANGED <<callVars, sessionVars, process, stream, cancelVars, db>>

\* The wait returns, or its 5 s are over and the timeout is swallowed.
CleanupDone ==
    /\ cleaning # Nobody
    /\ cleaning' = Nobody
    /\ UNCHANGED <<table, callVars, sessionVars, osVars, stream, cancelVars, toClean, db>>

-----------------------------------------------------------------------------
Create(s) == \/ CallCreate(s) \/ AcquireLock(s) \/ Discovered(s) \/ DiscoverFails(s)
             \/ CreateSaved(s) \/ Spawned(s) \/ SpawnFails(s) \/ Prompted(s)

Stream(s) == EndOfStream(s) \/ StreamFault(s) \/ StreamSaved(s) \/ StreamErrored(s)
CancelStep(k, s) == ExitSeen(k, s) \/ GraceOver(k, s) \/ StreamJoined(k, s) \/ CancelSaved(k, s)
Shutdown == BeginShutdown \/ (\E s \in Session : ShutdownSkips(s)) \/ EndShutdown
Monitor == Scan \/ (\E s \in Session : Cleanup(s)) \/ CleanupDone

Next ==
    \/ \E s \in Session :
          \/ Create(s) \/ ProcessExits(s) \/ Stream(s) \/ TimePasses(s)
          \/ \E k \in Canceller : Cancel(k, s) \/ CancelStep(k, s)
    \/ Shutdown
    \/ Monitor

Spec == Init /\ [][Next]_vars

\* What the event loop and the kernel owe: a resumed coroutine runs, time
\* passes, a killed process dies, discovery, spawn, save and drain return.
\* A caller need not call, and a process that was not killed need not exit.
Fairness ==
    /\ \A s \in Session :
          /\ SF_vars(AcquireLock(s))          \* asyncio.Lock wakes its waiters in order
          /\ WF_vars(Discovered(s) \/ DiscoverFails(s))
          /\ WF_vars(CreateSaved(s))
          /\ WF_vars(Spawned(s) \/ SpawnFails(s))
          /\ WF_vars(Prompted(s))
          /\ WF_vars(signal[s] = "kill" /\ ProcessExits(s))
          /\ WF_vars(EndOfStream(s)) /\ WF_vars(StreamSaved(s)) /\ WF_vars(StreamErrored(s))
          /\ WF_vars(TimePasses(s))
          /\ WF_vars(Cleanup(s))
          /\ WF_vars(ShutdownSkips(s))
          /\ \A k \in Canceller : WF_vars(k = "shutdown" /\ Cancel(k, s)) /\ WF_vars(CancelStep(k, s))
    /\ WF_vars(EndShutdown) /\ WF_vars(Scan) /\ WF_vars(CleanupDone)

FairSpec == Spec /\ Fairness

-----------------------------------------------------------------------------
(* Safety *)

\* At most max_concurrent_sessions sessions are in the table, although the
\* check in create_session and the insertion are separated by awaits.
CapacityBound == Cardinality(table) <= MaxConcurrent

\* The session lock serialises the awaits of create_session: the creator
\* inside the block is the holder, and while it is still looking for the
\* binary there is room for its session.
LockDiscipline ==
    \A s \in Session :
        /\ creator[s] \in Critical <=> lockHolder = s
        /\ creator[s] = "discover" => Cardinality(table) < MaxConcurrent

\* Before its session object exists a call has left no trace anywhere.
Unborn ==
    \A s \in Session :
        /\ creator[s] \in {"idle", "waiting", "discover"} => state[s] = "absent"
        /\ state[s] = "absent" =>
              /\ s \notin table
              /\ creator[s] \notin {"saving", "spawning", "prompt"}
              /\ stream[s] = "none"
              /\ \A k \in Canceller : canceller[k][s] \in {"idle", "called", "done"}

\* The inductive invariant behind CapacityBound and ImplementsPool.
PoolInv == LockDiscipline /\ Unborn /\ CapacityBound

\* A session that is starting, running or being cancelled is still in the
\* table: the monitor's scan and its cleanups are separated by awaits, and what
\* it drops must not have become active in between.
ActiveIsTracked ==
    \A s \in Session : state[s] \in {"starting", "running", "cancelling"} => s \in table

\* No process is forgotten: one that still lives after its session left the
\* table has been told to terminate by _cleanup_session or cancel_session.
OrphanWasSignalled ==
    \A s \in Session : Alive(s) /\ s \notin table => signal[s] # "none"

\* Every process is accounted for: by a session of the table as long as that is
\* active, and by a signal afterwards (_monitor_sessions, _cleanup_session).
AccountInv == ActiveIsTracked /\ OrphanWasSignalled

\* A cancelled session is really over: its process is dead, its stream task no
\* longer runs, and once no cancel_session is pending its row says CANCELLED.
CancelledIsSettled ==
    \A s \in Session : state[s] = "cancelled" =>
        /\ endTime[s] /\ ~Alive(s) /\ stream[s] \notin StreamActive
        /\ (\A k \in Canceller : canceller[k][s] \notin CancelPending) => db[s] = "cancelled"

\* COMPLETED is reported only for a process that has closed its output, with
\* its end recorded in memory and, unless the save raised, in the database.
CompletedIsEnded ==
    \A s \in Session : state[s] = "completed" =>
        process[s] = "exited" /\ endTime[s] /\ db[s] = "completed"

\* What a verdict promises, whoever set it and whatever raced with it
\* (cancel_session, _handle_stream_complete).
VerdictInv == CancelledIsSettled /\ CompletedIsEnded

-----------------------------------------------------------------------------
(* Action properties *)

\* A session gets its verdict once: COMPLETED or TIMEOUT is never replaced by
\* another verdict than FAILED, and never by an active state.
VerdictStands ==
    [][\A s \in Session : state[s] \in {"completed", "timeout"} =>
          state'[s] \in {state[s], "failed"}]_vars

Gone == {s \in Session : state[s] # "absent"} \ table
Pool == INSTANCE SessionPool WITH active <- table, gone <- Gone

\* The table implements the pool: admitted once, within the limit, gone for good
\* (create_session, cancel_session, _cleanup_session).
ImplementsPool == Pool!PoolSpec

-----------------------------------------------------------------------------
(* What the repository says and the code does not do *)

\* IMPLEMENTATION_STATUS.md: "Created -> Starting -> Running -> Completed/
\* Failed/Cancelled": a cancelled session does not run again.  _start_session
\* sets RUNNING whatever cancel_session did while the process was spawned.
CancelledIsFinal ==
    [][\A s \in Session : state[s] = "cancelled" => state'[s] # "running"]_vars

\* _shutdown_sessions: "Cancel all running sessions": no session that was in
\* the table when the shutdown handled it runs afterwards.
ShutdownStopsSessions ==
    "shutdown" \in Canceller =>
        \A s \in Session : canceller["shutdown"][s] = "done" => state[s] # "running"

\* create_session: "SystemError: If session creation fails": a creation that
\* raises SystemError leaves no live, unsignalled process behind.
FailedCreateLeavesNothing ==
    \A s \in Session : creator[s] = "failed" /\ Alive(s) => signal[s] # "none"

\* _monitor_sessions: "Clean up completed/failed sessions after a delay".  A
\* session whose start failed has no end_time, and keeps its slot for ever.
FailedIsCleaned ==
    \A s \in Session : (s \in table /\ state[s] = "failed") ~> s \notin table

-----------------------------------------------------------------------------
(* Liveness, under FairSpec *)

\* Every create_session call returns or raises: nobody keeps the lock.
CreateReturns ==
    \A s \in Session : creator[s] = "waiting" ~> creator[s] \in {"done", "failed"}

\* Every cancel_session call ends, a process that ignores SIGTERM included, and
\* with them the gather() of _shutdown_sessions.
CancelReturns ==
    /\ \A k \in Canceller, s \in Session :
          canceller[k][s] \in CancelPending ~> canceller[k][s] \in {"done", "failed"}
    /\ shutdown = "cancelling" ~> shutdown = "down"

\* A session that runs or has ended gives its slot back: by its end and the
\* monitor's delay, by cancellation, or by session_timeout.
SlotIsReturned ==
    \A s \in Session : (state[s] = "running" \/ endTime[s]) ~> s \notin table
=============================================================================
