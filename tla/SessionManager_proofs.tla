----------------------- MODULE SessionManager_proofs -----------------------
(***************************************************************************)
(* What holds of the session manager for every set of calls, every limit   *)
(* and every set of cancellers: type correctness, the capacity bound with  *)
(* the lock discipline it rests on, that the table implements the abstract *)
(* SessionPool, that no process is forgotten, what the states CANCELLED    *)
(* and COMPLETED promise, and that a verdict stands.                       *)
(***************************************************************************)
EXTENDS SessionManager, FiniteSetTheorems, TLAPS

USE SessionAssumption, MaxConcurrentAssumption, SwitchAssumption

\* Type correctness: every variable stays in the set TypeOK names for it.
THEOREM TypeCorrect == Spec => []TypeOK
<1>1. Init => TypeOK
  BY DEF Init, TypeOK, SessionState, Critical, StreamActive, CancelPending
<1>2. TypeOK /\ [Next]_vars => TypeOK'
  <2> SUFFICES ASSUME TypeOK, [Next]_vars PROVE TypeOK'
    OBVIOUS
  <2> USE DEF TypeOK, SessionState, Critical, StreamActive, CancelPending, Set,
              callVars, sessionVars, osVars, cancelVars, monitorVars
  <2>1. ASSUME NEW s \in Session, Create(s) PROVE TypeOK'
    <3>1. CASE CallCreate(s) BY <3>1 DEF CallCreate
    <3>2. CASE AcquireLock(s) BY <3>2 DEF AcquireLock, Return
    <3>3. CASE Discovered(s) BY <3>3 DEF Discovered, Save
    <3>4. CASE DiscoverFails(s) BY <3>4 DEF DiscoverFails, Return
    <3>5. CASE CreateSaved(s) BY <3>5 DEF CreateSaved, Return
    <3>6. CASE Spawned(s) BY <3>6 DEF Spawned, Return
    <3>7. CASE SpawnFails(s) BY <3>7 DEF SpawnFails, Return
    <3>8. CASE Prompted(s) BY <3>8 DEF Prompted, Return
    <3> QED BY <2>1, <3>1, <3>2, <3>3, <3>4, <3>5, <3>6, <3>7, <3>8 DEF Create
  <2>2. ASSUME NEW s \in Session, ProcessExits(s) \/ TimePasses(s) PROVE TypeOK'
    <3>1. CASE ProcessExits(s) BY <3>1 DEF ProcessExits
    <3>2. CASE TimePasses(s) BY <3>2 DEF TimePasses
    <3> QED BY <2>2, <3>1, <3>2
  <2>3. ASSUME NEW s \in Session, Stream(s) PROVE TypeOK'
    <3>1. CASE EndOfStream(s) BY <3>1 DEF EndOfStream, StampEnd, Save
    <3>2. CASE StreamFault(s) BY <3>2 DEF StreamFault, FailStream, StampEnd, Save
    <3>3. CASE StreamSaved(s)
      <4>1. CASE UNCHANGED <<sessionVars, db>> BY <3>3, <4>1 DEF StreamSaved, FailStream
      <4>2. CASE FailStream(s) BY <3>3, <4>2 DEF StreamSaved, FailStream, StampEnd, Save
      <4> QED BY <3>3, <4>1, <4>2 DEF StreamSaved
    <3>4. CASE StreamErrored(s) BY <3>4 DEF StreamErrored
    <3> QED BY <2>3, <3>1, <3>2, <3>3, <3>4 DEF Stream
  <2>4. ASSUME NEW s \in Session, NEW k \in Canceller, Cancel(k, s) \/ CancelStep(k, s)
        PROVE  TypeOK'
    <3> USE DEF CancelAt, CancelRaises
    <3>1. ASSUME TearDown(k, s) PROVE /\ state' \in [Session -> SessionState]
                                      /\ endTime' \in [Session -> BOOLEAN]
                                      /\ overdue' \in [Session -> BOOLEAN]
                                      /\ stream' \in [Session -> {"none", "done", "cancelled", "errored"} \cup StreamActive]
                                      /\ canceller' \in [Canceller -> [Session -> {"idle", "done", "failed"} \cup CancelPending]]
                                      /\ db' \in [Session -> SessionState]
      <4> USE DEF TearDown, StampEnd, Save
      <4>1. endTime' \in [Session -> BOOLEAN] /\ overdue' \in [Session -> BOOLEAN] BY <3>1
      <4>2. CASE stream[s] \in StreamActive
        <5>1. /\ state' = Set(state, s, "cancelled") /\ stream' = Set(stream, s, "cancelled")
              /\ CancelAt(k, s, "join") /\ UNCHANGED db
          BY <3>1, <4>2
        <5>2. state' \in [Session -> SessionState] /\ db' \in [Session -> SessionState] BY <5>1
        <5>3. stream' \in [Session -> {"none", "done", "cancelled", "errored"} \cup StreamActive] BY <5>1
        <5>4. canceller' \in [Canceller -> [Session -> {"idle", "done", "failed"} \cup CancelPending]] BY <5>1
        <5> QED BY <4>1, <5>2, <5>3, <5>4
      <4>3. CASE stream[s] = "errored"
        <5>1. CancelRaises(k, s) /\ UNCHANGED <<stream, db>> BY <3>1, <4>3
        <5>2. state' \in [Session -> SessionState] BY <5>1
        <5>3. canceller' \in [Canceller -> [Session -> {"idle", "done", "failed"} \cup CancelPending]] BY <5>1
        <5> QED BY <4>1, <5>1, <5>2, <5>3
      <4>4. CASE stream[s] \in {"none", "done", "cancelled"}
        <5>1. /\ state' = Set(state, s, "cancelled") /\ Save(s, "cancelled")
              /\ CancelAt(k, s, "saving") /\ UNCHANGED stream
          BY <3>1, <4>4
        <5>2. state' \in [Session -> SessionState] /\ db' \in [Session -> SessionState] BY <5>1
        <5>3. canceller' \in [Canceller -> [Session -> {"idle", "done", "failed"} \cup CancelPending]] BY <5>1
        <5> QED BY <4>1, <5>1, <5>2, <5>3
      <4> QED BY <4>2, <4>3, <4>4
    <3>2. CASE Cancel(k, s)
      <4>1. CASE TearDown(k, s) /\ UNCHANGED signal BY <3>1, <3>2, <4>1 DEF Cancel
      <4>2. CASE /\ state' = Set(state, s, "cancelling") /\ CancelAt(k, s, "waitExit")
                 /\ signal' = Set(signal, s, IF Alive(s) THEN "term" ELSE signal[s])
                 /\ UNCHANGED <<endTime, overdue, stream, db>>
        BY <3>2, <4>2 DEF Cancel
      <4>3. CASE CancelRaises(k, s) /\ UNCHANGED <<endTime, overdue, signal, stream, db>>
        BY <3>2, <4>3 DEF Cancel
      <4> QED BY <3>2, <4>1, <4>2, <4>3 DEF Cancel
    <3>3. CASE ExitSeen(k, s) BY <3>1, <3>3 DEF ExitSeen
    <3>4. CASE GraceOver(k, s)
      <4>1. CASE CancelAt(k, s, "waitKill") BY <3>4, <4>1 DEF GraceOver
      <4>2. CASE CancelRaises(k, s) BY <3>4, <4>2 DEF GraceOver
      <4> QED BY <3>4, <4>1, <4>2 DEF GraceOver
    <3>5. CASE StreamJoined(k, s)
      <4>1. db' \in [Session -> SessionState] BY <3>5 DEF StreamJoined, Save
      <4>2. canceller' \in [Canceller -> [Session -> {"idle", "done", "failed"} \cup CancelPending]]
        BY <3>5 DEF StreamJoined
      <4> QED BY <3>5, <4>1, <4>2 DEF StreamJoined
    <3>6. CASE CancelSaved(k, s) BY <3>6 DEF CancelSaved
    <3> QED BY <2>4, <3>2, <3>3, <3>4, <3>5, <3>6 DEF CancelStep
  <2>5. ASSUME Shutdown PROVE TypeOK'
    <3>1. CASE BeginShutdown BY <3>1 DEF BeginShutdown
    <3>2. ASSUME NEW s \in Session, ShutdownSkips(s) PROVE TypeOK'
      BY <3>2 DEF ShutdownSkips, CancelAt
    <3>3. CASE EndShutdown BY <3>3 DEF EndShutdown
    <3> QED BY <2>5, <3>1, <3>2, <3>3 DEF Shutdown
  <2>6. ASSUME Monitor PROVE TypeOK'
    <3>1. CASE Scan BY <3>1 DEF Scan
    <3>2. ASSUME NEW s \in Session, Cleanup(s) PROVE TypeOK' BY <3>2 DEF Cleanup
    <3>3. CASE CleanupDone BY <3>3 DEF CleanupDone
    <3> QED BY <2>6, <3>1, <3>2, <3>3 DEF Monitor
  <2>7. CASE UNCHANGED vars BY <2>7 DEF vars
  <2> QED BY <2>1, <2>2, <2>3, <2>4, <2>5, <2>6, <2>7 DEF Next
<1> QED BY <1>1, <1>2, PTL DEF Spec

-----------------------------------------------------------------------------
(* The limit, and the abstract pool *)

\* A table over a finite set of calls is finite.
LEMMA TableFinite == ASSUME TypeOK PROVE IsFiniteSet(table) /\ Cardinality(table) \in Nat
BY FS_Subset, FS_CardinalityType DEF TypeOK

\* Admission adds one, cleanup takes at most one away.
LEMMA TableSizes ==
    ASSUME TypeOK, NEW s \in Session
    PROVE  /\ s \notin table => Cardinality(table \cup {s}) = Cardinality(table) + 1
           /\ Cardinality(table \ {s}) <= Cardinality(table)
<1>1. IsFiniteSet(table) /\ Cardinality(table) \in Nat BY TableFinite
<1>2. s \notin table => Cardinality(table \cup {s}) = Cardinality(table) + 1
  BY <1>1, FS_AddElement
<1>3. Cardinality(table \ {s}) <= Cardinality(table)
  BY <1>1, FS_Subset, table \ {s} \subseteq table
<1> QED BY <1>2, <1>3

\* A step that leaves the creators, the lock and the table alone, and that
\* touches only sessions whose object exists, keeps the invariant.
LEMMA Untouched ==
    ASSUME TypeOK, PoolInv, UNCHANGED <<table, callVars>>,
           \A s \in Session :
              /\ state'[s] = "absent" <=> state[s] = "absent"
              /\ state[s] = "absent" =>
                    /\ stream'[s] = stream[s]
                    /\ \A k \in Canceller : canceller'[k][s] \in {"idle", "called", "done"}
    PROVE  PoolInv'
BY DEF PoolInv, LockDiscipline, Unborn, CapacityBound, callVars

\* Every step of the system keeps the invariant and is a step of the pool.
LEMMA PoolStep ==
    ASSUME TypeOK, PoolInv, [Next]_vars
    PROVE  PoolInv' /\ [Pool!PoolNext]_(Pool!poolVars)
<1> USE DEF TypeOK, SessionState, Set
<1> DEFINE Quiet == UNCHANGED table /\ \A s \in Session : state'[s] = "absent" <=> state[s] = "absent"
           Goal == PoolInv' /\ [Pool!PoolNext]_(Pool!poolVars)
<1>0. Quiet => UNCHANGED Pool!poolVars
  BY DEF Gone, Pool!poolVars
<1>1. ASSUME NEW s \in Session, Create(s) PROVE Goal
  <2> USE DEF PoolInv, LockDiscipline, Unborn, CapacityBound, Critical
  <2>1. CASE CallCreate(s)
    BY <1>0, <2>1 DEF CallCreate, sessionVars, cancelVars
  <2>2. CASE AcquireLock(s)
    BY <1>0, <2>2, TableFinite DEF AcquireLock, Return, sessionVars, cancelVars
  <2>3. CASE Discovered(s)
    <3>1. state[s] = "absent" /\ s \notin table /\ Cardinality(table) < MaxConcurrent
      BY <2>3 DEF Discovered
    <3>2. Cardinality(table') <= MaxConcurrent
      BY <2>3, <3>1, TableSizes, TableFinite DEF Discovered
    <3>3. Pool!Admit(s)
      <4>1. Gone' = Gone
        BY <2>3, <3>1 DEF Gone, Discovered
      <4>2. s \notin Gone
        BY <3>1 DEF Gone
      <4>3. table' = table \cup {s}
        BY <2>3 DEF Discovered
      <4>4. Pool!Cardinality(table) = Cardinality(table)
        BY Zenon DEF Pool!Cardinality, Cardinality
      <4> QED BY <3>1, <4>1, <4>2, <4>3, <4>4 DEF Pool!Admit
    <3>4. PoolInv'
      BY <2>3, <3>1, <3>2 DEF Discovered, cancelVars
    <3> QED BY <3>3, <3>4 DEF Pool!PoolNext
  <2>4. CASE DiscoverFails(s)
    BY <1>0, <2>4 DEF DiscoverFails, Return, sessionVars, cancelVars
  <2>5. CASE CreateSaved(s)
    BY <1>0, <2>5 DEF CreateSaved, Return, cancelVars
  <2>6. CASE Spawned(s)
    BY <1>0, <2>6 DEF Spawned, Return, cancelVars
  <2>7. CASE SpawnFails(s)
    BY <1>0, <2>7 DEF SpawnFails, Return, cancelVars
  <2>8. CASE Prompted(s)
    BY <1>0, <2>8 DEF Prompted, Return, cancelVars
  <2> QED BY <1>1, <2>1, <2>2, <2>3, <2>4, <2>5, <2>6, <2>7, <2>8 DEF Create
<1>2. ASSUME NEW s \in Session, ProcessExits(s) \/ TimePasses(s) PROVE Goal
  <2>1. UNCHANGED <<table, callVars, state, stream, canceller>>
    BY <1>2 DEF ProcessExits, TimePasses, sessionVars, cancelVars
  <2> QED BY <1>0, <2>1, Untouched DEF PoolInv, Unborn
<1>3. ASSUME NEW s \in Session, Stream(s) PROVE Goal
  <2>1. UNCHANGED <<table, callVars, canceller>> /\ stream[s] # "none"
    BY <1>3 DEF Stream, EndOfStream, StreamFault, StreamSaved, StreamErrored, cancelVars
  <2>2. state[s] # "absent" BY <2>1 DEF PoolInv, Unborn
  <2>3. /\ state'[s] # "absent"
        /\ \A t \in Session \ {s} : state'[t] = state[t] /\ stream'[t] = stream[t]
    BY <1>3, <2>2 DEF Stream, EndOfStream, StreamFault, StreamSaved, StreamErrored, FailStream, sessionVars
  <2> QED BY <1>0, <2>1, <2>2, <2>3, Untouched DEF PoolInv, Unborn
<1>4. ASSUME NEW s \in Session, NEW k \in Canceller, Cancel(k, s) \/ CancelStep(k, s)
      PROVE  Goal
  <2> USE DEF CancelAt, CancelRaises
  <2>1. UNCHANGED <<table, callVars>> /\ state[s] # "absent"
    BY <1>4 DEF Cancel, CancelStep, ExitSeen, GraceOver, StreamJoined, CancelSaved, PoolInv, Unborn
  <2>2. ASSUME TearDown(k, s)
        PROVE  /\ state'[s] # "absent"
               /\ \A t \in Session \ {s} :
                     /\ state'[t] = state[t] /\ stream'[t] = stream[t]
                     /\ \A j \in Canceller : canceller'[j][t] = canceller[j][t]
    BY <2>2 DEF TearDown
  <2>3. /\ state'[s] # "absent"
        /\ \A t \in Session \ {s} :
              /\ state'[t] = state[t] /\ stream'[t] = stream[t]
              /\ \A j \in Canceller : canceller'[j][t] = canceller[j][t]
    BY <1>4, <2>1, <2>2 DEF Cancel, CancelStep, ExitSeen, GraceOver, StreamJoined, CancelSaved, sessionVars
  <2> QED BY <1>0, <2>1, <2>3, Untouched DEF PoolInv, Unborn
<1>5. ASSUME Shutdown PROVE Goal
  <2>1. UNCHANGED <<table, callVars, state, stream>>
    BY <1>5 DEF Shutdown, BeginShutdown, ShutdownSkips, EndShutdown, sessionVars
  <2>2. \A s \in Session, k \in Canceller :
           canceller'[k][s] \in {canceller[k][s], "idle", "called", "done"}
    BY <1>5 DEF Shutdown, BeginShutdown, ShutdownSkips, EndShutdown, CancelAt
  <2> QED BY <1>0, <2>1, <2>2, Untouched DEF PoolInv, Unborn
<1>6. ASSUME Monitor PROVE Goal
  <2>1. CASE Scan
    <3>1. UNCHANGED <<table, callVars, stream, canceller>>
      BY <2>1 DEF Scan, cancelVars
    <3>2. \A s \in Session : state'[s] = "absent" <=> state[s] = "absent"
      BY <2>1 DEF Scan
    <3> QED BY <1>0, <3>1, <3>2, Untouched DEF PoolInv, Unborn
  <2>2. ASSUME NEW s \in Session, Cleanup(s) PROVE Goal
    <3> USE DEF PoolInv, LockDiscipline, Unborn, CapacityBound
    <3>1. Cardinality(table') <= Cardinality(table) /\ Cardinality(table') \in Nat
      <4>1. table' = table \ {s} BY <2>2 DEF Cleanup
      <4>2. IsFiniteSet(table) /\ Cardinality(table) \in Nat BY TableFinite
      <4>3. IsFiniteSet(table') BY <4>1, <4>2, FS_Subset
      <4> QED BY <4>1, <4>2, <4>3, TableSizes, FS_CardinalityType
    <3>2. PoolInv' BY <2>2, <3>1, TableFinite DEF Cleanup, callVars, sessionVars, cancelVars
    <3>3. CASE s \in table
      <4>1. Gone' = Gone \cup {s}
        BY <2>2, <3>3 DEF Cleanup, sessionVars, Gone
      <4>2. Pool!Release(s)
        BY <2>2, <3>3, <4>1 DEF Cleanup, Pool!Release
      <4> QED BY <3>2, <4>2 DEF Pool!PoolNext
    <3>4. CASE s \notin table
      <4>1. UNCHANGED table BY <2>2, <3>4 DEF Cleanup
      <4> QED BY <1>0, <2>2, <3>2, <4>1 DEF Cleanup, sessionVars
    <3> QED BY <3>3, <3>4
  <2>3. CASE CleanupDone
    BY <1>0, <2>3, Untouched DEF CleanupDone, sessionVars, cancelVars, PoolInv, Unborn
  <2> QED BY <1>6, <2>1, <2>2, <2>3 DEF Monitor
<1>7. CASE UNCHANGED vars
  BY <1>0, <1>7, Untouched DEF vars, sessionVars, cancelVars, PoolInv, Unborn
<1> QED BY <1>1, <1>2, <1>3, <1>4, <1>5, <1>6, <1>7 DEF Next

\* The invariant holds at the start, with an empty pool.
LEMMA PoolStart == ASSUME Init PROVE PoolInv /\ Pool!PoolInit
<1>1. Cardinality(table) = 0 BY FS_EmptySet DEF Init
<1>2. PoolInv
  BY <1>1 DEF Init, PoolInv, LockDiscipline, Unborn, CapacityBound, Critical
<1>3. Pool!PoolInit BY DEF Init, Pool!PoolInit, Gone
<1> QED BY <1>2, <1>3

\* The lock discipline holds for every set of calls and every limit.
THEOREM PoolInvariant == Spec => []PoolInv
<1>1. TypeOK /\ PoolInv /\ [Next]_vars => PoolInv' BY PoolStep
<1> QED BY <1>1, PoolStart, TypeCorrect, PTL DEF Spec

\* At most MaxConcurrent sessions are in the table, whatever interleaves.
THEOREM Capacity == Spec => []CapacityBound
<1>1. PoolInv => CapacityBound BY DEF PoolInv
<1> QED BY <1>1, PoolInvariant, PTL

\* The table of the session manager implements the abstract pool.
THEOREM PoolRefinement == Spec => ImplementsPool
<1>1. TypeOK /\ PoolInv /\ [Next]_vars => [Pool!PoolNext]_(Pool!poolVars) BY PoolStep
<1> QED BY <1>1, PoolStart, TypeCorrect, PoolInvariant, PTL DEF Spec, ImplementsPool, Pool!PoolSpec
-----------------------------------------------------------------------------
(* Processes are accounted for, and verdicts keep their promises *)

\* Until its process is spawned a session has no process, no stream task and
\* no clock, so the monitor cannot have chosen it, and once it is in the table
\* it stays there; no cancel_session finds it running before it is starting.
NotSpawned ==
    \A s \in Session : creator[s] \in {"idle", "waiting", "discover", "saving", "spawning"} =>
        /\ process[s] = "none" /\ stream[s] = "none" /\ ~overdue[s] /\ s \notin toClean
        /\ creator[s] \in {"saving", "spawning"} => s \in table
        /\ creator[s] = "saving" =>
              state[s] = "created" /\ \A k \in Canceller : canceller[k][s] \in {"idle", "called", "done"}
        /\ creator[s] = "spawning" => state[s] \in {"starting", "cancelled", "failed"}

\* What is active is in the table, and not among what the monitor will drop.
ActiveIsKept ==
    \A s \in Session : state[s] \in {"starting", "running", "cancelling"} => s \in table /\ s \notin toClean

\* Who waits for a process has taken it from a running session: the state has
\* not become active, COMPLETED or TIMEOUT since.
WaitsForExit ==
    \A k \in Canceller, s \in Session : canceller[k][s] \in {"waitExit", "waitKill"} =>
        /\ creator[s] \in {"prompt", "done", "failed"} /\ process[s] # "none"
        /\ state[s] \in {"cancelling", "failed", "cancelled"}

StreamHasProcess == \A s \in Session : stream[s] # "none" => process[s] # "none"

\* A cancelled session is over, and its row says so or a call that waits for
\* the stream task will write it.
CancelledIsOver ==
    \A s \in Session : state[s] = "cancelled" =>
        /\ endTime[s] /\ ~Alive(s) /\ stream[s] \notin StreamActive
        /\ db[s] = "cancelled" \/ \E k \in Canceller : canceller[k][s] = "join"

\* _shutdown_sessions has called nobody before it begins.
ShutdownRests ==
    shutdown = "idle" /\ "shutdown" \in Canceller => \A s \in Session : canceller["shutdown"][s] = "idle"

SessionInv ==
    /\ PoolInv /\ NotSpawned /\ ActiveIsKept /\ OrphanWasSignalled
    /\ WaitsForExit /\ StreamHasProcess /\ CancelledIsOver /\ CompletedIsEnded /\ ShutdownRests

LEMMA SessionStart == ASSUME Init PROVE SessionInv
BY PoolStart DEF Init, SessionInv, NotSpawned, ActiveIsKept, OrphanWasSignalled, Alive,
   WaitsForExit, StreamHasProcess, CancelledIsOver, CompletedIsEnded, ShutdownRests

\* Tearing a session down keeps the invariant: its process is gone, and the
\* call that does it was not the one that will write the row.
LEMMA TearDownKeeps ==
    ASSUME TypeOK, SessionInv, NEW s \in Session, NEW k \in Canceller, TearDown(k, s),
           ~Alive(s), canceller[k][s] # "join", creator[s] \notin {"idle", "waiting", "discover", "saving"},
           UNCHANGED <<table, callVars, process, signal, shutdown, monitorVars>>,
           shutdown = "idle" => k # "shutdown"
    PROVE  /\ NotSpawned' /\ ActiveIsKept' /\ OrphanWasSignalled' /\ WaitsForExit'
           /\ StreamHasProcess' /\ CancelledIsOver' /\ CompletedIsEnded' /\ ShutdownRests'
<1> USE DEF TypeOK, SessionState, Critical, StreamActive, CancelPending, Set, Alive, SessionInv,
            callVars, monitorVars
<1> DEFINE verdict == state'[s]
<1>1. /\ verdict \in {"cancelled", "failed"} /\ endTime'[s] /\ ~overdue'[s]
      /\ stream'[s] \notin StreamActive /\ (stream'[s] = "none" <=> stream[s] = "none")
      /\ verdict = "cancelled" => db'[s] = "cancelled" \/ canceller'[k][s] = "join"
      /\ canceller'[k][s] \in {"join", "saving", "failed"}
  BY DEF TearDown, StampEnd, Save, CancelRaises, CancelAt
<1>2. \A t \in Session \ {s} :
         /\ state'[t] = state[t] /\ endTime'[t] = endTime[t] /\ overdue'[t] = overdue[t]
         /\ stream'[t] = stream[t] /\ db'[t] = db[t]
  BY DEF TearDown, StampEnd, Save, CancelRaises
<1>3. \A j \in Canceller, t \in Session : j # k \/ t # s => canceller'[j][t] = canceller[j][t]
  BY DEF TearDown, CancelRaises, CancelAt
<1>4. NotSpawned' BY <1>1, <1>2, <1>3 DEF NotSpawned
<1>5. ActiveIsKept' BY <1>1, <1>2 DEF ActiveIsKept
<1>6. OrphanWasSignalled' BY DEF OrphanWasSignalled
<1>7. WaitsForExit' BY <1>1, <1>2, <1>3 DEF WaitsForExit
<1>8. StreamHasProcess' BY <1>1, <1>2 DEF StreamHasProcess
<1>9. CancelledIsOver'
  <2> SUFFICES ASSUME NEW t \in Session, state'[t] = "cancelled"
               PROVE  /\ endTime'[t] /\ process'[t] # "alive" /\ stream'[t] \notin StreamActive
                      /\ db'[t] = "cancelled" \/ \E j \in Canceller : canceller'[j][t] = "join"
    BY DEF CancelledIsOver
  <2>1. CASE t = s BY <1>1, <2>1
  <2>2. CASE t # s BY <1>2, <1>3, <2>2 DEF CancelledIsOver
  <2> QED BY <2>1, <2>2
<1>10. CompletedIsEnded' BY <1>1, <1>2 DEF CompletedIsEnded
<1>11. ShutdownRests' BY <1>3 DEF ShutdownRests
<1> QED BY <1>4, <1>5, <1>6, <1>7, <1>8, <1>9, <1>10, <1>11

\* A cancellation that raises leaves FAILED, and takes no row from anybody.
LEMMA CancelRaisesKeeps ==
    ASSUME TypeOK, SessionInv, NEW s \in Session, NEW k \in Canceller, CancelRaises(k, s),
           creator[s] \notin {"idle", "waiting", "discover", "saving"},
           UNCHANGED <<table, callVars, endTime, overdue, process, signal, stream, shutdown, monitorVars, db>>,
           shutdown = "idle" => k # "shutdown"
    PROVE  /\ NotSpawned' /\ ActiveIsKept' /\ OrphanWasSignalled' /\ WaitsForExit'
           /\ StreamHasProcess' /\ CancelledIsOver' /\ CompletedIsEnded' /\ ShutdownRests'
<1> USE DEF TypeOK, SessionState, Critical, StreamActive, CancelPending, Set, Alive, SessionInv,
            callVars, monitorVars, CancelRaises, CancelAt
<1>1. state'[s] = "failed" /\ canceller'[k][s] = "failed" OBVIOUS
<1>2. \A t \in Session \ {s} : state'[t] = state[t] OBVIOUS
<1>3. \A j \in Canceller, t \in Session : j # k \/ t # s => canceller'[j][t] = canceller[j][t] OBVIOUS
<1> HIDE DEF CancelRaises, CancelAt, Set
<1>4. NotSpawned' BY <1>1, <1>2, <1>3 DEF NotSpawned
<1>5. ActiveIsKept' BY <1>1, <1>2 DEF ActiveIsKept
<1>6. OrphanWasSignalled' BY DEF OrphanWasSignalled
<1>7. WaitsForExit' BY <1>1, <1>2, <1>3 DEF WaitsForExit
<1>8. StreamHasProcess' BY DEF StreamHasProcess
<1>9. CancelledIsOver' BY <1>1, <1>2, <1>3 DEF CancelledIsOver
<1>10. CompletedIsEnded' BY <1>1, <1>2 DEF CompletedIsEnded
<1>11. ShutdownRests' BY <1>3 DEF ShutdownRests
<1> QED BY <1>4, <1>5, <1>6, <1>7, <1>8, <1>9, <1>10, <1>11

\* What a step does to another session than s is nothing, but for calls of
\* cancellers that have not begun.
LEMMA SessionStep == ASSUME TypeOK, SessionInv, [Next]_vars PROVE SessionInv'
<1>0. PoolInv' BY PoolStep DEF SessionInv
<1> USE DEF TypeOK, SessionState, Critical, StreamActive, CancelPending, Set, Alive, SessionInv
<1> DEFINE Rest == /\ NotSpawned /\ ActiveIsKept /\ OrphanWasSignalled
                   /\ WaitsForExit /\ StreamHasProcess /\ CancelledIsOver /\ CompletedIsEnded /\ ShutdownRests
<1> SUFFICES Rest' BY <1>0
<1> USE DEF NotSpawned, ActiveIsKept, OrphanWasSignalled,
   WaitsForExit, StreamHasProcess, CancelledIsOver, CompletedIsEnded, ShutdownRests,
   callVars, sessionVars, osVars, cancelVars, monitorVars
<1>1. ASSUME NEW s \in Session, Create(s) PROVE Rest'
  <2> USE DEF PoolInv, Unborn
  <2>1. CASE CallCreate(s) BY <2>1 DEF CallCreate
  <2>2. CASE AcquireLock(s) BY <2>2 DEF AcquireLock, Return
  <2>3. CASE Discovered(s) BY <2>3 DEF Discovered, Save
  <2>4. CASE DiscoverFails(s) BY <2>4 DEF DiscoverFails, Return
  <2>5. CASE CreateSaved(s)
    <3> USE <2>5 DEF CreateSaved, Return
    <3>1. NotSpawned' OBVIOUS
    <3>2. ActiveIsKept' OBVIOUS
    <3>3. OrphanWasSignalled' OBVIOUS
    <3>4. WaitsForExit' OBVIOUS
    <3>5. StreamHasProcess' /\ ShutdownRests' OBVIOUS
    <3>6. CancelledIsOver' OBVIOUS
    <3>7. CompletedIsEnded' OBVIOUS
    <3> QED BY <3>1, <3>2, <3>3, <3>4, <3>5, <3>6, <3>7
  <2>6. CASE Spawned(s) BY <2>6 DEF Spawned, Return
  <2>7. CASE SpawnFails(s) BY <2>7 DEF SpawnFails, Return
  <2>8. CASE Prompted(s) BY <2>8 DEF Prompted, Return
  <2> QED BY <1>1, <2>1, <2>2, <2>3, <2>4, <2>5, <2>6, <2>7, <2>8 DEF Create
<1>2. ASSUME NEW s \in Session, ProcessExits(s) \/ TimePasses(s) PROVE Rest'
  <2>1. CASE ProcessExits(s) BY <2>1 DEF ProcessExits
  <2>2. CASE TimePasses(s) BY <2>2 DEF TimePasses, PoolInv, Unborn, Terminal
  <2> QED BY <1>2, <2>1, <2>2
<1>3. ASSUME NEW s \in Session, Stream(s) PROVE Rest'
  <2>1. CASE EndOfStream(s) BY <2>1 DEF EndOfStream, StampEnd, Save
  <2>2. CASE StreamFault(s) BY <2>2 DEF StreamFault, FailStream, StampEnd, Save
  <2>3. CASE StreamSaved(s)
    <3>1. CASE UNCHANGED <<sessionVars, db>> BY <2>3, <3>1 DEF StreamSaved, FailStream
    <3>2. CASE FailStream(s) BY <2>3, <3>2 DEF StreamSaved, FailStream, StampEnd, Save
    <3> QED BY <2>3, <3>1, <3>2 DEF StreamSaved
  <2>4. CASE StreamErrored(s) BY <2>4 DEF StreamErrored
  <2> QED BY <1>3, <2>1, <2>2, <2>3, <2>4 DEF Stream
<1>4. ASSUME NEW s \in Session, NEW k \in Canceller, Cancel(k, s) \/ CancelStep(k, s) PROVE Rest'
  <2>0. canceller[k][s] # "idle" => (shutdown = "idle" => k # "shutdown") OBVIOUS
  <2>1. CASE Cancel(k, s)
    <3>0. /\ creator[s] \notin {"idle", "waiting", "discover", "saving"}
          /\ shutdown = "idle" => k # "shutdown"
      BY <2>0, <2>1 DEF Cancel, PoolInv, Unborn
    <3>1. CASE process[s] = "none" /\ TearDown(k, s) /\ UNCHANGED signal
      <4> HIDE DEF NotSpawned, ActiveIsKept, OrphanWasSignalled,
                   WaitsForExit, StreamHasProcess, CancelledIsOver, CompletedIsEnded, ShutdownRests
      <4> QED BY <2>1, <3>0, <3>1, TearDownKeeps DEF Cancel
    <3>2. CASE /\ process[s] # "none" /\ state' = Set(state, s, "cancelling") /\ CancelAt(k, s, "waitExit")
               /\ signal' = Set(signal, s, IF Alive(s) THEN "term" ELSE signal[s])
               /\ UNCHANGED <<endTime, overdue, stream, db>>
      <4>1. /\ state'[s] = "cancelling" /\ canceller'[k][s] = "waitExit" /\ canceller[k][s] # "join"
            /\ creator[s] \in {"prompt", "done", "failed"} /\ process[s] # "none"
            /\ s \in table /\ s \notin toClean
        <5>1. canceller[k][s] \in {"idle", "called"} /\ state[s] \in {"running", "starting"} /\ process[s] # "none"
          BY <2>1, <3>2 DEF Cancel, CancelAt
        <5> QED BY <2>1, <3>0, <3>2, <5>1 DEF CancelAt
      <4>2. /\ \A t \in Session \ {s} : state'[t] = state[t] /\ signal'[t] = signal[t]
            /\ signal'[s] = "none" => signal[s] = "none"
            /\ UNCHANGED <<table, callVars, process, shutdown, monitorVars, endTime, overdue, stream, db>>
        BY <2>1, <3>2 DEF Cancel
      <4>3. \A j \in Canceller, t \in Session : j # k \/ t # s => canceller'[j][t] = canceller[j][t]
        BY <3>2 DEF CancelAt
      <4>4. NotSpawned' BY <4>1, <4>2, <4>3
      <4>5. ActiveIsKept' BY <4>1, <4>2
      <4>6. OrphanWasSignalled' BY <4>1, <4>2
      <4>7. WaitsForExit' BY <4>1, <4>2, <4>3
      <4>8. StreamHasProcess' /\ CompletedIsEnded' BY <4>1, <4>2
      <4>9. CancelledIsOver' BY <4>1, <4>2, <4>3
      <4>10. ShutdownRests' BY <3>0, <4>2, <4>3
      <4> QED BY <4>4, <4>5, <4>6, <4>7, <4>8, <4>9, <4>10
    <3>3. CASE CancelRaises(k, s) /\ UNCHANGED <<endTime, overdue, signal, stream, db>>
      <4> HIDE DEF NotSpawned, ActiveIsKept, OrphanWasSignalled,
                   WaitsForExit, StreamHasProcess, CancelledIsOver, CompletedIsEnded, ShutdownRests
      <4> QED BY <2>1, <3>0, <3>3, CancelRaisesKeeps DEF Cancel
    <3> QED BY <2>1, <3>1, <3>2, <3>3 DEF Cancel
  <2>2. CASE ExitSeen(k, s)
    <3>1. creator[s] \notin {"idle", "waiting", "discover", "saving"} /\ ~Alive(s) /\ canceller[k][s] # "join"
      BY <2>2 DEF ExitSeen
    <3> HIDE DEF NotSpawned, ActiveIsKept, OrphanWasSignalled,
                 WaitsForExit, StreamHasProcess, CancelledIsOver, CompletedIsEnded, ShutdownRests
    <3> QED BY <2>0, <2>2, <3>1, TearDownKeeps DEF ExitSeen
  <2>3. CASE GraceOver(k, s)
    <3>0. creator[s] \notin {"idle", "waiting", "discover", "saving"}
      BY <2>3 DEF GraceOver
    <3>1. CASE Alive(s) /\ signal' = Set(signal, s, "kill") /\ CancelAt(k, s, "waitKill") /\ UNCHANGED state
      BY <2>3, <3>1 DEF GraceOver, CancelAt
    <3>2. CASE CancelRaises(k, s) /\ UNCHANGED signal
      <4> HIDE DEF NotSpawned, ActiveIsKept, OrphanWasSignalled,
                   WaitsForExit, StreamHasProcess, CancelledIsOver, CompletedIsEnded, ShutdownRests
      <4> QED BY <2>0, <2>3, <3>0, <3>2, CancelRaisesKeeps DEF GraceOver
    <3> QED BY <2>3, <3>1, <3>2 DEF GraceOver
  <2>4. CASE StreamJoined(k, s) BY <2>4 DEF StreamJoined, CancelAt, Save
  <2>5. CASE CancelSaved(k, s)
    <3>1. CASE CancelAt(k, s, "done") /\ UNCHANGED state
      BY <2>5, <3>1 DEF CancelSaved, CancelAt
    <3>2. CASE CancelRaises(k, s)
      <4>1. creator[s] \notin {"idle", "waiting", "discover", "saving"}
        BY <2>5 DEF CancelSaved, PoolInv, Unborn
      <4> HIDE DEF NotSpawned, ActiveIsKept, OrphanWasSignalled,
                   WaitsForExit, StreamHasProcess, CancelledIsOver, CompletedIsEnded, ShutdownRests
      <4> QED BY <2>0, <2>5, <3>2, <4>1, CancelRaisesKeeps DEF CancelSaved
    <3> QED BY <2>5, <3>1, <3>2 DEF CancelSaved
  <2> QED BY <1>4, <2>1, <2>2, <2>3, <2>4, <2>5 DEF CancelStep
<1>5. ASSUME Shutdown PROVE Rest'
  <2>1. CASE BeginShutdown BY <2>1 DEF BeginShutdown
  <2>2. ASSUME NEW s \in Session, ShutdownSkips(s) PROVE Rest' BY <2>2 DEF ShutdownSkips, CancelAt
  <2>3. CASE EndShutdown BY <2>3 DEF EndShutdown
  <2> QED BY <1>5, <2>1, <2>2, <2>3 DEF Shutdown
<1>6. ASSUME Monitor PROVE Rest'
  <2>1. CASE Scan BY <2>1 DEF Scan, Terminal
  <2>2. ASSUME NEW s \in Session, Cleanup(s) PROVE Rest' BY <2>2 DEF Cleanup
  <2>3. CASE CleanupDone BY <2>3 DEF CleanupDone
  <2> QED BY <1>6, <2>1, <2>2, <2>3 DEF Monitor
<1>7. CASE UNCHANGED vars BY <1>7 DEF vars
<1> QED BY <1>1, <1>2, <1>3, <1>4, <1>5, <1>6, <1>7 DEF Next

\* The invariant holds in every reachable state, for every set of calls and
\* of cancellers.
THEOREM SessionInvariant == Spec => []SessionInv
<1>1. TypeOK /\ SessionInv /\ [Next]_vars => SessionInv' BY SessionStep
<1> QED BY <1>1, SessionStart, TypeCorrect, PTL DEF Spec

\* Every process is accounted for: what is active is tracked in _sessions, and a
\* live process outside it was told to terminate, whatever interleaves with the
\* monitor's scan and its cleanups.
THEOREM Accounted == Spec => []AccountInv
<1>1. SessionInv => AccountInv
  BY DEF SessionInv, AccountInv, ActiveIsKept, ActiveIsTracked
<1> QED BY <1>1, SessionInvariant, PTL

\* CANCELLED and COMPLETED mean what they say: the process is dead, end_time is
\* set, the stream task is over, and the row agrees once nobody is writing it.
THEOREM Verdicts == Spec => []VerdictInv
<1>1. SessionInv => VerdictInv
  BY DEF SessionInv, VerdictInv, CancelledIsOver, CancelledIsSettled, CancelPending
<1> QED BY <1>1, SessionInvariant, PTL

\* COMPLETED and TIMEOUT stand: no racing cancel_session, stream task or start
\* replaces them by anything but FAILED.
THEOREM VerdictIsFinal == Spec => VerdictStands
<1> DEFINE Stands == \A s \in Session : state[s] \in {"completed", "timeout"} => state'[s] \in {state[s], "failed"}
<1>1. TypeOK /\ SessionInv /\ [Next]_vars => Stands
  <2> SUFFICES ASSUME TypeOK, SessionInv, [Next]_vars PROVE Stands
    OBVIOUS
  <2> USE DEF TypeOK, SessionState, SessionInv, Set, sessionVars
  <2>1. ASSUME NEW s \in Session, Create(s) PROVE Stands
    <3>1. creator[s] \in {"discover", "saving", "spawning"} => state[s] \notin {"completed", "timeout"}
      BY DEF NotSpawned, PoolInv, Unborn
    <3> QED BY <2>1, <3>1 DEF Create, CallCreate, AcquireLock, Discovered, DiscoverFails, CreateSaved, Spawned,
                              SpawnFails, Prompted
  <2>2. ASSUME NEW s \in Session, ProcessExits(s) \/ TimePasses(s) PROVE Stands
    BY <2>2 DEF ProcessExits, TimePasses
  <2>3. ASSUME NEW s \in Session, Stream(s) PROVE Stands
    BY <2>3 DEF Stream, EndOfStream, StreamFault, StreamSaved, StreamErrored, FailStream
  <2>4. ASSUME NEW s \in Session, NEW k \in Canceller, Cancel(k, s) \/ CancelStep(k, s) PROVE Stands
    <3> USE DEF TearDown, CancelRaises
    <3>1. CASE Cancel(k, s) BY <3>1 DEF Cancel
    <3>2. CASE ExitSeen(k, s) BY <3>2 DEF ExitSeen, WaitsForExit
    <3>3. CASE GraceOver(k, s) BY <3>3 DEF GraceOver
    <3>4. CASE StreamJoined(k, s) \/ CancelSaved(k, s) BY <3>4 DEF StreamJoined, CancelSaved
    <3> QED BY <2>4, <3>1, <3>2, <3>3, <3>4 DEF CancelStep
  <2>5. CASE Shutdown BY <2>5 DEF Shutdown, BeginShutdown, ShutdownSkips, EndShutdown
  <2>6. CASE Monitor BY <2>6 DEF Monitor, Scan, Cleanup, CleanupDone
  <2>7. CASE UNCHANGED vars BY <2>7 DEF vars
  <2> QED BY <2>1, <2>2, <2>3, <2>4, <2>5, <2>6, <2>7 DEF Next
<1>2. TypeOK /\ SessionInv /\ [Next]_vars => [Stands]_vars BY <1>1
<1> QED BY <1>2, TypeCorrect, SessionInvariant, PTL DEF Spec, VerdictStands
=============================================================================
