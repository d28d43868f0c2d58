--------------------------- MODULE Runtime_proofs ---------------------------
(***************************************************************************)
(* Proofs about what keeps the program in order: the life cycle of a       *)
(* manager, the graceful shutdown and the registry of the processes, for   *)
(* every set of callers, components, requests and pids.                    *)
(***************************************************************************)
EXTENDS MCRuntime, TLAPS

-----------------------------------------------------------------------------
(* The life cycle *)

\* What makes LifeInv inductive: a manager with a health_check_interval has a
\* health task exactly while the state is RUNNING, one without has none, and past
\* the join of stop() it has ended.
Watching ==
    /\ watched => (state = "running" <=> health \in HealthAlive \ Restarting)
    /\ ~watched => health = "none"
    /\ \A c \in LifeCaller : at[c] \in {"stopping", "closing"} => health \in {"none", "ended"}

LifeIInv == LifeTypeOK /\ OneTransition /\ Watching /\ StoppedIsReleased

LEMMA LifeInitially == LifeInit => LifeIInv
  <1> SUFFICES ASSUME LifeInit PROVE LifeIInv
    OBVIOUS
  <1>1. Inside = {}
    BY DEF LifeInit, Inside
  <1>2. OneTransition /\ Watching /\ StoppedIsReleased
    BY <1>1 DEF LifeInit, OneTransition, Watching, StoppedIsReleased, Transition, HealthAlive, Restarting
  <1>3. dbOpen \in BOOLEAN /\ watched \in BOOLEAN
    BY Zenon DEF LifeInit
  <1>4. recoveries \in 0 .. MaxRecoveries
    BY DEF LifeInit, MaxRecoveries
  <1> QED
    BY <1>2, <1>3, <1>4 DEF LifeInit, LifeIInv, LifeTypeOK

LEMMA LifeSteps == LifeIInv /\ [LifeNext]_lifeVars => LifeIInv'
  <1> SUFFICES ASSUME LifeIInv, [LifeNext]_lifeVars PROVE LifeIInv'
    OBVIOUS
  <1> USE DEF LifeIInv, LifeTypeOK, OneTransition, Inside, Watching, StoppedIsReleased,
              Transition, HealthAlive, Restarting, Move, MaxRecoveries
  <1>1. ASSUME NEW c \in LifeCaller, Initialize(c) PROVE LifeIInv'
    BY <1>1 DEF Initialize
  <1>2. ASSUME NEW c \in LifeCaller, Connected(c) PROVE LifeIInv'
    BY <1>2 DEF Connected
  <1>3. ASSUME NEW c \in LifeCaller, Initialized(c) PROVE LifeIInv'
    BY <1>3 DEF Initialized
  <1>4. ASSUME NEW c \in LifeCaller, Start(c) PROVE LifeIInv'
    BY <1>4 DEF Start
  <1>5. ASSUME NEW c \in LifeCaller, Started(c) PROVE LifeIInv'
    BY <1>5 DEF Started
  <1>6. ASSUME NEW c \in LifeCaller, Stop(c) PROVE LifeIInv'
    BY <1>6 DEF Stop
  <1>7. ASSUME NEW c \in LifeCaller, Joined(c) PROVE LifeIInv'
    BY <1>7 DEF Joined
  <1>8. ASSUME NEW c \in LifeCaller, StopHook(c) PROVE LifeIInv'
    BY <1>8 DEF StopHook
  <1>9. ASSUME NEW c \in LifeCaller, Closed(c) PROVE LifeIInv'
    <2>1. at[c] = "closing" /\ at' = [at EXCEPT ![c] = "idle"] /\ UNCHANGED <<watched, health, recoveries>>
      BY <1>9 DEF Closed
    <2>2. CASE state' = "stopped" /\ dbOpen' = FALSE
      BY <2>1, <2>2
    <2>3. CASE state' = "error" /\ UNCHANGED dbOpen
      BY <2>1, <2>3
    <2> QED BY <1>9, <2>2, <2>3 DEF Closed
  <1>10. CASE HealthStep
    <2>1. CASE HealthWakes \/ HealthChecked \/ HealthRecovers
      BY <2>1 DEF HealthWakes, HealthChecked, HealthRecovers
    <2>2. CASE HealthFails \/ HealthJoins \/ HealthStops \/ HealthEnds
      BY <2>2 DEF HealthFails, HealthJoins, HealthStops, HealthEnds
    <2>3. CASE HealthCloses
      BY <2>3 DEF HealthCloses
    <2> QED BY <1>10, <2>1, <2>2, <2>3 DEF HealthStep
  <1>11. CASE UNCHANGED lifeVars
    BY <1>11 DEF lifeVars
  <1> QED
    BY <1>1, <1>2, <1>3, <1>4, <1>5, <1>6, <1>7, <1>8, <1>9, <1>10, <1>11 DEF LifeNext

\* One coroutine at a time is inside a transition, a running manager has a live
\* health task, and a stopped one has let go of its connection and its task:
\* initialize, start, stop and the health monitor of managers/base.py, whoever
\* calls them and in whatever order.
THEOREM LifeSafe == LifeSpec => [](LifeTypeOK /\ LifeInv)
  <1>1. LifeIInv => LifeTypeOK /\ LifeInv
    BY DEF LifeIInv, LifeTypeOK, LifeInv, Watching, RunningIsWatched
  <1> QED
    BY LifeInitially, LifeSteps, <1>1, PTL DEF LifeSpec

-----------------------------------------------------------------------------
(* The shutdown *)

\* Where the execution is determines which handlers have been called, and the
\* plan has every component that was registered at the call.
ProgressInv ==
    /\ exec \in {"none", "hooks"} => attempted = {} /\ pending = {}
    /\ exec = "none" => due = {}
    /\ exec \in {"polling", "running", "calling"} => due \subseteq plan
    /\ exec = "polling" => phase = DRAIN_REQUESTS /\ pending = {} /\ attempted = {c \in plan : PhaseOf[c] < phase}
    /\ exec \in {"running", "calling"} =>
          /\ phase # COMPLETE
          /\ attempted = {c \in plan : PhaseOf[c] <= phase} \ pending
    /\ exec = "complete" => due \subseteq attempted

\* The requests were waited for before the handlers of the drain phase.
DrainInv ==
    exec \in {"running", "calling"} /\ Members(plan, DRAIN_REQUESTS) # {} /\ phase >= DRAIN_REQUESTS
        => drained # "no"

ShutdownIInv == ShutdownTypeOK /\ ShutdownInv /\ ProgressInv /\ DrainInv

LEMMA ShutdownInitially == ShutdownInit => ShutdownIInv
  BY ShutdownAssumption
  DEF ShutdownInit, ShutdownIInv, ShutdownTypeOK, ShutdownInv, PhasesInOrder, DependenciesFirst,
      TrackedIsActive, CompleteMeansAll, ProgressInv, DrainInv, Ended, Members, COMPLETE, DRAIN_REQUESTS

\* Entering the next phase after all handlers up to p have been called.
LEMMA Entering ==
    ASSUME ShutdownIInv, NEW p \in 0 .. COMPLETE, EnterPhase(plan', p),
           plan' \subseteq registered, due \subseteq plan',
           attempted = {c \in plan' : PhaseOf[c] < p},
           Members(plan', DRAIN_REQUESTS) # {} /\ p > DRAIN_REQUESTS => drained # "no",
           pending = {},
           UNCHANGED <<down, registered, due, attempted, reqVars>>
    PROVE  ShutdownIInv'
  <1> USE ShutdownAssumption DEF COMPLETE, DRAIN_REQUESTS, reqVars
  <1>1. PICK q \in p .. COMPLETE :
          /\ phase' = q
          /\ \A n \in p .. q - 1 : Members(plan', n) = {}
          /\ \/ q = COMPLETE /\ exec' = "complete" /\ UNCHANGED <<pending, drained>>
             \/ /\ q # COMPLETE /\ Members(plan', q) # {}
                /\ \/ q # DRAIN_REQUESTS /\ BeginHandlers(Members(plan', q)) /\ UNCHANGED drained
                   \/ q = DRAIN_REQUESTS /\ tracked = {} /\ BeginHandlers(Members(plan', q)) /\ drained' = "empty"
                   \/ /\ q = DRAIN_REQUESTS /\ tracked # {}
                      /\ exec' = "polling" /\ UNCHANGED <<pending, drained>>
    BY DEF EnterPhase
  <1>2. \A c \in plan' : PhaseOf[c] \in 0 .. COMPLETE - 1
    BY DEF ShutdownIInv, ShutdownTypeOK
  <1>3. attempted = {c \in plan' : PhaseOf[c] < q}
    <2>1. \A c \in plan' : PhaseOf[c] < q => PhaseOf[c] < p
      BY <1>1, <1>2 DEF Members
    <2> QED BY <1>1, <2>1, <1>2
  <1>4. exec' \in {"complete", "failed", "running", "polling"}
    BY <1>1 DEF BeginHandlers
  <1>5. ShutdownTypeOK'
    BY <1>1, <1>3 DEF ShutdownIInv, ShutdownTypeOK, BeginHandlers, Members, Ended
  <1>6. PhasesInOrder' /\ DependenciesFirst' /\ TrackedIsActive'
    BY <1>1, <1>2, <1>3 DEF ShutdownIInv, ShutdownInv, ShutdownTypeOK, PhasesInOrder, DependenciesFirst, TrackedIsActive
  <1>7. CompleteMeansAll' /\ DrainInv'
    BY <1>1, <1>2, <1>3 DEF CompleteMeansAll, DrainInv, Members, BeginHandlers
  <1>8. ProgressInv'
    BY <1>1, <1>2, <1>3 DEF ProgressInv, BeginHandlers, Members, Ended
  <1> QED BY <1>5, <1>6, <1>7, <1>8 DEF ShutdownIInv, ShutdownInv

LEMMA ShutdownSteps == ShutdownIInv /\ [ShutdownNext]_downVars => ShutdownIInv'
  <1> SUFFICES ASSUME ShutdownIInv, [ShutdownNext]_downVars PROVE ShutdownIInv'
    OBVIOUS
  <1> USE ShutdownAssumption DEF compVars, reqVars
  <1> USE DEF ShutdownIInv, ShutdownInv, ShutdownTypeOK, PhasesInOrder, DependenciesFirst,
              TrackedIsActive, CompleteMeansAll, ProgressInv, DrainInv, Ended, Members
  <1>1. ASSUME NEW c \in Component, Register(c) PROVE ShutdownIInv'
    BY <1>1 DEF Register
  <1>2. ASSUME NEW r \in Request, RequestBegins(r) PROVE ShutdownIInv'
    BY <1>2 DEF RequestBegins
  <1>3. ASSUME NEW r \in Request, RequestEnds(r) PROVE ShutdownIInv'
    <2>1. TrackedIsActive'
      BY <1>3 DEF RequestEnds
    <2> QED BY <1>3, <2>1 DEF RequestEnds
  <1>4. ASSUME NEW d \in DownCaller, CallShutdown(d) PROVE ShutdownIInv'
    BY <1>4 DEF CallShutdown
  <1>5. ASSUME NEW d \in DownCaller, Returns(d) PROVE ShutdownIInv'
    BY <1>5 DEF Returns
  <1>6. CASE HooksDone
    <2>1. EnterPhase(plan', 0) /\ plan' \subseteq registered /\ due \subseteq plan'
      BY <1>6 DEF HooksDone
    <2>2. attempted = {c \in plan' : PhaseOf[c] < 0}
      BY <1>6 DEF HooksDone, COMPLETE
    <2> QED BY <1>6, <2>1, <2>2, Entering DEF HooksDone, DRAIN_REQUESTS, COMPLETE
  <1>7. CASE DrainEnds
    <2> QED BY <1>7 DEF DrainEnds, BeginHandlers, DRAIN_REQUESTS, COMPLETE
  <1>8. ASSUME NEW c \in Component, CallHandler(c) PROVE ShutdownIInv'
    BY <1>8 DEF CallHandler
  <1>9. CASE HandlerEnds
    <2>1. CASE pending # {} /\ exec' = "running" /\ UNCHANGED <<phase, pending, drained>>
      BY <1>9, <2>1 DEF HandlerEnds
    <2>2. CASE pending = {} /\ EnterPhase(plan, phase + 1)
      <3>1. EnterPhase(plan', phase + 1) /\ phase + 1 \in 0 .. COMPLETE /\ plan' = plan
        BY <1>9, <2>2 DEF HandlerEnds, COMPLETE
      <3>2. attempted = {c \in plan' : PhaseOf[c] < phase + 1}
        BY <1>9, <2>2 DEF HandlerEnds, COMPLETE
      <3> QED BY <1>9, <2>2, <3>1, <3>2, Entering DEF HandlerEnds, DRAIN_REQUESTS
    <2> QED BY <1>9, <2>1, <2>2 DEF HandlerEnds
  <1>10. CASE OverallTimeout
    BY <1>10 DEF OverallTimeout
  <1>11. CASE UNCHANGED downVars
    BY <1>11 DEF downVars
  <1> QED
    BY <1>1, <1>2, <1>3, <1>4, <1>5, <1>6, <1>7, <1>8, <1>9, <1>10, <1>11 DEF ShutdownNext, ExecStep

\* The handlers are called phase by phase and after the dependencies of their
\* own phase, a tracked object has a request running, and a shutdown that ends
\* as complete has told every component that was registered when it was called:
\* _execute_shutdown of utils/shutdown.py, for any number of components, phases
\* they are in and dependencies, whatever times out, fails or registers meanwhile.
THEOREM ShutdownSafe == ShutdownSpec => [](ShutdownTypeOK /\ ShutdownInv)
  <1>1. ShutdownIInv => ShutdownTypeOK /\ ShutdownInv
    BY DEF ShutdownIInv
  <1> QED
    BY ShutdownInitially, ShutdownSteps, <1>1, PTL DEF ShutdownSpec
-----------------------------------------------------------------------------
(* The registry of the processes *)

\* What the types rest on: a claude process has a number, and whoever is to write
\* a row knows the pid, and what to write as its start.
Held ==
    /\ living \in [RegPid -> 0 .. MaxStarts]
    /\ tracker.pc \in {"noting", "ending"} => tracker.on \in RegPid
    /\ fixer.pc \in {"removing", "watching", "refreshing", "storing", "adding"} => fixer.pid \in RegPid
    /\ fixer.pc = "storing" => fixer.birth \in Birth
    /\ \A c \in Caller : /\ caller[c].pc # "idle" => caller[c].pid \in RegPid
                         /\ caller[c].pc = "storing" => caller[c].birth \in Birth

RegIInv == RegTypeOK /\ Held

\* The four loops and calls, and the rows, one conjunct each.
Rows == rows \in [RegPid -> Row \cup {None}]
Processes == /\ starts \in [RegPid -> 0 .. MaxStarts] /\ living \in [RegPid -> 0 .. MaxStarts]
             /\ \A p \in RegPid : living[p] \in {0, starts[p]}
TrackerAt == [pc : {"asleep", "updating", "noting", "ending", "marking"}, left : SUBSET RegPid, on : RegPid \cup {None}]
Tracker == /\ tracker \in TrackerAt /\ trackedPids \subseteq RegPid
           /\ tracker.pc \in {"noting", "ending"} => tracker.on \in RegPid
CleanerAt == [pc : {"asleep", "removing", "adopting"}, gone : SUBSET RegPid, quiet : SUBSET RegPid,
              orphans : SUBSET (RegPid \X Birth)]
Cleaner == cleaner \in CleanerAt
FixerAt == [pc : {"asleep", "fixing", "removing", "watching", "refreshing", "storing", "adding"},
            left : SUBSET (RegPid \X Birth \X BOOLEAN), pid : RegPid \cup {None},
            birth : 0 .. MaxStarts, session : Session \cup {Orphan}]
Fixer == /\ fixer \in FixerAt
         /\ fixer.pc \in {"removing", "watching", "refreshing", "storing", "adding"} => fixer.pid \in RegPid
         /\ fixer.pc = "storing" => fixer.birth \in Birth
CallerAt == [pc : {"idle", "storing", "adding", "removing"}, pid : RegPid \cup {None},
             birth : 0 .. MaxStarts, session : Session \cup {Orphan}]
CallerIs(x) == /\ x \in CallerAt
               /\ x.pc # "idle" => x.pid \in RegPid
               /\ x.pc = "storing" => x.birth \in Birth
Callers == caller \in [Caller -> CallerAt] /\ \A c \in Caller : CallerIs(caller[c])

LEMMA RegParts == RegIInv <=> Rows /\ Processes /\ Tracker /\ Cleaner /\ Fixer /\ Callers
BY DEF RegIInv, RegTypeOK, Held, Rows, Processes, Tracker, Cleaner, Fixer, Callers,
       TrackerAt, CleanerAt, FixerAt, CallerAt, CallerIs

LEMMA Numbers == Birth \subseteq 0 .. MaxStarts /\ 0 \in 0 .. MaxStarts
                 /\ (Processes => \A p \in RegPid : living[p] # 0 => living[p] \in Birth)
BY RegistryAssumption DEF Birth, Processes

LEMMA RegInitially == RegInit => RegIInv
<1> SUFFICES ASSUME RegInit PROVE RegIInv
  OBVIOUS
<1> USE Numbers DEF RegInit
<1>1. Rows /\ Processes BY DEF Rows, Processes
<1>2. Tracker /\ Cleaner BY DEF Tracker, Cleaner, TrackerAt, CleanerAt, Asleep, CleanerAsleep
<1>3. Fixer BY DEF Fixer, FixerAt, FixerAsleep
<1>4. CallerIs(Resting) BY DEF CallerIs, CallerAt, Resting
<1>5. Callers BY <1>4 DEF Callers, CallerIs
<1> QED BY <1>1, <1>2, <1>3, <1>5, RegParts

\* What the operations of the storage write are rows.
LEMMA RowsWritten ==
    ASSUME Rows, NEW p \in RegPid
    PROVE  /\ \A b \in Birth, s \in Session \cup {Orphan} : Put(p, b, s) => Rows'
           /\ \A status \in {"running", "stopped"} : Touch(p, status) => Rows'
           /\ Remove(p) => Rows'
           /\ (rows' = IF HasRow(p) THEN [rows EXCEPT ![p].stale = FALSE] ELSE rows) => Rows'
           /\ (HasRow(p) /\ rows' = [rows EXCEPT ![p].stale = TRUE]) => Rows'
<1>1. HasRow(p) => rows[p] \in Row BY DEF Rows, HasRow
<1>2. ASSUME NEW b \in Birth, NEW s \in Session \cup {Orphan}, Put(p, b, s) PROVE Rows'
  <2> DEFINE r == [birth |-> IF HasRow(p) THEN rows[p].birth ELSE b, session |-> s, status |-> "running", stale |-> FALSE]
  <2>1. r \in Row BY <1>1 DEF Row
  <2>2. rows' = [rows EXCEPT ![p] = r] BY <1>2 DEF Put
  <2> HIDE DEF r
  <2> QED BY <2>1, <2>2 DEF Rows
<1>3. ASSUME NEW status \in {"running", "stopped"}, Touch(p, status) PROVE Rows'
  <2>1. CASE HasRow(p)
    <3>1. [rows[p] EXCEPT !.status = status, !.stale = FALSE] \in Row BY <1>1, <2>1 DEF Row
    <3> QED BY <1>3, <2>1, <3>1 DEF Touch, Rows
  <2>2. CASE ~HasRow(p) BY <1>3, <2>2 DEF Touch, Rows
  <2> QED BY <2>1, <2>2
<1>4. Remove(p) => Rows' BY DEF Remove, Rows
<1>5. ASSUME HasRow(p), NEW stale \in BOOLEAN, rows' = [rows EXCEPT ![p].stale = stale] PROVE Rows'
  <2>1. [rows[p] EXCEPT !.stale = stale] \in Row BY <1>1, <1>5 DEF Row
  <2> QED BY <1>5, <2>1 DEF Rows
<1>6. (rows' = IF HasRow(p) THEN [rows EXCEPT ![p].stale = FALSE] ELSE rows) => Rows'
  BY <1>5 DEF Rows
<1>7. (HasRow(p) /\ rows' = [rows EXCEPT ![p].stale = TRUE]) => Rows'
  BY <1>5
<1> QED BY <1>2, <1>3, <1>4, <1>6, <1>7

LEMMA RowsPurged == ASSUME Rows, NEW old, Purge(old) PROVE Rows'
BY DEF Rows, Purge

LEMMA TrackingStep == RegIInv /\ Tracking => RegIInv'
<1> SUFFICES ASSUME RegIInv, Tracking PROVE RegIInv'
  OBVIOUS
<1>a. Rows /\ Processes /\ Tracker /\ Cleaner /\ Fixer /\ Callers BY RegParts
<1>b. UNCHANGED <<procVars, cleaner, fixer, caller>> => Processes' /\ Cleaner' /\ Fixer' /\ Callers'
  BY <1>a DEF procVars, Processes, Cleaner, Fixer, Callers
<1>c. Rows' /\ Tracker' /\ UNCHANGED <<procVars, cleaner, fixer, caller>> => RegIInv'
  <2>1. Rows' /\ Tracker' /\ Processes' /\ Cleaner' /\ Fixer' /\ Callers' => RegIInv'
    BY DEF RegIInv, RegTypeOK, Held, Rows, Processes, Tracker, Cleaner, Fixer, Callers,
           TrackerAt, CleanerAt, FixerAt, CallerAt, CallerIs
  <2> QED BY <1>b, <2>1
<1> USE DEF TrackerGoes, TrackerAt, Tracker, Asleep
<1>1. CASE TrackerWakes BY <1>a, <1>1, <1>c DEF TrackerWakes, Rows
<1>2. CASE JudgeTracked BY <1>a, <1>2, <1>c DEF JudgeTracked, Rows
<1>3. CASE TrackerPurges BY <1>a, <1>3, <1>c, RowsPurged DEF TrackerPurges
<1>4. CASE NoteStatus BY <1>a, <1>4, <1>c, RowsWritten DEF NoteStatus
<1>5. ASSUME NEW p \in RegPid, UpdateTracked(p) PROVE RegIInv'
  <2>1. Tracker' BY <1>a, <1>5 DEF UpdateTracked
  <2>2. Rows' BY <1>a, <1>5, RowsWritten DEF UpdateTracked, Rows
  <2> QED BY <1>c, <1>5, <2>1, <2>2 DEF UpdateTracked
<1>6. ASSUME NEW p \in RegPid, MarkStopped(p) PROVE RegIInv'
  BY <1>a, <1>6, <1>c, RowsWritten DEF MarkStopped
<1> QED BY <1>1, <1>2, <1>3, <1>4, <1>5, <1>6 DEF Tracking

LEMMA CleaningStep == RegIInv /\ Cleaning => RegIInv'
<1> SUFFICES ASSUME RegIInv, Cleaning PROVE RegIInv'
  OBVIOUS
<1>a. Rows /\ Processes /\ Tracker /\ Cleaner /\ Fixer /\ Callers BY RegParts
<1>c. Rows' /\ Cleaner' /\ UNCHANGED <<procVars, trackedPids, tracker, fixer, caller>> => RegIInv'
  <2>1. UNCHANGED <<procVars, trackedPids, tracker, fixer, caller>> => Processes' /\ Tracker' /\ Fixer' /\ Callers'
    BY <1>a DEF procVars, Processes, Tracker, Fixer, Callers
  <2>2. Rows' /\ Tracker' /\ Processes' /\ Cleaner' /\ Fixer' /\ Callers' => RegIInv'
    BY DEF RegIInv, RegTypeOK, Held, Rows, Processes, Tracker, Cleaner, Fixer, Callers,
           TrackerAt, CleanerAt, FixerAt, CallerAt, CallerIs
  <2> QED BY <2>1, <2>2
<1> USE DEF CleanerAt, Cleaner, CleanerAsleep
<1>1. CASE CleanerWakes BY <1>a, <1>1, <1>c DEF CleanerWakes, Rows, Stale
<1>2. CASE FindOrphans
  <2>1. {<<p, living[p]>> : p \in {q \in RegPid : living[q] # 0 /\ ~HasRow(q)}} \subseteq RegPid \X Birth
    BY <1>a, Numbers
  <2> QED BY <1>a, <1>2, <1>c, <2>1 DEF FindOrphans, Rows
<1>3. CASE CleanerPurges BY <1>a, <1>3, <1>c, RowsPurged DEF CleanerPurges
<1>4. ASSUME NEW p \in RegPid, CleansGone(p) PROVE RegIInv'
  BY <1>a, <1>4, <1>c, RowsWritten DEF CleansGone
<1>5. ASSUME NEW p \in RegPid, CleansQuiet(p) PROVE RegIInv'
  <2>1. Rows' BY <1>a, <1>5, RowsWritten DEF CleansQuiet, Rows
  <2> QED BY <1>a, <1>5, <1>c, <2>1 DEF CleansQuiet
<1>6. ASSUME NEW p \in RegPid, NEW b \in Birth, Adopts(p, b) PROVE RegIInv'
  <2>1. Rows' BY <1>a, <1>6, RowsWritten DEF Adopts
  <2>2. Cleaner' BY <1>a, <1>6 DEF Adopts
  <2> QED BY <1>6, <1>c, <2>1, <2>2 DEF Adopts
<1> QED BY <1>1, <1>2, <1>3, <1>4, <1>5, <1>6 DEF Cleaning

LEMMA FixingStep == RegIInv /\ Fixing => RegIInv'
<1> SUFFICES ASSUME RegIInv, Fixing PROVE RegIInv'
  OBVIOUS
<1>a. Rows /\ Processes /\ Tracker /\ Cleaner /\ Fixer /\ Callers BY RegParts
<1>c. Rows' /\ Fixer' /\ trackedPids' \subseteq RegPid /\ UNCHANGED <<procVars, tracker, cleaner, caller>> => RegIInv'
  <2>1. trackedPids' \subseteq RegPid /\ UNCHANGED <<procVars, tracker, cleaner, caller>>
        => Processes' /\ Tracker' /\ Cleaner' /\ Callers'
    BY <1>a DEF procVars, Processes, Tracker, Cleaner, Callers
  <2>2. Rows' /\ Tracker' /\ Processes' /\ Cleaner' /\ Fixer' /\ Callers' => RegIInv'
    BY DEF RegIInv, RegTypeOK, Held, Rows, Processes, Tracker, Cleaner, Fixer, Callers,
           TrackerAt, CleanerAt, FixerAt, CallerAt, CallerIs
  <2> QED BY <2>1, <2>2
<1>t. trackedPids \subseteq RegPid BY <1>a DEF Tracker
<1>r. UNCHANGED rows => Rows' BY <1>a DEF Rows
<1>z. FixerAsleep \in FixerAt /\ FixerAsleep.pc = "asleep" /\ FixerAsleep.left = {}
  BY Numbers DEF FixerAsleep, FixerAt
<1>g. ASSUME FixerGoes("fixing", None) PROVE Fixer'
  BY <1>a, <1>z, <1>g DEF FixerGoes, Fixer, FixerAt
<1>1. CASE FixBegins
  <2>1. {<<p, rows[p].birth, rows[p].stale>> : p \in {q \in RegPid : HasRow(q)}} \subseteq RegPid \X Birth \X BOOLEAN
    <3> SUFFICES ASSUME NEW q \in RegPid, HasRow(q) PROVE rows[q].birth \in Birth /\ rows[q].stale \in BOOLEAN
      OBVIOUS
    <3>1. rows[q] \in Row BY <1>a DEF Rows, HasRow
    <3> QED BY <3>1 DEF Row
  <2>2. Fixer' BY <1>z, <1>1, <2>1 DEF FixBegins, Fixer, FixerAt
  <2> QED BY <1>c, <1>t, <1>r, <1>1, <2>2 DEF FixBegins
<1>2. CASE FixRemoves BY <1>a, <1>2, <1>c, <1>t, <1>g, RowsWritten DEF FixRemoves, Fixer
<1>3. CASE FixWatches BY <1>a, <1>3, <1>c, <1>t, <1>g, RowsWritten DEF FixWatches, Fixer
<1>4. CASE FixRefreshes
  <2>1. fixer.pid \in RegPid /\ fixer \in FixerAt BY <1>a, <1>4 DEF FixRefreshes, Fixer
  <2>2. CASE HasRow(fixer.pid) /\ living[fixer.pid] # 0
    <3>1. rows[fixer.pid].session \in Session \cup {Orphan} BY <1>a, <2>1, <2>2 DEF Rows, HasRow, Row
    <3>2. living[fixer.pid] \in Birth BY <1>a, <2>1, <2>2, Numbers
    <3>3. fixer' = [fixer EXCEPT !.pc = "storing", !.birth = living[fixer.pid], !.session = rows[fixer.pid].session]
      BY <1>4, <2>2 DEF FixRefreshes
    <3>4. Fixer' BY <2>1, <3>1, <3>2, <3>3, Numbers DEF Fixer, FixerAt
    <3> QED BY <1>4, <1>c, <1>t, <1>r, <3>4 DEF FixRefreshes
  <2>3. CASE ~(HasRow(fixer.pid) /\ living[fixer.pid] # 0)
    BY <1>4, <1>c, <1>t, <1>r, <1>g, <2>3 DEF FixRefreshes
  <2> QED BY <2>2, <2>3
<1>5. CASE FixStores
  <2>1. fixer.pid \in RegPid /\ fixer.birth \in Birth /\ fixer \in FixerAt BY <1>a, <1>5 DEF FixStores, Fixer
  <2>2. fixer.session \in Session \cup {Orphan} BY <2>1 DEF FixerAt
  <2>3. Rows' BY <1>a, <1>5, <2>1, <2>2, RowsWritten DEF FixStores
  <2>4. Fixer' BY <1>5, <1>z, <2>1 DEF FixStores, FixerGoes, Fixer, FixerAt
  <2> QED BY <1>5, <1>c, <1>t, <2>3, <2>4 DEF FixStores
<1>6. CASE FixAdds
  <2>1. fixer.pid \in RegPid BY <1>a, <1>6 DEF FixAdds, Fixer
  <2> QED BY <1>6, <1>c, <1>t, <1>r, <1>g, <2>1 DEF FixAdds
<1>7. CASE FixEnds
  <2>1. Fixer' BY <1>7, <1>z DEF FixEnds, Fixer
  <2> QED BY <1>7, <1>c, <1>t, <1>r, <2>1 DEF FixEnds
<1>8. ASSUME NEW p \in RegPid, NEW b \in Birth, NEW stale \in BOOLEAN, Judges(p, b, stale) PROVE RegIInv'
  <2>1. PICK fix \in {"fixing", "removing", "refreshing", "watching"} :
            fixer' = [FixerAsleep EXCEPT !.pc = fix, !.left = fixer.left \ {<<p, b, stale>>},
                                         !.pid = IF fix = "fixing" THEN None ELSE p]
    BY <1>8 DEF Judges
  <2>2. fixer.left \subseteq RegPid \X Birth \X BOOLEAN BY <1>a DEF Fixer, FixerAt
  <2>3. Fixer' BY <1>z, <2>1, <2>2 DEF Fixer, FixerAt
  <2> QED BY <1>8, <1>c, <1>t, <1>r, <2>3 DEF Judges
<1> QED BY <1>1, <1>2, <1>3, <1>4, <1>5, <1>6, <1>7, <1>8 DEF Fixing

LEMMA CallingStep == RegIInv /\ Calling => RegIInv'
<1> SUFFICES ASSUME RegIInv, NEW c \in Caller,
                    \/ \E p \in RegPid : Untrack(c, p) \/ \E s \in Session : Track(c, p, s)
                    \/ Stored(c) \/ Added(c) \/ Untracked(c)
             PROVE  RegIInv'
  BY DEF Calling
<1>a. Rows /\ Processes /\ Tracker /\ Cleaner /\ Fixer /\ Callers BY RegParts
<1>c. ASSUME Rows', NEW x, CallerIs(x), caller' = [caller EXCEPT ![c] = x], trackedPids' \subseteq RegPid,
             UNCHANGED <<procVars, tracker, cleaner, fixer>>
      PROVE  RegIInv'
  <2>1. Processes' /\ Tracker' /\ Cleaner' /\ Fixer'
    BY <1>a, <1>c DEF procVars, Processes, Tracker, Cleaner, Fixer
  <2>2. Callers'
    <3>1. \A d \in Caller : caller'[d] = IF d = c THEN x ELSE caller[d] BY <1>a, <1>c DEF Callers
    <3>2. caller' \in [Caller -> CallerAt] BY <1>a, <1>c DEF Callers, CallerIs
    <3>3. \A d \in Caller : CallerIs(caller'[d]) BY <1>a, <1>c, <3>1 DEF Callers
    <3> QED BY <3>2, <3>3 DEF Callers, CallerIs
  <2>3. Rows' /\ Tracker' /\ Processes' /\ Cleaner' /\ Fixer' /\ Callers' => RegIInv'
    BY DEF RegIInv, RegTypeOK, Held, Rows, Processes, Tracker, Cleaner, Fixer, Callers,
           TrackerAt, CleanerAt, FixerAt, CallerAt, CallerIs
  <2> QED BY <1>c, <2>1, <2>2, <2>3
<1>t. trackedPids \subseteq RegPid BY <1>a DEF Tracker
<1>r. UNCHANGED rows => Rows' BY <1>a DEF Rows
<1>z. CallerIs(Resting) BY Numbers DEF Resting, CallerIs, CallerAt
<1>x. CallerIs(caller[c]) /\ caller[c] \in CallerAt BY <1>a DEF Callers
<1>1. ASSUME NEW p \in RegPid, Untrack(c, p) PROVE RegIInv'
  <2> DEFINE x == [Resting EXCEPT !.pc = "removing", !.pid = p]
  <2>1. CallerIs(x) BY <1>z DEF CallerIs, CallerAt
  <2>2. caller' = [caller EXCEPT ![c] = x] /\ trackedPids' \subseteq RegPid BY <1>1, <1>t DEF Untrack
  <2> HIDE DEF x
  <2> QED BY <1>1, <1>c, <1>r, <2>1, <2>2 DEF Untrack
<1>2. ASSUME NEW p \in RegPid, NEW s \in Session, Track(c, p, s) PROVE RegIInv'
  <2> DEFINE x == [pc |-> "storing", pid |-> p, birth |-> living[p], session |-> s]
  <2>1. living[p] \in Birth BY <1>a, <1>2, Numbers DEF Track
  <2>2. CallerIs(x) BY <2>1, Numbers DEF CallerIs, CallerAt
  <2>3. caller' = [caller EXCEPT ![c] = x] BY <1>2 DEF Track
  <2> HIDE DEF x
  <2> QED BY <1>2, <1>c, <1>r, <1>t, <2>2, <2>3 DEF Track
<1>3. CASE Stored(c)
  <2> DEFINE x == [caller[c] EXCEPT !.pc = "adding"]
  <2>1. CallerIs(x) BY <1>3, <1>x DEF Stored, CallerIs, CallerAt
  <2>2. caller' = [caller EXCEPT ![c] = x] BY <1>3 DEF Stored
  <2>3. Rows'
    <3>1. caller[c].pid \in RegPid /\ caller[c].birth \in Birth /\ caller[c].session \in Session \cup {Orphan}
      BY <1>3, <1>x DEF Stored, CallerIs, CallerAt
    <3> QED BY <1>a, <1>3, <3>1, RowsWritten DEF Stored
  <2> HIDE DEF x
  <2> QED BY <1>3, <1>c, <1>t, <2>1, <2>2, <2>3 DEF Stored
<1>4. CASE Added(c)
  <2>1. caller[c].pid \in RegPid BY <1>4, <1>x DEF Added, CallerIs
  <2>2. caller' = [caller EXCEPT ![c] = Resting] /\ trackedPids' \subseteq RegPid BY <1>4, <1>t, <2>1 DEF Added
  <2> QED BY <1>4, <1>c, <1>r, <1>z, <2>2 DEF Added
<1>5. CASE Untracked(c)
  <2>1. caller[c].pid \in RegPid BY <1>5, <1>x DEF Untracked, CallerIs
  <2>2. caller' = [caller EXCEPT ![c] = Resting] BY <1>5 DEF Untracked
  <2>3. Rows' BY <1>a, <1>5, <2>1, RowsWritten DEF Untracked
  <2> QED BY <1>5, <1>c, <1>t, <1>z, <2>2, <2>3 DEF Untracked
<1> QED BY <1>1, <1>2, <1>3, <1>4, <1>5

LEMMA ProcessesStep ==
    ASSUME RegIInv, NEW p \in RegPid, ProcessStarts(p) \/ ProcessExits(p) \/ GrowsStale(p)
    PROVE  RegIInv'
<1>a. Rows /\ Processes /\ Tracker /\ Cleaner /\ Fixer /\ Callers BY RegParts
<1>b. UNCHANGED <<trackedPids, tracker, cleaner, fixer, caller>> => Tracker' /\ Cleaner' /\ Fixer' /\ Callers'
  BY <1>a DEF Tracker, Cleaner, Fixer, Callers
<1>c. Rows' /\ Tracker' /\ Processes' /\ Cleaner' /\ Fixer' /\ Callers' => RegIInv'
  BY DEF RegIInv, RegTypeOK, Held, Rows, Processes, Tracker, Cleaner, Fixer, Callers,
         TrackerAt, CleanerAt, FixerAt, CallerAt, CallerIs
<1>1. CASE ProcessStarts(p)
  <2>1. starts[p] + 1 \in 0 .. MaxStarts BY <1>a, <1>1, RegistryAssumption DEF ProcessStarts, Processes
  <2>2. Processes' BY <1>a, <1>1, <2>1 DEF ProcessStarts, Processes
  <2>3. Rows' BY <1>a, <1>1 DEF ProcessStarts, Rows
  <2> QED BY <1>1, <1>b, <1>c, <2>2, <2>3 DEF ProcessStarts
<1>2. CASE ProcessExits(p)
  <2>1. Processes' BY <1>a, <1>2, Numbers DEF ProcessExits, Processes
  <2>2. Rows' BY <1>a, <1>2 DEF ProcessExits, Rows
  <2> QED BY <1>2, <1>b, <1>c, <2>1, <2>2 DEF ProcessExits
<1>3. CASE GrowsStale(p)
  <2>1. Processes' BY <1>a, <1>3 DEF GrowsStale, Processes, procVars
  <2>2. Rows' BY <1>a, <1>3, RowsWritten DEF GrowsStale
  <2> QED BY <1>3, <1>b, <1>c, <2>1, <2>2 DEF GrowsStale
<1> QED BY <1>1, <1>2, <1>3

LEMMA RegSteps == RegIInv /\ [RegNext]_regVars => RegIInv'
<1> SUFFICES ASSUME RegIInv, UNCHANGED regVars PROVE RegIInv'
  BY TrackingStep, CleaningStep, FixingStep, CallingStep, ProcessesStep DEF RegNext
<1> QED BY DEF regVars, RegIInv, RegTypeOK, Held

\* Whatever the tracker, the cleaner, a fixing validation and the callers do to
\* the rows in whatever order, a row is a row: none is written for a pid or a
\* start that its writer does not know (registry/tracker.py, cleaner.py,
\* validator.py).
THEOREM RegistrySafe == RegSpec => []RegTypeOK
<1>1. RegIInv => RegTypeOK BY DEF RegIInv
<1> QED BY RegInitially, RegSteps, <1>1, PTL DEF RegSpec

-----------------------------------------------------------------------------
(* The three of them, as they are run *)

\* A manager's life cycle, the shutdown and the registry of the processes are
\* well typed, and the first two keep their invariants, whatever number of
\* components, callers, requests, pids and reuses of pids there is.
THEOREM RuntimeSafe == Spec => [](TypeOK /\ LifeInv /\ ShutdownInv)
<1> DEFINE I == LifeIInv /\ ShutdownIInv /\ RegIInv
<1>1. Init => I BY LifeInitially, ShutdownInitially, RegInitially DEF Init
<1>2. I /\ [Next]_<<lifeVars, downVars, regVars, focus>> => I'
  <2> SUFFICES ASSUME I, [Next]_<<lifeVars, downVars, regVars, focus>> PROVE I'
    OBVIOUS
  <2>1. [LifeNext]_lifeVars /\ [ShutdownNext]_downVars /\ [RegNext]_regVars BY DEF Next
  <2> QED BY <2>1, LifeSteps, ShutdownSteps, RegSteps
<1>3. I => TypeOK /\ LifeInv /\ ShutdownInv
  BY DEF LifeIInv, ShutdownIInv, RegIInv, TypeOK, LifeInv, Watching, RunningIsWatched
<1> QED BY <1>1, <1>2, <1>3, PTL DEF Spec
=============================================================================
