-------------------------- MODULE ManagerLifecycle --------------------------
(***************************************************************************)
(* The life of a manager (managers/base.py): initialize(), start() and     *)
(* stop() called by anybody at any time, and the health monitor that the   *)
(* manager runs beside them.  The three calls guard each other by `state`  *)
(* alone, over awaits: the database, the subclass's hooks, the health task.*)
(*                                                                         *)
(* A recovery is restart() inside the health task, whose stop() cancels    *)
(* and awaits that very task, twice.  What the second await of itself does *)
(* depends on the interpreter, and the model leaves it open: the Task of   *)
(* CPython's C accelerator still has the flag of the first await set and   *)
(* raises RuntimeError ("await wasn't used with future"), which ends       *)
(* stop() in ERROR; the Task written in Python raises CancelledError,      *)
(* which is swallowed, and stop() goes on to STOPPED, where initialize()   *)
(* raises.                                                                 *)
(***************************************************************************)
EXTENDS Naturals

CONSTANT LifeCaller     \* the coroutines that call initialize, start or stop

VARIABLES
    watched,    \* is config.health_check_interval positive?
    state,      \* ManagerState
    dbOpen,     \* is there a connection in self.db?
    health,     \* _health_task
    recoveries, \* _recovery_attempts
    at          \* where each caller is suspended

lifeVars == <<watched, state, dbOpen, health, recoveries, at>>

MaxRecoveries == 3          \* max_recovery_attempts
Restarting == {"stopping", "hook", "closing"}   \* the health task is inside stop()
HealthAlive == {"asleep", "checking", "backoff"} \cup Restarting
Transition == {"initializing", "starting", "stopping"}

LifeTypeOK ==
    /\ watched \in BOOLEAN
    /\ state \in Transition \cup {"uninitialized", "ready", "running", "stopped", "error"}
    /\ dbOpen \in BOOLEAN
    /\ health \in HealthAlive \cup {"none", "cancelled", "ended"}
    /\ recoveries \in 0 .. MaxRecoveries
    /\ at \in [LifeCaller -> {"idle", "connecting", "initializing", "starting", "joining", "stopping", "closing"}]

LifeInit ==
    /\ watched \in BOOLEAN
    /\ state = "uninitialized" /\ dbOpen = FALSE
    /\ health = "none" /\ recoveries = 0
    /\ at = [c \in LifeCaller |-> "idle"]

Move(c, p, q) == at[c] = p /\ at' = [at EXCEPT ![c] = q]

-----------------------------------------------------------------------------
\* A call in a state that does not admit it raises (stop() returns): no step.
Initialize(c) ==
    /\ state = "uninitialized"
    /\ state' = "initializing"
    /\ Move(c, "idle", "connecting")
    /\ UNCHANGED <<watched, dbOpen, health, recoveries>>

\* _setup_database(), if there is a db_path; it may fail before or after the
\* connection is made.
Connected(c) ==
    /\ dbOpen' \in BOOLEAN
    /\ \/ Move(c, "connecting", "idle") /\ state' = "error"
       \/ Move(c, "connecting", "initializing") /\ UNCHANGED state
    /\ UNCHANGED <<watched, health, recoveries>>

Initialized(c) ==
    /\ Move(c, "initializing", "idle")
    /\ state' \in {"ready", "error"}
    /\ UNCHANGED <<watched, dbOpen, health, recoveries>>

Start(c) ==
    /\ state = "ready"
    /\ state' = "starting"
    /\ Move(c, "idle", "starting")
    /\ UNCHANGED <<watched, dbOpen, health, recoveries>>

Started(c) ==
    /\ Move(c, "starting", "idle")
    /\ \/ state' = "running" /\ health' = IF watched THEN "asleep" ELSE health
       \/ state' = "error" /\ UNCHANGED health
    /\ UNCHANGED <<watched, dbOpen, recoveries>>

Stop(c) ==
    /\ state = "running"
    /\ state' = "stopping"
    /\ health' = IF health \in HealthAlive THEN "cancelled" ELSE health
    /\ Move(c, "idle", IF health = "none" THEN "stopping" ELSE "joining")
    /\ UNCHANGED <<watched, dbOpen, recoveries>>

Joined(c) ==
    /\ health = "ended"
    /\ Move(c, "joining", "stopping")
    /\ UNCHANGED <<watched, state, dbOpen, health, recoveries>>

\* _stop() may raise; else the connection is closed.
StopHook(c) ==
    /\ \/ Move(c, "stopping", "closing") /\ UNCHANGED state
       \/ Move(c, "stopping", "idle") /\ state' = "error"
    /\ UNCHANGED <<watched, dbOpen, health, recoveries>>

Closed(c) ==
    /\ Move(c, "closing", "idle")
    /\ \/ state' = "stopped" /\ dbOpen' = FALSE
       \/ dbOpen /\ state' = "error" /\ UNCHANGED dbOpen
    /\ UNCHANGED <<watched, health, recoveries>>

-----------------------------------------------------------------------------
(* _health_monitor() and _attempt_recovery() *)

HealthWakes ==
    /\ health = "asleep"
    /\ health' = "checking"
    /\ UNCHANGED <<watched, state, dbOpen, recoveries, at>>

\* A healthy manager, or one whose attempts are used up: the loop goes on.
HealthChecked ==
    /\ health = "checking"
    /\ \/ health' = "asleep" /\ UNCHANGED recoveries
       \/ recoveries < MaxRecoveries /\ health' = "backoff" /\ recoveries' = recoveries + 1
    /\ UNCHANGED <<watched, state, dbOpen, at>>

\* _recover() is restart(), whose stop() cancels the task it runs in ...
HealthRecovers ==
    /\ health = "backoff"
    /\ state' = "stopping" /\ health' = "stopping"
    /\ UNCHANGED <<watched, dbOpen, recoveries, at>>

\* Mutant: the state is left as it was.
HealthFailsSilently ==
    /\ health = "stopping"
    /\ state' = "running" /\ health' = "ended"
    /\ UNCHANGED <<watched, dbOpen, recoveries, at>>

\* ... and awaits it: the first await is swallowed, the second one raises
\* RuntimeError (the C Task) ...
HealthFails ==
    /\ health = "stopping"
    /\ state' = "error" /\ health' = "ended"
    /\ UNCHANGED <<watched, dbOpen, recoveries, at>>

\* ... or is swallowed too (the Python Task): stop() runs on, _stop() or the
\* close may raise, and initialize() does, in STOPPED.
HealthJoins ==
    /\ health = "stopping"
    /\ health' = "hook"
    /\ UNCHANGED <<watched, state, dbOpen, recoveries, at>>

HealthStops ==
    /\ health = "hook"
    /\ \/ health' = "closing" /\ UNCHANGED state
       \/ health' = "ended" /\ state' = "error"
    /\ UNCHANGED <<watched, dbOpen, recoveries, at>>

HealthCloses ==
    /\ health = "closing"
    /\ health' = "ended"
    /\ \/ state' = "stopped" /\ dbOpen' = FALSE
       \/ dbOpen /\ state' = "error" /\ UNCHANGED dbOpen
    /\ UNCHANGED <<watched, recoveries, at>>

HealthEnds ==
    /\ health = "cancelled"
    /\ health' = "ended"
    /\ UNCHANGED <<watched, state, dbOpen, recoveries, at>>

-----------------------------------------------------------------------------
HealthStep ==
    \/ HealthWakes \/ HealthChecked \/ HealthRecovers
    \/ HealthFails \/ HealthJoins \/ HealthStops \/ HealthCloses
    \/ HealthEnds

LifeNext ==
    \/ \E c \in LifeCaller :
          \/ Initialize(c) \/ Connected(c) \/ Initialized(c)
          \/ Start(c) \/ Started(c)
          \/ Stop(c) \/ Joined(c) \/ StopHook(c) \/ Closed(c)
    \/ HealthStep

LifeSpec == LifeInit /\ [][LifeNext]_lifeVars

-----------------------------------------------------------------------------
\* Who is inside a transition; the health task, when it restarts the manager.
Inside == {c \in LifeCaller : at[c] # "idle"}

\* The state is the only lock: a transition is under way exactly when the state
\* says so, in one coroutine, whatever is called while it awaits.
OneTransition ==
    /\ state \in Transition <=> Inside # {} \/ health \in Restarting
    /\ \A c, d \in Inside : c = d
    /\ health \in Restarting => Inside = {}

\* A running manager whose health_check_interval is positive is watched: its
\* health task has not ended.
RunningIsWatched == state = "running" /\ watched => health \in HealthAlive

\* A manager that reports STOPPED has let go of its task and its connection.
StoppedIsReleased == state = "stopped" => ~dbOpen /\ health \in {"none", "ended"}

\* A manager is in one transition at a time, watched while it runs, and released
\* when it is stopped (initialize, start, stop, restart of managers/base.py).
LifeInv == OneTransition /\ RunningIsWatched /\ StoppedIsReleased

\* base.py:343: a recovery restarts the manager.
RecoveryRestarts == [][(health \in Restarting) => ~(state' \in {"error", "stopped"})]_lifeVars
=============================================================================
