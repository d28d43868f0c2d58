-------------------------- MODULE ShutdownManager --------------------------
(***************************************************************************)
(* The graceful shutdown (utils/shutdown.py): requests are counted while   *)
(* they run; shutdown() may be called by several coroutines and signals,   *)
(* runs the registered handlers phase by phase under one overall time-out, *)
(* and drains the requests before, if a handler is registered for that     *)
(* phase.  A component's own time-out or error does not stop the others.   *)
(* unregister_component() has no caller and is left out.                   *)
(***************************************************************************)
EXTENDS Naturals

CONSTANTS
    Component,          \* the components that may register
    PhaseOf,            \* their ShutdownPhase
    DependsOn,          \* the components each one depends on
    DownCaller,         \* the coroutines that call shutdown()
    Request,            \* the calls decorated with track_request_lifetime
    OwnerOf             \* the object each is a method of: what is tracked

COMPLETE == 7
DRAIN_REQUESTS == 2

ASSUME ShutdownAssumption ==
    /\ PhaseOf \in [Component -> 0 .. COMPLETE - 1]
    /\ DependsOn \in [Component -> SUBSET Component]
    /\ Request \subseteq DOMAIN OwnerOf

VARIABLES
    down,       \* where each caller of shutdown() is
    exec,       \* where _execute_shutdown() is
    phase,      \* the phase it is in
    registered, \* _components
    due,        \* those registered when the shutdown was called (history)
    plan,       \* those it goes by: grouped by phase once the hooks have run
    pending,    \* the components of the phase whose handler was not called yet
    attempted,  \* the components whose handler has been called
    drained,    \* how _drain_requests() ended
    active,     \* the requests that run
    tracked     \* _active_requests: the objects they are methods of

reqVars == <<active, tracked>>
compVars == <<registered, due, plan>>
downVars == <<down, exec, phase, compVars, pending, attempted, drained, reqVars>>

Members(C, p) == {c \in C : PhaseOf[c] = p}

\* The shutdown event is set when the execution has ended, however it did.
Ended == {"complete", "failed", "timedOut", "exited"}

ShutdownTypeOK ==
    /\ down \in [DownCaller -> {"idle", "first", "waiting", "done", "failed"}]
    /\ exec \in {"none", "hooks", "polling", "running", "calling"} \cup Ended
    /\ phase \in 0 .. COMPLETE
    /\ registered \subseteq Component
    /\ {due, plan, attempted} \subseteq SUBSET registered
    /\ pending \subseteq Members(plan, phase)
    /\ drained \in {"no", "empty", "gaveUp"}
    /\ active \subseteq Request
    /\ tracked \subseteq {OwnerOf[r] : r \in Request}

ShutdownInit ==
    /\ down = [d \in DownCaller |-> "idle"]
    /\ exec = "none" /\ phase = 0
    /\ registered = {} /\ due = {} /\ plan = {}
    /\ pending = {} /\ attempted = {} /\ drained = "no"
    /\ active = {} /\ tracked = {}

\* _topological_sort() looks at dependencies of the same phase only.
Cyclic(C) == \E S \in (SUBSET C) \ {{}} : \A c \in S : DependsOn[c] \cap S # {}

-----------------------------------------------------------------------------
(* track_request_lifetime *)

\* References to the same object are equal: the set holds one of them ...
RequestBegins(r) ==
    /\ r \notin active /\ exec # "exited"
    /\ active' = active \cup {r}
    /\ tracked' = tracked \cup {OwnerOf[r]}
    /\ UNCHANGED <<down, exec, phase, compVars, pending, attempted, drained>>

\* Mutant: the reference of a request that fails is not removed.
RequestFailsTracked(r) ==
    /\ r \in active /\ exec # "exited"
    /\ active' = active \ {r}
    /\ tracked' \in {tracked, tracked \ {OwnerOf[r]}}
    /\ UNCHANGED <<down, exec, phase, compVars, pending, attempted, drained>>

\* ... and the first request that ends removes it.
RequestEnds(r) ==
    /\ r \in active /\ exec # "exited"
    /\ active' = active \ {r}
    /\ tracked' = tracked \ {OwnerOf[r]}
    /\ UNCHANGED <<down, exec, phase, compVars, pending, attempted, drained>>

-----------------------------------------------------------------------------
(* register_component(), shutdown() *)

\* A manager registers in its constructor, early or late.
Register(c) ==
    /\ c \notin registered /\ exec # "exited"
    /\ registered' = registered \cup {c}
    /\ UNCHANGED <<down, exec, phase, due, plan, pending, attempted, drained, reqVars>>

\* The first caller starts the execution.  Any other waits for the event, the
\* second one with the lock in its hand and the rest behind it.
CallShutdown(d) ==
    /\ down[d] = "idle" /\ exec # "exited"
    /\ IF exec = "none"
       THEN exec' = "hooks" /\ due' = registered /\ down' = [down EXCEPT ![d] = "first"]
       ELSE down' = [down EXCEPT ![d] = "waiting"] /\ UNCHANGED <<exec, due>>
    /\ UNCHANGED <<phase, registered, plan, pending, attempted, drained, reqVars>>

\* The handlers of a phase are sorted before the first is called.
BeginHandlers(C) ==
    \/ Cyclic(C) /\ exec' = "failed" /\ UNCHANGED pending
    \/ ~Cyclic(C) /\ exec' = "running" /\ pending' = C

\* The next phase that has one of C, from p on.
EnterPhase(C, p) ==
    \E q \in p .. COMPLETE :
        /\ phase' = q
        /\ \A n \in p .. q - 1 : Members(C, n) = {}
        /\ \/ q = COMPLETE /\ exec' = "complete" /\ UNCHANGED <<pending, drained>>
           \/ /\ q # COMPLETE /\ Members(C, q) # {}
              /\ \/ q # DRAIN_REQUESTS /\ BeginHandlers(Members(C, q)) /\ UNCHANGED drained
                 \/ q = DRAIN_REQUESTS /\ tracked = {} /\ BeginHandlers(Members(C, q)) /\ drained' = "empty"
                 \/ /\ q = DRAIN_REQUESTS /\ tracked # {}
                    /\ exec' = "polling" /\ UNCHANGED <<pending, drained>>

\* The errors of hooks are caught.
HooksDone ==
    /\ exec = "hooks"
    /\ plan' = registered
    /\ EnterPhase(registered, 0)
    /\ UNCHANGED <<down, registered, due, attempted, reqVars>>

\* Every 0.1 s; after 30 s or half the overall time-out it is given up.
DrainEnds ==
    /\ exec = "polling"
    /\ BeginHandlers(Members(plan, DRAIN_REQUESTS))
    /\ drained' = IF tracked = {} THEN "empty" ELSE "gaveUp"
    /\ UNCHANGED <<down, phase, compVars, attempted, reqVars>>

CallHandler(c) ==
    /\ exec = "running" /\ c \in pending
    /\ DependsOn[c] \cap pending = {}
    /\ exec' = "calling"
    /\ pending' = pending \ {c} /\ attempted' = attempted \cup {c}
    /\ UNCHANGED <<down, phase, compVars, drained, reqVars>>

\* Mutant: a handler that fails or times out ends its phase.
HandlerEndsPhase ==
    /\ exec = "calling"
    /\ \/ pending # {} /\ exec' = "running" /\ UNCHANGED <<phase, pending, drained>>
       \/ EnterPhase(plan, phase + 1)
    /\ UNCHANGED <<down, compVars, attempted, reqVars>>

\* It has returned, raised, or been cancelled after the component's time-out.
HandlerEnds ==
    /\ exec = "calling"
    /\ \/ pending # {} /\ exec' = "running" /\ UNCHANGED <<phase, pending, drained>>
       \/ pending = {} /\ EnterPhase(plan, phase + 1)
    /\ UNCHANGED <<down, compVars, attempted, reqVars>>

\* asyncio.wait_for(_execute_shutdown(), self.timeout).
OverallTimeout ==
    /\ exec \in {"hooks", "polling", "calling"}
    /\ exec' = "timedOut"
    /\ UNCHANGED <<down, phase, compVars, pending, attempted, drained, reqVars>>

\* Mutant: the event is set only by a shutdown that has completed.
ReturnsIfComplete(d) ==
    /\ down[d] \in {"first", "waiting"} /\ exec = "complete"
    /\ down' = [down EXCEPT ![d] = "done"]
    /\ UNCHANGED <<exec, phase, compVars, pending, attempted, drained, reqVars>>

\* A waiter returns whatever has happened; to the first caller a cycle is a
\* SystemError, and the overall time-out the end of the process.
Returns(d) ==
    /\ exec \in Ended \ {"exited"}
    /\ \/ down[d] = "waiting" /\ down' = [down EXCEPT ![d] = "done"] /\ UNCHANGED exec
       \/ /\ down[d] = "first"
          /\ \/ exec = "complete" /\ down' = [down EXCEPT ![d] = "done"] /\ UNCHANGED exec
             \/ exec = "failed" /\ down' = [down EXCEPT ![d] = "failed"] /\ UNCHANGED exec
             \/ exec = "timedOut" /\ exec' = "exited" /\ UNCHANGED down
    /\ UNCHANGED <<phase, compVars, pending, attempted, drained, reqVars>>

ExecStep == HooksDone \/ DrainEnds \/ (\E c \in Component : CallHandler(c)) \/ HandlerEnds

ShutdownNext ==
    \/ \E c \in Component : Register(c)
    \/ \E r \in Request : RequestBegins(r) \/ RequestEnds(r)
    \/ \E d \in DownCaller : CallShutdown(d) \/ Returns(d)
    \/ ExecStep \/ OverallTimeout

\* Hooks return, and a handler is cancelled after its time-out.
ShutdownFairness == WF_downVars(ExecStep) /\ \A d \in DownCaller : WF_downVars(Returns(d))

ShutdownSpec == ShutdownInit /\ [][ShutdownNext]_downVars /\ ShutdownFairness

-----------------------------------------------------------------------------
\* No handler is called before all those of the earlier phases have been.
PhasesInOrder ==
    \A c \in attempted : \A e \in plan : PhaseOf[e] < PhaseOf[c] => e \in attempted

\* Nor before a dependency of its own phase.
DependenciesFirst ==
    \A c \in attempted : \A e \in DependsOn[c] \cap plan : PhaseOf[e] = PhaseOf[c] => e \in attempted

\* A tracked object has a request running: a drain never waits for a ghost.
TrackedIsActive == \A o \in tracked : \E r \in active : OwnerOf[r] = o

\* When a shutdown() that neither failed nor timed out returns, to any caller,
\* every component registered when it was called has been told, and the drain was
\* made if one of them is of its phase: it has seen no tracked object or given up.
\* (Whether it has waited for every request is DrainWaits.)
CompleteMeansAll ==
    exec = "complete" =>
        /\ due \subseteq attempted
        /\ Members(due, DRAIN_REQUESTS) # {} => drained # "no"

\* Phases and dependencies are kept, no request that has ended is waited for, and
\* who is told that a shutdown is complete can rely on it (_execute_shutdown).
ShutdownInv == PhasesInOrder /\ DependenciesFirst /\ TrackedIsActive /\ CompleteMeansAll

\* Every call of shutdown() returns, raises or ends the process.
ShutdownReturns ==
    \A d \in DownCaller : down[d] # "idle" ~> down[d] \in {"done", "failed"} \/ exec = "exited"

\* _drain_requests: "Drain active requests." (shutdown.py:352)
DrainWaits == [][drained' = "empty" /\ drained = "no" => active = {}]_downVars
=============================================================================
