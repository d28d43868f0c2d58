----------------------------- MODULE MCRuntime -----------------------------
(***************************************************************************)
(* What keeps the program in order, for TLC: the life cycle of a manager,  *)
(* the shutdown of all, and the registry of the processes.  They share no  *)
(* state, so a behaviour looks at one of the three, chosen at the start,   *)
(* and the others stand still.                                             *)
(***************************************************************************)
EXTENDS ManagerLifecycle, ShutdownManager, ProcessRegistry, TLC

CONSTANTS sessions, processes, gateway, cache, c1, c2

\* Two workers, of which one depends on the other, a component of the drain
\* phase, and one of the last phase that depends on itself.
Phases == (gateway :> 2) @@ (sessions :> 3) @@ (processes :> 3) @@ (cache :> 5)
Dependencies == (gateway :> {}) @@ (sessions :> {processes, gateway}) @@ (processes :> {}) @@ (cache :> {cache})

\* Two calls on the same manager.
Owners == [r \in {"r1", "r2"} |-> sessions]

VARIABLE focus

Init ==
    /\ LifeInit /\ ShutdownInit /\ RegInit
    /\ focus \in {"life", "shutdown", "registry"}
    /\ focus = "life" \/ watched

Next ==
    \/ focus = "life" /\ LifeNext /\ UNCHANGED <<downVars, regVars, focus>>
    \/ focus = "shutdown" /\ ShutdownNext /\ UNCHANGED <<lifeVars, regVars, focus>>
    \/ focus = "registry" /\ RegNext /\ UNCHANGED <<lifeVars, downVars, focus>>

\* What ShutdownFairness is about cannot happen while nobody calls shutdown().
Spec ==
    /\ Init /\ [][Next]_<<lifeVars, downVars, regVars, focus>>
    /\ ShutdownFairness /\ WF_regVars(focus = "registry" /\ Cleaning)

\* The types of the three modules.
TypeOK == LifeTypeOK /\ ShutdownTypeOK /\ RegTypeOK
=============================================================================
