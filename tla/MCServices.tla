----------------------------- MODULE MCServices -----------------------------
(***************************************************************************)
(* The services that must answer, for TLC: hooks, agents, and requests     *)
(* over a transport.  They share no state, so a behaviour looks at one of  *)
(* them, chosen at the start, and the others stand still.  Of the agents   *)
(* it looks at the tasks or at the messages.                               *)
(***************************************************************************)
EXTENDS HookEngine, AgentManager, Transport, TLC

CONSTANTS h1, h2, a1, a2, p, q

\* One hook runs as a task, is tried again and has limits; the actions of the
\* other may never end.
AsyncHooks == {h1}
Priorities == (h1 :> 1) @@ (h2 :> 0)
RetryCounts == (h1 :> 1) @@ (h2 :> 0)
RateLimits == (h1 :> 1) @@ (h2 :> 0)
CoolingHooks == {h1}
BoundedHooks == {h1}

\* One agent can what the other can, and more.
SkillsOf == (a1 :> {p}) @@ (a2 :> {p, q})

VARIABLE focus

Init ==
    /\ HookInit /\ AgentInit /\ TransportInit
    /\ focus \in {"hooks", "tasks", "messages", "transport"}
    /\ focus # "transport" => reader = "absent"

Next ==
    /\ UNCHANGED focus
    /\ \/ focus = "hooks" /\ HookNext /\ UNCHANGED <<agentVars, transportVars>>
       \/ focus = "tasks" /\ AgentNext /\ UNCHANGED <<mailVars, hookVars, transportVars>>
       \/ focus = "messages" /\ AgentNext /\ UNCHANGED <<assigner, hookVars, transportVars>>
       \/ focus = "transport" /\ TransportNext /\ UNCHANGED <<hookVars, agentVars>>

\* Nothing that the services are fair to can happen in their initial states,
\* where they stay unless a behaviour looks at them.
Spec ==
    /\ Init /\ [][Next]_<<hookVars, agentVars, transportVars, focus>>
    /\ HookFairness /\ AgentFairness /\ TransportFairness
=============================================================================
