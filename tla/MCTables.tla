------------------------------ MODULE MCTables ------------------------------
(***************************************************************************)
(* The two managers that keep several tables in step, for TLC: processes,  *)
(* and connections to servers.  They share no state, so a behaviour looks  *)
(* at one of them, chosen at the start, and the other stands still.        *)
(***************************************************************************)
EXTENDS ProcessTable, McpServers, TLC

\* Safety alone is checked, and nothing tells ids, callers or loops apart.  The
\* model gives ProcId and Tool, and Req and Loop, the same values: of two parts
\* of which one stands still, one permutation serves both.
Symmetry == Permutations(Tool) \cup Permutations(Loop)
ASSUME SharedValues == ProcId = Tool /\ Req = Loop

VARIABLE focus

Init == TableInit /\ McpInit /\ focus \in {"processes", "servers"}

Next ==
    \/ focus = "processes" /\ TableNext /\ UNCHANGED <<mcpVars, focus>>
    \/ focus = "servers" /\ McpNext /\ UNCHANGED <<tableVars, focus>>

Spec == Init /\ [][Next]_<<tableVars, mcpVars, focus>>
=============================================================================
