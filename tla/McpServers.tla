----------------------------- MODULE McpServers -----------------------------
(***************************************************************************)
(* The MCP server manager (managers/mcp_server.py) with the table of       *)
(* transports it keeps (transport/manager.py): which servers are known,    *)
(* what connection each has, and who is adding, removing, connecting or    *)
(* disconnecting them at the same time, the health checks included.        *)
(*                                                                         *)
(* Servers are reached over SSE or HTTP: the constructor of the transport  *)
(* of a local process raises.  A transport is "up" from the end of its     *)
(* connect() and "down" when its stream has given up.  Each connection has *)
(* a lock of its own, which add_server() makes and remove_server() drops:  *)
(* a task keeps using the one it has looked up, told apart by a number.    *)
(* Table mcp_servers is left out, and so are the requests of the users.    *)
(***************************************************************************)
EXTENDS Naturals, FiniteSets

CONSTANTS
    Server,
    Tool,           \* the calls of the users of the manager
    Loop,           \* bound: the health check loops that run at a time
    RetryCount,     \* retry_count: failed pings before a reconnection
    MaxLocks        \* bound: the locks made for a server

ASSUME McpAssumption == Server # {} /\ RetryCount \in Nat \ {0} /\ MaxLocks \in Nat /\ Tool \cap Loop = {}

Task == Tool \cup Loop

VARIABLES
    configured,      \* the keys of _servers
    conn,       \* _connections: the state of each connection, or "none"
    maker,      \* the connect_server() that made the connection
    errors,     \* its error_count
    transport,  \* _transport_manager._transports
    mcpLock,       \* the number of the current lock of each server, 0 for none
    made,       \* the locks made so far
    checker,    \* _health_check_tasks: the loop registered for each server, if any
    op          \* what each task is doing

mcpVars == <<configured, conn, maker, errors, transport, mcpLock, made, checker, op>>

IdleCall == [pc |-> "idle", server |-> CHOOSE s \in Server : TRUE, lock |-> 0, remove |-> FALSE]
CallPcs == {"idle", "adding", "disconnecting", "closing", "closed", "connecting", "dialing", "logging", "deleting",
        "sleeping", "pinging", "resting", "cancelled"}

Inside == {"closing", "closed", "dialing", "logging"}     \* holding the lock

McpTypeOK ==
    /\ configured \subseteq Server
    /\ conn \in [Server -> {"none", "connecting", "connected", "error"}]
    /\ maker \in [Server -> SUBSET Task]
    /\ errors \in [Server -> 0 .. RetryCount]
    /\ transport \in [Server -> {"none", "made", "up", "down"}]
    /\ mcpLock \in [Server -> 0 .. MaxLocks] /\ made \in [Server -> 0 .. MaxLocks]
    /\ checker \in [Server -> SUBSET Loop]
    /\ op \in [Task -> [pc : CallPcs, server : Server, lock : 0 .. MaxLocks, remove : BOOLEAN]]

McpInit ==
    /\ configured = {}
    /\ conn = [s \in Server |-> "none"] /\ maker = [s \in Server |-> {}] /\ errors = [s \in Server |-> 0]
    /\ transport = [s \in Server |-> "none"]
    /\ mcpLock = [s \in Server |-> 0] /\ made = mcpLock
    /\ checker = [s \in Server |-> {}]
    /\ op = [t \in Task |-> IdleCall]

Unlocked(s, n) == \A t \in Task : ~(op[t].server = s /\ op[t].lock = n /\ op[t].pc \in Inside)
Goes(t, pc) == op' = [op EXCEPT ![t].pc = pc]
Counted(n) == IF n < RetryCount THEN n + 1 ELSE n       \* past RetryCount it makes no difference

\* Where a task goes on when a call it has made returns or raises: a loop goes
\* on, a tool call has ended.
After(t) == IF t \in Loop THEN [op[t] EXCEPT !.pc = "sleeping", !.lock = 0] ELSE IdleCall

-----------------------------------------------------------------------------
(* add_server() and remove_server() *)

\* The checks, then the insertion is awaited, then the tables are filled.
AddServer(t, s) ==
    /\ op[t].pc = "idle" /\ t \in Tool /\ s \notin configured
    /\ made[s] + Cardinality({u \in Tool : op[u].pc = "adding" /\ op[u].server = s}) < MaxLocks
    /\ op' = [op EXCEPT ![t] = [IdleCall EXCEPT !.pc = "adding", !.server = s]]
    /\ UNCHANGED <<configured, conn, maker, errors, transport, mcpLock, made, checker>>

AddEnds(t) ==
    /\ op[t].pc = "adding"
    /\ LET s == op[t].server
       IN /\ made' = [made EXCEPT ![s] = @ + 1] /\ mcpLock' = [mcpLock EXCEPT ![s] = made'[s]]
          /\ configured' = configured \cup {s}
    /\ op' = [op EXCEPT ![t] = IdleCall]
    /\ UNCHANGED <<conn, maker, errors, transport, checker>>

\* A connected server is disconnected first, then the row is deleted.
RemoveServer(t, s) ==
    /\ op[t].pc = "idle" /\ t \in Tool /\ s \in configured
    /\ op' = [op EXCEPT ![t] = [pc |-> IF conn[s] = "none" THEN "deleting" ELSE "disconnecting",
                                server |-> s, lock |-> mcpLock[s], remove |-> TRUE]]
    /\ UNCHANGED <<configured, conn, maker, errors, transport, mcpLock, made, checker>>

\* cancel() reaches a loop at its next await; asleep, it ends.
Cancelled(ls) == [t \in Task |-> IF t \in ls /\ op[t].pc # "idle" THEN [op[t] EXCEPT !.pc = "cancelled"] ELSE op[t]]

\* The tables are cleaned; it raises KeyError when another call has done so.
RemoveEnds(t) ==
    /\ op[t].pc = "deleting"
    /\ LET s == op[t].server
       IN IF s \in configured
            THEN /\ configured' = configured \ {s} /\ mcpLock' = [mcpLock EXCEPT ![s] = 0]
                 /\ checker' = [checker EXCEPT ![s] = {}]
                 /\ op' = [Cancelled(checker[s]) EXCEPT ![t] = IdleCall]
            ELSE op' = [op EXCEPT ![t] = IdleCall] /\ UNCHANGED <<configured, mcpLock, checker>>
    /\ UNCHANGED <<conn, maker, errors, transport, made>>

-----------------------------------------------------------------------------
(* disconnect_server() *)

CallDisconnect(t, s) ==
    /\ op[t].pc = "idle" /\ t \in Tool /\ conn[s] # "none"
    /\ op' = [op EXCEPT ![t] = [pc |-> "disconnecting", server |-> s, lock |-> mcpLock[s], remove |-> FALSE]]
    /\ UNCHANGED <<configured, conn, maker, errors, transport, mcpLock, made, checker>>

\* With the lock, which is nobody else's when the server has none.  The
\* connection may be gone by then: KeyError.  The check loop is cancelled, and
\* when it is the caller, the cancellation reaches it in what it awaits next:
\* the task of a stream that is up swallows it, else the call ends there, with
\* the connection in the table, and its transport removed unless closing the
\* session has to wait.
DisconnectBegins(t) ==
    LET s == op[t].server
    IN /\ op[t].pc = "disconnecting" /\ (op[t].lock = 0 \/ Unlocked(s, op[t].lock))
       /\ IF conn[s] = "none"
            THEN op' = [op EXCEPT ![t] = After(t)] /\ UNCHANGED <<checker, transport>>
            ELSE /\ checker' = [checker EXCEPT ![s] = {}]
                 /\ IF t \in checker[s] /\ transport[s] # "up"
                      THEN /\ \E left \in {"none", transport[s]} : transport' = [transport EXCEPT ![s] = left]
                           /\ op' = [op EXCEPT ![t] = IdleCall]
                      ELSE /\ op' = [Cancelled(checker[s] \ {t}) EXCEPT ![t].pc = "closing"]
                           /\ UNCHANGED transport
       /\ UNCHANGED <<configured, conn, maker, errors, mcpLock, made>>

\* The transport is closed and removed; one that cannot be closed stays ...
TransportRemoved(t) ==
    /\ op[t].pc = "closing"
    /\ \E left \in {"none"} \cup (IF transport[op[t].server] = "none" THEN {} ELSE {"down"}) :
        transport' = [transport EXCEPT ![op[t].server] = left]
    /\ Goes(t, "closed")
    /\ UNCHANGED <<configured, conn, maker, errors, mcpLock, made, checker>>

\* ... the end is logged, and the connection forgotten; the rest of the call
\* that asked for it follows.
Disconnected(t) ==
    /\ op[t].pc = "closed"
    /\ conn' = [conn EXCEPT ![op[t].server] = "none"]
    /\ op' = [op EXCEPT ![t] = IF op[t].remove THEN [@ EXCEPT !.pc = "deleting"]
                               ELSE IF t \in Loop THEN [@ EXCEPT !.pc = "resting"] ELSE IdleCall]
    /\ UNCHANGED <<configured, maker, errors, transport, mcpLock, made, checker>>

-----------------------------------------------------------------------------
(* connect_server() *)

\* The checks are made before the lock is waited for.
WantsConnection(s) == s \in configured /\ conn[s] # "connected"
CallConnect(t, s) ==
    /\ op[t].pc = "idle" /\ t \in Tool /\ WantsConnection(s)
    /\ op' = [op EXCEPT ![t] = [IdleCall EXCEPT !.pc = "connecting", !.server = s, !.lock = mcpLock[s]]]
    /\ UNCHANGED <<configured, conn, maker, errors, transport, mcpLock, made, checker>>

\* Mutant: the lock is not waited for.
ConnectUnlocked(t) ==
    LET s == op[t].server
    IN /\ op[t].pc = "connecting"
       /\ IF transport[s] # "none"
            THEN op' = [op EXCEPT ![t] = After(t)] /\ UNCHANGED <<conn, maker, transport, errors>>
            ELSE /\ transport' = [transport EXCEPT ![s] = "made"]
                 /\ conn' = [conn EXCEPT ![s] = "connecting"] /\ maker' = [maker EXCEPT ![s] = {t}]
                 /\ errors' = [errors EXCEPT ![s] = 0]
                 /\ Goes(t, "dialing")
       /\ UNCHANGED <<configured, mcpLock, made, checker>>

\* A transport of that name raises TransportError and nothing changes.
ConnectBegins(t) ==
    LET s == op[t].server
    IN /\ op[t].pc = "connecting" /\ Unlocked(s, op[t].lock)
       /\ IF transport[s] # "none"
            THEN op' = [op EXCEPT ![t] = After(t)] /\ UNCHANGED <<conn, maker, transport, errors>>
            ELSE /\ transport' = [transport EXCEPT ![s] = "made"]
                 /\ conn' = [conn EXCEPT ![s] = "connecting"] /\ maker' = [maker EXCEPT ![s] = {t}]
                 /\ errors' = [errors EXCEPT ![s] = 0]
                 /\ Goes(t, "dialing")
       /\ UNCHANGED <<configured, mcpLock, made, checker>>

\* The connection is up and a loop checks it from now on; or it has failed,
\* and the transport stays where it is.
ConnectReturns(t) ==
    LET s == op[t].server
        ours == maker[s] = {t} /\ conn[s] # "none"      \* else the table has another, or none
    IN /\ op[t].pc = "dialing"
       /\ \/ \E l \in Loop :
               /\ op[l].pc = "idle" /\ \A z \in Server : l \notin checker[z]
               /\ conn' = [conn EXCEPT ![s] = IF ours THEN "connected" ELSE @]
               /\ transport' = [transport EXCEPT ![s] = IF ours /\ @ = "made" THEN "up" ELSE @]
               /\ errors' = [errors EXCEPT ![s] = IF ours THEN 0 ELSE @]
               /\ checker' = [checker EXCEPT ![s] = {l}]
               /\ op' = [op EXCEPT ![t].pc = "logging", ![l] = [IdleCall EXCEPT !.pc = "sleeping", !.server = s]]
          \/ /\ conn' = [conn EXCEPT ![s] = IF ours THEN "error" ELSE @]
             /\ transport' = [transport EXCEPT ![s] = IF ours /\ @ = "made" THEN "down" ELSE @]
             /\ errors' = [errors EXCEPT ![s] = IF ours THEN Counted(@) ELSE @]
             /\ Goes(t, "logging") /\ UNCHANGED checker
       /\ UNCHANGED <<configured, maker, mcpLock, made>>

\* Logged and announced; the lock is released.
ConnectLogged(t) ==
    /\ op[t].pc = "logging"
    /\ op' = [op EXCEPT ![t] = After(t)]
    /\ UNCHANGED <<configured, conn, maker, errors, transport, mcpLock, made, checker>>

\* _log_connection() raises: a connection that is up counts as failed, which is
\* logged in its turn; one that failed, or was closed, stays in the table, and
\* the call is over.
LogFails(t) ==
    LET s == op[t].server
    IN /\ op[t].pc \in {"closed", "logging"}
       /\ IF op[t].pc = "logging" /\ maker[s] = {t} /\ conn[s] = "connected"
            THEN /\ conn' = [conn EXCEPT ![s] = "error"] /\ errors' = [errors EXCEPT ![s] = Counted(@)]
                 /\ UNCHANGED op
            ELSE op' = [op EXCEPT ![t] = After(t)] /\ UNCHANGED <<conn, errors>>
       /\ UNCHANGED <<configured, maker, transport, mcpLock, made, checker>>

-----------------------------------------------------------------------------
(* _health_check_loop() *)

\* It ends when it finds no connection of its server.
Ping(l) ==
    /\ op[l].pc = "sleeping"
    /\ op' = [op EXCEPT ![l] = IF conn[op[l].server] = "none" THEN IdleCall ELSE [@ EXCEPT !.pc = "pinging"]]
    /\ UNCHANGED <<configured, conn, maker, errors, transport, mcpLock, made, checker>>

\* Enough failures in a row, and the server is to be disconnected.
PingEnds(l) ==
    LET s == op[l].server
        failed == Counted(errors[s])
    IN /\ op[l].pc = "pinging"
       /\ \/ transport[s] = "up" /\ errors' = [errors EXCEPT ![s] = 0] /\ Goes(l, "sleeping")
          \/ /\ errors' = [errors EXCEPT ![s] = failed]
             /\ op' = [op EXCEPT ![l] = [@ EXCEPT !.pc = IF failed = RetryCount /\ conn[s] # "none" THEN "disconnecting"
                                                          ELSE IF failed = RetryCount THEN "resting" ELSE "sleeping",
                                                  !.lock = mcpLock[s]]]
       /\ UNCHANGED <<configured, conn, maker, transport, mcpLock, made, checker>>

\* retry_delay has passed.
Reconnect(l) ==
    LET s == op[l].server
    IN /\ op[l].pc = "resting"
       /\ op' = [op EXCEPT ![l] = [@ EXCEPT !.pc = IF WantsConnection(s) THEN "connecting" ELSE "sleeping", !.lock = mcpLock[s]]]
       /\ UNCHANGED <<configured, conn, maker, errors, transport, mcpLock, made, checker>>

\* A loop that was cancelled ends, and lets go of the lock it may hold.
LoopEnds(l) ==
    /\ op[l].pc = "cancelled" /\ op' = [op EXCEPT ![l] = IdleCall]
    /\ UNCHANGED <<configured, conn, maker, errors, transport, mcpLock, made, checker>>

\* The stream of a transport gives up.
Fails(s) ==
    /\ transport[s] = "up" /\ transport' = [transport EXCEPT ![s] = "down"]
    /\ UNCHANGED <<configured, conn, maker, errors, mcpLock, made, checker, op>>

CallSteps(t) ==
    \/ AddEnds(t) \/ RemoveEnds(t) \/ DisconnectBegins(t) \/ TransportRemoved(t) \/ Disconnected(t)
    \/ ConnectBegins(t) \/ ConnectReturns(t) \/ ConnectLogged(t) \/ LogFails(t)

McpNext ==
    \/ \E t \in Tool, s \in Server : AddServer(t, s) \/ RemoveServer(t, s) \/ CallDisconnect(t, s) \/ CallConnect(t, s)
    \/ \E t \in Task : CallSteps(t)
    \/ \E l \in Loop : Ping(l) \/ PingEnds(l) \/ Reconnect(l) \/ LoopEnds(l)
    \/ \E s \in Server : Fails(s)

McpSpec == McpInit /\ [][McpNext]_mcpVars

-----------------------------------------------------------------------------
\* Of the tasks that share a lock one at a time changes the connection.  As
\* long as a server keeps the lock it was first added with, a transport that is
\* up belongs to a connection in the table, and a connection that is being made
\* is in somebody's hands (connect_server, disconnect_server, the health loop).
McpInv ==
    /\ McpTypeOK
    /\ \A t, u \in Task :
        t # u /\ op[t].pc \in Inside /\ op[u].pc \in Inside /\ op[t].server = op[u].server
            => op[t].lock # op[u].lock \/ op[t].lock = 0
    /\ \A s \in Server : s \in configured <=> mcpLock[s] # 0
    /\ \A s \in Server : mcpLock[s] = 1 /\ made[s] = 1 =>
        /\ transport[s] = "up" => conn[s] # "none"
        /\ conn[s] = "connecting" => \E t \in Task : maker[s] = {t} /\ op[t].server = s /\ op[t].pc = "dialing"

\* A connection is of a known server.  The code does not keep it: a server is
\* removed while it is being connected.
ConnectionIsKnown == \A s \in Server : conn[s] # "none" => s \in configured

\* A connection that counts as connected has a transport, unless a task is at
\* work on it.  The code does not keep it: a loop that disconnects is cancelled
\* by its own call.
ConnectedHasTransport ==
    \A s \in Server : conn[s] = "connected" /\ (\A t \in Task : op[t].pc \notin Inside) => transport[s] # "none"

\* One loop checks a connection.  The code does not keep it: a loop that has
\* reconnected goes on beside the new one.
OneChecker == \A l, m \in Loop : op[l].pc = "sleeping" /\ op[m].pc = "sleeping" /\ op[l].server = op[m].server => l = m
=============================================================================
