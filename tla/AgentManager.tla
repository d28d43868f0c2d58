---------------------------- MODULE AgentManager ----------------------------
(***************************************************************************)
(* The agent manager (managers/agent.py, models/agent.py): which agent a   *)
(* task goes to, what its status is in memory and in the table, and the    *)
(* messages between agents.                                                *)
(*                                                                         *)
(* The statements of all callers go through one database thread in order,  *)
(* so a row changes here when its statement is issued, unless that fails;  *)
(* waiting for it is the step that comes after.  AgentExecution cannot be  *)
(* built without an id and assign_task() gives none, so no execution       *)
(* exists and what works on executions is never reached.                   *)
(***************************************************************************)
EXTENDS Naturals, Sequences, SequencesExt

CONSTANTS
    Agent, Capability,
    Skills,         \* the capabilities of each agent
    AgentCaller,    \* the tool calls of the server
    Nobody,         \* no agent, no caller
    Message         \* the messages agents send

ASSUME AgentAssumption == Skills \in [Agent -> SUBSET Capability] /\ Nobody \notin Agent \cup AgentCaller

VARIABLES
    agentStatus,     \* AgentStatus of each agent, "absent" before it is registered
    agentRow,        \* the status in table agents
    agentLock,       \* who holds _assignment_lock
    assigner,   \* what each caller of assign_task() is doing
    assigned,   \* the agents that a task was assigned to
    manager,    \* how far the manager is: it has failed when its stop raised
    queue,      \* _message_queue
    handling,   \* the message _process_messages() works on, and how far it is
    mail        \* what became of each message

agentVars == <<agentStatus, agentRow, agentLock, assigner, assigned, manager, queue, handling, mail>>
AgentStatuses == {"absent", "available", "busy", "offline"}
Kinds == {"request", "other"}     \* responses, notifications and reviews all end alike
AgentResting == [pc |-> "idle", needs |-> {}, agent |-> Nobody]
NoMail == [message |-> Nobody, kind |-> "other", step |-> "none"]

AgentTypeOK ==
    /\ agentStatus \in [Agent -> AgentStatuses] /\ agentRow \in [Agent -> AgentStatuses]
    /\ agentLock \in AgentCaller \cup {Nobody} /\ assigned \subseteq Agent
    /\ assigner \in [AgentCaller -> [pc : {"idle", "waiting", "saving"}, needs : SUBSET Capability, agent : Agent \cup {Nobody}]]
    /\ manager \in {"starting", "running", "stopping", "stopped", "failed"}
    /\ queue \in Seq([message : Message, kind : Kinds])
    /\ handling \in {NoMail} \cup [message : Message, kind : Kinds, step : {"taken", "marking"}]
    /\ mail \in [Message -> {"unsent", "saving", "saved", "processed", "failed"}]

AgentInit ==
    /\ agentStatus = [a \in Agent |-> "absent"] /\ agentRow = agentStatus
    /\ agentLock = Nobody /\ assigner = [c \in AgentCaller |-> AgentResting] /\ assigned = {}
    /\ manager = "starting"
    /\ queue = <<>> /\ handling = NoMail /\ mail = [m \in Message |-> "unsent"]

mailVars == <<queue, handling, mail>>

\* _save_agent(): the row is replaced, or the statement raises.
SetAgentStatus(a, s) == agentStatus' = [agentStatus EXCEPT ![a] = s] /\ agentRow' = [agentRow EXCEPT ![a] = s]
SetUnsaved(a, s) == agentStatus' = [agentStatus EXCEPT ![a] = s] /\ UNCHANGED agentRow

\* initialize() registers the agents one by one, each saved before it is in the
\* registry, and nothing is assigned before it has ended; _process_messages() runs from then on.
RegisterAgent(a) ==
    /\ manager = "starting" /\ agentStatus[a] = "absent"
    /\ SetAgentStatus(a, "available")
    /\ UNCHANGED <<agentLock, assigner, assigned, manager, mailVars>>

Started ==
    /\ manager = "starting" /\ \A a \in Agent : agentStatus[a] = "available"
    /\ manager' = "running"
    /\ UNCHANGED <<agentStatus, agentRow, agentLock, assigner, assigned, mailVars>>

-----------------------------------------------------------------------------
(* assign_task() *)

AskFor(c, needs) ==
    /\ manager # "starting" /\ assigner[c].pc = "idle"
    /\ assigner' = [assigner EXCEPT ![c] = [pc |-> "waiting", needs |-> needs, agent |-> Nobody]]
    /\ UNCHANGED <<agentStatus, agentRow, agentLock, assigned, manager, mailVars>>

Candidates(needs) == {a \in Agent : agentStatus[a] = "available" /\ needs \subseteq Skills[a]}

\* Mutant: agents of any status are candidates.
AssignAnyone(c) ==
    /\ assigner[c].pc = "waiting" /\ agentLock = Nobody
    /\ \/ \A a \in Agent : ~ assigner[c].needs \subseteq Skills[a] /\ assigner' = [assigner EXCEPT ![c] = AgentResting]
          /\ UNCHANGED <<agentStatus, agentRow, agentLock, assigned>>
       \/ \E a \in Agent :
            /\ assigner[c].needs \subseteq Skills[a]
            /\ SetAgentStatus(a, "busy") /\ assigned' = assigned \cup {a}
            /\ agentLock' = c
            /\ assigner' = [assigner EXCEPT ![c].pc = "saving", ![c].agent = a]
    /\ UNCHANGED <<manager, mailVars>>

\* The best of the candidates; the scores are left open.  With no capability
\* required the confidence is a division by zero, which raises.
Assign(c) ==
    /\ assigner[c].pc = "waiting" /\ agentLock = Nobody
    /\ \/ /\ assigner[c].needs = {} \/ Candidates(assigner[c].needs) = {}
          /\ assigner' = [assigner EXCEPT ![c] = AgentResting]
          /\ UNCHANGED <<agentStatus, agentRow, agentLock, assigned>>
       \/ \E a \in Candidates(assigner[c].needs) :
            /\ assigner[c].needs # {}
            /\ SetAgentStatus(a, "busy") \/ SetUnsaved(a, "busy")
            /\ agentLock' = c /\ assigned' = assigned \cup {a}
            /\ assigner' = [assigner EXCEPT ![c].pc = "saving", ![c].agent = a]
    /\ UNCHANGED <<manager, mailVars>>

\* Mutant: the lock is not taken with `async with`.
AssignRaisesLocked(c) ==
    /\ assigner[c].pc = "saving"
    /\ assigner' = [assigner EXCEPT ![c] = AgentResting]
    /\ UNCHANGED <<agentStatus, agentRow, agentLock, assigned, manager, mailVars>>

\* The agent is saved and building the execution raises TypeError, or the save
\* raised before: the lock is released with the agent busy.
AssignRaises(c) ==
    /\ assigner[c].pc = "saving"
    /\ agentLock' = Nobody /\ assigner' = [assigner EXCEPT ![c] = AgentResting]
    /\ UNCHANGED <<agentStatus, agentRow, assigned, manager, mailVars>>

-----------------------------------------------------------------------------
(* stop(): the background tasks are cancelled, then every agent goes offline, *)
(* one save after the other; one that raises is the end of the stop.          *)

StopAgents ==
    /\ manager = "running" /\ manager' = "stopping"
    /\ handling' = NoMail
    /\ mail' = IF handling = NoMail THEN mail ELSE [mail EXCEPT ![handling.message] = "failed"]
    /\ UNCHANGED <<agentStatus, agentRow, agentLock, assigner, assigned, queue>>

TakeOffline(a) ==
    /\ manager = "stopping" /\ agentStatus[a] # "offline"
    /\ \/ SetAgentStatus(a, "offline") /\ UNCHANGED manager
       \/ SetUnsaved(a, "offline") /\ manager' = "failed"
    /\ UNCHANGED <<agentLock, assigner, assigned, mailVars>>

Stopped ==
    /\ manager = "stopping" /\ \A a \in Agent : agentStatus[a] = "offline"
    /\ manager' = "stopped"
    /\ UNCHANGED <<agentStatus, agentRow, agentLock, assigner, assigned, mailVars>>

-----------------------------------------------------------------------------
(* Messages *)

\* send_message(): the message is saved, or that raises in the sender ...
SendMessage(m) ==
    /\ manager # "starting" /\ mail[m] = "unsent"
    /\ mail' = [mail EXCEPT ![m] = "saving"]
    /\ UNCHANGED <<agentStatus, agentRow, agentLock, assigner, assigned, manager, queue, handling>>

MessageUnsaved(m) ==
    /\ mail[m] = "saving"
    /\ mail' = [mail EXCEPT ![m] = "unsent"]
    /\ UNCHANGED <<agentStatus, agentRow, agentLock, assigner, assigned, manager, queue, handling>>

\* ... then queued, behind those saved later whose save ended earlier.
QueueMessage(m, kind) ==
    /\ mail[m] = "saving"
    /\ mail' = [mail EXCEPT ![m] = "saved"]
    /\ queue' = Append(queue, [message |-> m, kind |-> kind])
    /\ UNCHANGED <<agentStatus, agentRow, agentLock, assigner, assigned, manager, handling>>

\* _process_messages() takes one; a request to all raises TypeError for the
\* first agent that is available, and is not marked.
TakeMessage ==
    /\ manager = "running" /\ handling = NoMail /\ queue # <<>>
    /\ handling' = [message |-> Head(queue).message, kind |-> Head(queue).kind, step |-> "taken"]
    /\ queue' = Tail(queue)
    /\ UNCHANGED <<agentStatus, agentRow, agentLock, assigner, assigned, manager, mail>>

HandleAgentMessage ==
    /\ manager = "running" /\ handling.step = "taken"
    /\ LET m == handling.message
           raises == handling.kind = "request" /\ \E a \in Agent : agentStatus[a] = "available"
       IN \/ raises /\ handling' = NoMail /\ mail' = [mail EXCEPT ![m] = "failed"]
          \/ handling' = [handling EXCEPT !.step = "marking"] /\ UNCHANGED mail    \* to one agent, or handled
    /\ UNCHANGED <<agentStatus, agentRow, agentLock, assigner, assigned, manager, queue>>

MarkProcessed ==
    /\ manager = "running" /\ handling.step = "marking"
    /\ mail' = [mail EXCEPT ![handling.message] = "processed"] /\ handling' = NoMail
    /\ UNCHANGED <<agentStatus, agentRow, agentLock, assigner, assigned, manager, queue>>

Processes == TakeMessage \/ HandleAgentMessage \/ MarkProcessed
Assigns(c) == Assign(c) \/ AssignRaises(c)
Stops == Stopped \/ \E a \in Agent : TakeOffline(a)

AgentNext ==
    \/ \E a \in Agent : RegisterAgent(a)
    \/ \E c \in AgentCaller : Assigns(c) \/ \E needs \in SUBSET Capability : AskFor(c, needs)
    \/ \E m \in Message : SendMessage(m) \/ MessageUnsaved(m) \/ \E kind \in Kinds : QueueMessage(m, kind)
    \/ Started \/ StopAgents \/ Stops \/ Processes

\* Statements end, and asyncio.Lock serves its waiters in turn (hence SF).
AgentFairness ==
    /\ \A c \in AgentCaller : SF_agentVars(Assigns(c))
    /\ WF_agentVars(Stops) /\ WF_agentVars(Processes)

AgentSpec == AgentInit /\ [][AgentNext]_agentVars

-----------------------------------------------------------------------------
Queued(m) == \E i \in DOMAIN queue : queue[i].message = m

\* A task goes to an agent no other task has gone to and that can do it.  Table
\* and memory differ only where the save of an assignment failed: there the
\* table calls an agent available that gets no task.  A stop that ends while
\* tasks are assigned leaves every agent offline in both, also those.  A
\* message is in the queue, in the hands of the loop, or done with, never in
\* two of these.
AgentInv ==
    /\ AgentTypeOK
    /\ \A c, d \in AgentCaller : c # d /\ assigner[c].agent # Nobody => assigner[c].agent # assigner[d].agent
    /\ \A c \in AgentCaller : assigner[c].pc = "saving" => agentLock = c /\ assigner[c].needs \subseteq Skills[assigner[c].agent]
    /\ \A a \in Agent : agentStatus[a] = "busy" => a \in assigned
    /\ \A a \in Agent : agentRow[a] = agentStatus[a] \/ (agentRow[a] = "available" /\ agentStatus[a] = "busy") \/ manager = "failed"
    /\ manager = "stopped" => \A a \in Agent : agentStatus[a] = "offline" /\ agentRow[a] = "offline"
    /\ \A m \in Message :
        mail[m] = "saved" <=> Queued(m) \/ (handling # NoMail /\ handling.message = m)
    /\ \A i, j \in DOMAIN queue : queue[i].message = queue[j].message => i = j

AssignReturns == \A c \in AgentCaller : assigner[c].pc = "waiting" ~> assigner[c].pc = "idle"
MessagesTaken == \A m \in Message : mail[m] = "saved" ~> mail[m] # "saved" \/ manager # "running"

\* Every call of assign_task() returns or raises, and every message of a
\* manager that is not stopped is taken from the queue and done with, whether
\* its handling raises or not (assign_task, _process_messages).
AgentCallsReturn == AssignReturns /\ MessagesTaken

\* A busy agent has an execution under way.  The code does not keep it.
BusyIsExecuting == \A a \in Agent : agentStatus[a] = "busy" => \E c \in AgentCaller : assigner[c].agent = a
=============================================================================
