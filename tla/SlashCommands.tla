--------------------------- MODULE SlashCommands ---------------------------
(***************************************************************************)
(* Slash commands: the registry of commands and aliases                    *)
(* (slash_commands/registry.py) and the executor that runs them            *)
(* (slash_commands/executor.py).                                           *)
(*                                                                         *)
(* validate_arguments() reads a variable that only its comprehension       *)
(* binds, so it raises NameError whatever the command is: the handlers     *)
(* are never called, nothing is recorded for the rate limit, and what      *)
(* follows in execute_command() is not reached.                            *)
(***************************************************************************)
EXTENDS Naturals, Sequences, FiniteSets, SequencesExt

CONSTANTS
    Name,           \* what a command or an alias may be called
    Category,
    Nothing,        \* no command
    CommandRun,      \* the calls of execute_command_block()
    MaxConcurrent,  \* max_concurrent_executions
    MaxHistory      \* max_history_size

ASSUME SlashAssumption == MaxConcurrent \in Nat \ {0} /\ MaxHistory \in Nat \ {0} /\ Nothing \notin Name

VARIABLES
    command,    \* _commands: the category of each command, {} for none
    alias,      \* _aliases: the command each alias stands for, or Nothing
    listed,     \* _categories: the names listed in each category
    execution,  \* where each execution is, and whether it is a dry run
    runStatus,     \* the status in its result
    active,     \* _active_executions
    history,    \* _execution_history
    trimmed     \* history: executions dropped from _execution_history

slashVars == <<command, alias, listed, execution, runStatus, active, history, trimmed>>
registryVars == <<command, alias, listed>>

RunStatuses == {"pending", "running", "completed", "failed", "cancelled"}
RunPcs == {"idle", "admitted", "running", "ending", "announcing", "returned", "refused"}

SlashTypeOK ==
    /\ command \in [Name -> SUBSET Category] /\ alias \in [Name -> Name \cup {Nothing}]
    /\ listed \in [Category -> SUBSET Name]
    /\ execution \in [CommandRun -> [pc : RunPcs, dry : BOOLEAN]]
    /\ runStatus \in [CommandRun -> RunStatuses]
    /\ active \subseteq CommandRun /\ history \in Seq(CommandRun) /\ trimmed \subseteq CommandRun

SlashInit ==
    /\ command = [n \in Name |-> {}] /\ alias = [n \in Name |-> Nothing] /\ listed = [c \in Category |-> {}]
    /\ execution = [e \in CommandRun |-> [pc |-> "idle", dry |-> FALSE]]
    /\ runStatus = [e \in CommandRun |-> "pending"]
    /\ active = {} /\ history = <<>> /\ trimmed = {}

-----------------------------------------------------------------------------
(* The registry *)

\* A name that is an alias is accepted.
RegisterCommand(n, c) ==
    /\ command[n] = {}
    /\ command' = [command EXCEPT ![n] = {c}] /\ listed' = [listed EXCEPT ![c] = @ \cup {n}]
    /\ UNCHANGED <<alias, execution, runStatus, active, history, trimmed>>

\* Mutant: the aliases of the command stay.
UnregisterAlone(n) ==
    /\ command[n] # {}
    /\ listed' = [c \in Category |-> IF c \in command[n] THEN listed[c] \ {n} ELSE listed[c]]
    /\ command' = [command EXCEPT ![n] = {}]
    /\ UNCHANGED <<alias, execution, runStatus, active, history, trimmed>>

UnregisterCommand(n) ==
    /\ command[n] # {}
    /\ listed' = [c \in Category |-> IF c \in command[n] THEN listed[c] \ {n} ELSE listed[c]]
    /\ command' = [command EXCEPT ![n] = {}]
    /\ alias' = [a \in Name |-> IF alias[a] = n THEN Nothing ELSE alias[a]]
    /\ UNCHANGED <<execution, runStatus, active, history, trimmed>>

AddAlias(a, n) ==
    /\ command[n] # {} /\ command[a] = {} /\ alias[a] = Nothing
    /\ alias' = [alias EXCEPT ![a] = n]
    /\ UNCHANGED <<command, listed, execution, runStatus, active, history, trimmed>>

RemoveAlias(a) ==
    /\ alias[a] # Nothing /\ alias' = [alias EXCEPT ![a] = Nothing]
    /\ UNCHANGED <<command, listed, execution, runStatus, active, history, trimmed>>

\* get_command(): the command of that name, or of that alias.
Resolved(n) == IF command[n] # {} THEN n ELSE alias[n]

-----------------------------------------------------------------------------
(* The executor *)

MoveTo(e, pc) == execution' = [execution EXCEPT ![e].pc = pc]
SetRunStatus(e, s) == runStatus' = [runStatus EXCEPT ![e] = s]

\* One too many fails at once, and leaves no trace.
Admit(e, dry) ==
    /\ execution[e].pc = "idle"
    /\ LET room == Cardinality(active) < MaxConcurrent
       IN /\ execution' = [execution EXCEPT ![e] = [pc |-> IF room THEN "admitted" ELSE "refused", dry |-> dry]]
          /\ active' = IF room THEN active \cup {e} ELSE active
          /\ runStatus' = IF room THEN runStatus ELSE [runStatus EXCEPT ![e] = "failed"]
    /\ UNCHANGED <<registryVars, history, trimmed>>

\* The hooks before it have run.
StartRunning(e) ==
    /\ execution[e].pc = "admitted" /\ MoveTo(e, "running") /\ SetRunStatus(e, "running")
    /\ UNCHANGED <<registryVars, active, history, trimmed>>

\* A dry run succeeds; any other is refused for its name, its permissions or
\* its rate, or fails as said above.  The hooks after it run for a dry run only.
Run(e) ==
    /\ execution[e].pc = "running" /\ MoveTo(e, "ending")
    /\ SetRunStatus(e, IF execution[e].dry THEN "completed" ELSE "failed")
    /\ UNCHANGED <<registryVars, active, history, trimmed>>

\* Its task is cancelled in a hook, or where it runs: the status stays.
CancelTask(e) ==
    /\ execution[e].pc \in {"admitted", "running"} /\ MoveTo(e, "ending")
    /\ UNCHANGED <<registryVars, runStatus, active, history, trimmed>>

\* finally: it gives its place back and goes into the history, which keeps
\* the last ones.
Record(e) ==
    /\ execution[e].pc = "ending" /\ MoveTo(e, "announcing")
    /\ active' = active \ {e}
    /\ LET all == Append(history, e)
           excess == IF Len(all) > MaxHistory THEN Len(all) - MaxHistory ELSE 0
       IN /\ history' = SubSeq(all, excess + 1, Len(all))
          /\ trimmed' = trimmed \cup {all[i] : i \in 1 .. excess}
    /\ UNCHANGED <<registryVars, runStatus>>

Announced(e) ==
    /\ execution[e].pc = "announcing" /\ MoveTo(e, "returned")
    /\ UNCHANGED <<registryVars, runStatus, active, history, trimmed>>

\* cancel_execution() says it did it; the execution goes on.
CancelExecution(e) ==
    /\ e \in active /\ SetRunStatus(e, "cancelled")
    /\ UNCHANGED <<registryVars, execution, active, history, trimmed>>

CommandExecutes(e) == StartRunning(e) \/ Run(e) \/ Record(e) \/ Announced(e)

SlashNext ==
    \/ \E n \in Name : UnregisterCommand(n) \/ RemoveAlias(n) \/ \E c \in Category : RegisterCommand(n, c)
    \/ \E a, n \in Name : AddAlias(a, n)
    \/ \E e \in CommandRun : CommandExecutes(e) \/ CancelTask(e) \/ CancelExecution(e)
    \/ \E e \in CommandRun, dry \in BOOLEAN : Admit(e, dry)

-----------------------------------------------------------------------------
\* Whatever is registered, aliased and removed in whatever order, a name found
\* stands for a command that is there, and a command is listed in its category
\* and in no other.  No more run than may, each has its place from its
\* admission to its end whichever way it ends, and each that ended is in the
\* history, once, or was dropped for later ones.
SlashInv ==
    /\ \A n \in Name : Resolved(n) # Nothing => command[Resolved(n)] # {}
    /\ \A n \in Name, c \in Category : n \in listed[c] <=> c \in command[n]
    /\ Cardinality(active) <= MaxConcurrent
    /\ active = {e \in CommandRun : execution[e].pc \in {"admitted", "running", "ending"}}
    /\ ToSet(history) \cap trimmed = {} /\ IsInjective(history) /\ Len(history) <= MaxHistory
    /\ ToSet(history) \cup trimmed = {e \in CommandRun : execution[e].pc \in {"announcing", "returned"}}

\* A name is a command or an alias, not both.  The code does not keep it: an
\* alias may be registered as a command, and stands for it from then on.
NameIsOne == \A n \in Name : command[n] = {} \/ alias[n] = Nothing

\* An execution that was cancelled stays so.  The code does not keep it.
CancelStands == [][\A e \in CommandRun : runStatus[e] = "cancelled" => runStatus'[e] = "cancelled"]_slashVars
=============================================================================
