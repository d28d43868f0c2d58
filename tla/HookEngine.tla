----------------------------- MODULE HookEngine -----------------------------
(***************************************************************************)
(* The hooks (hooks/engine.py, hooks/registry.py): the registry with its   *)
(* index of triggers and its rate limits, and the engine that runs the     *)
(* hooks of a trigger, one after the other or as tasks, with retries.      *)
(*                                                                         *)
(* No call of the registry waits, so each is one step.  trigger() goes     *)
(* through its hooks without yielding except where it awaits one: while a  *)
(* caller is "looping" nobody else moves.                                  *)
(***************************************************************************)
EXTENDS Naturals, FiniteSets

CONSTANTS
    Hook,           \* hook names
    Trigger, Custom,\* HookTrigger, and its member CUSTOM
    HookCaller,     \* coroutines that call trigger() and execute_hook()
    Execution,      \* identities of the running _execute_hook() calls
    NoExecution,           \* not an execution
    AsyncHook,      \* the hooks with async_execution
    Priority,       \* priority of each hook
    Retries,        \* retry_count of each hook
    Limit,          \* rate_limit of each hook, 0 for none
    Cools,          \* the hooks with a cooldown
    Bounded         \* the hooks whose actions surely end: with a timeout, or in the sandbox

ASSUME HookAssumption ==
    /\ Custom \in Trigger /\ AsyncHook \subseteq Hook /\ NoExecution \notin Execution
    /\ Cools \subseteq Hook /\ Bounded \subseteq Hook
    /\ Priority \in [Hook -> Nat] /\ Retries \in [Hook -> Nat] /\ Limit \in [Hook -> Nat]

VARIABLES
    hooks,      \* _hooks: the triggers of each registered hook, {} when it is not registered
    disabled,   \* the registered hooks that are disabled
    index,      \* _trigger_index
    recent,     \* how many executions of the last minute are recorded
    cooling,    \* the hooks whose cooldown since _last_execution runs
    runningHooks,    \* _running_hooks
    exec,       \* the executions
    hookCall        \* what each caller is doing

hookVars == <<hooks, disabled, index, recent, cooling, runningHooks, exec, hookCall>>

NoRun == [hook |-> NoExecution, pc |-> "none", attempt |-> 0, succeeded |-> FALSE]
Quiet == [pc |-> "idle", todo |-> {}, tasks |-> {}, on |-> NoExecution]
Yielded == \A c \in HookCaller : hookCall[c].pc # "looping"

HookTypeOK ==
    /\ hooks \in [Hook -> SUBSET Trigger] /\ disabled \subseteq Hook
    /\ index \in [Trigger -> SUBSET Hook]
    /\ recent \in [Hook -> Nat] /\ cooling \subseteq Cools /\ runningHooks \subseteq Hook
    /\ exec \in [Execution -> {NoRun} \cup [hook : Hook, pc : {"created", "acting", "sleeping"}, attempt : Nat, succeeded : BOOLEAN]]
    /\ \A x \in Execution : exec[x] # NoRun => exec[x].attempt <= Retries[exec[x].hook]
    /\ hookCall \in [HookCaller -> [pc : {"idle", "looping", "awaiting", "gathering"}, 
                              todo : SUBSET Hook, tasks : SUBSET Execution, on : Execution \cup {NoExecution}]]

HookInit ==
    /\ hooks = [h \in Hook |-> {}] /\ disabled = {}
    /\ index = [t \in Trigger |-> {}]
    /\ recent = [h \in Hook |-> 0] /\ cooling = {} /\ runningHooks = {}
    /\ exec = [x \in Execution |-> NoRun]
    /\ hookCall = [c \in HookCaller |-> Quiet]

-----------------------------------------------------------------------------
(* The registry *)

Indexed(h, triggers) == [t \in Trigger |-> IF t \in triggers THEN index[t] \cup {h} ELSE index[t] \ {h}]

\* register(), of a hook that is not there.
RegisterHook(h, triggers) ==
    /\ Yielded /\ hooks[h] = {}
    /\ hooks' = [hooks EXCEPT ![h] = triggers]
    /\ index' = [t \in Trigger |-> IF t \in triggers THEN index[t] \cup {h} ELSE index[t]]
    /\ UNCHANGED <<disabled, recent, cooling, runningHooks, exec, hookCall>>

UnregisterHook(h) ==
    /\ Yielded /\ hooks[h] # {}
    /\ hooks' = [hooks EXCEPT ![h] = {}]
    /\ index' = [t \in Trigger |-> IF t \in hooks[h] THEN index[t] \ {h} ELSE index[t]]
    /\ disabled' = disabled \ {h}
    /\ UNCHANGED <<recent, cooling, runningHooks, exec, hookCall>>

\* Mutant: the new hook is stored over the old one.
ReloadOver(h, triggers) ==
    /\ Yielded /\ hooks[h] # {} /\ triggers # hooks[h]
    /\ hooks' = [hooks EXCEPT ![h] = triggers]
    /\ index' = [t \in Trigger |-> IF t \in triggers THEN index[t] \cup {h} ELSE index[t]]
    /\ disabled' = disabled \ {h}
    /\ UNCHANGED <<recent, cooling, runningHooks, exec, hookCall>>

\* scan_directory() of a file that changed: the old hook goes first, and an
\* invalid file (triggers = {}) then registers nothing.
Reload(h, triggers) ==
    /\ Yielded /\ hooks[h] # {} /\ triggers # hooks[h]
    /\ hooks' = [hooks EXCEPT ![h] = triggers]
    /\ index' = Indexed(h, triggers)
    /\ disabled' = disabled \ {h}
    /\ UNCHANGED <<recent, cooling, runningHooks, exec, hookCall>>

\* enable_hook() and disable_hook().
Toggle(h) ==
    /\ Yielded /\ hooks[h] # {}
    /\ disabled' = IF h \in disabled THEN disabled \ {h} ELSE disabled \cup {h}
    /\ UNCHANGED <<hooks, index, recent, cooling, runningHooks, exec, hookCall>>

\* The executions recorded first are a minute old.
MinutePasses(h) ==
    /\ Yielded /\ recent[h] > 0
    /\ \E n \in 0 .. recent[h] - 1 : recent' = [recent EXCEPT ![h] = n]
    /\ UNCHANGED <<hooks, disabled, index, cooling, runningHooks, exec, hookCall>>

CooldownEnds(h) ==
    /\ Yielded /\ h \in cooling
    /\ cooling' = cooling \ {h}
    /\ UNCHANGED <<hooks, disabled, index, recent, runningHooks, exec, hookCall>>

-----------------------------------------------------------------------------
(* The engine: trigger() *)

\* get_hooks_for_trigger(): the hooks of CUSTOM come with every trigger.
Selected(t) == {h \in index[t] \cup index[Custom] : hooks[h] # {} /\ h \notin disabled}

\* The first identity nobody has; how many there are bounds the hooks under way.
Unused == {x \in Execution : exec[x] = NoRun}
Spare == {x \in Unused : x = CHOOSE y \in Unused : TRUE}

TriggerHooks(c, t) ==
    /\ Yielded /\ hookCall[c].pc = "idle"
    /\ \E met \in SUBSET Selected(t) :       \* their conditions hold
        /\ met # {} /\ Cardinality(met) <= Cardinality(Unused)
        /\ hookCall' = [hookCall EXCEPT ![c] = [Quiet EXCEPT !.pc = "looping", !.todo = met]]
    /\ UNCHANGED <<hooks, disabled, index, recent, cooling, runningHooks, exec>>

UnderLimit(h) == h \notin cooling /\ (Limit[h] = 0 \/ recent[h] < Limit[h])

\* Only hooks with a limit have their executions counted here; nothing else reads the others.
Recorded(h) ==
    /\ recent' = IF Limit[h] = 0 THEN recent ELSE [recent EXCEPT ![h] = @ + 1]
    /\ cooling' = cooling \cup ({h} \cap Cools)

\* A hook that is already running is not run again: nothing waits for it.
Begins(x, h) ==
    /\ exec' = [exec EXCEPT ![x] = [hook |-> h, pc |-> "acting", attempt |-> 0, succeeded |-> FALSE]]
    /\ runningHooks' = runningHooks \cup {h}

TakeHook(c, h) ==
    /\ hookCall[c].pc = "looping" /\ h \in hookCall[c].todo
    /\ \A g \in hookCall[c].todo : Priority[g] <= Priority[h]
    /\ LET left == [hookCall[c] EXCEPT !.todo = @ \ {h}]
       IN \/ ~ UnderLimit(h) /\ hookCall' = [hookCall EXCEPT ![c] = left] /\ UNCHANGED <<recent, cooling, runningHooks, exec>>
          \/ /\ UnderLimit(h) /\ h \in AsyncHook /\ Recorded(h)
             /\ \E x \in Spare :
                /\ exec' = [exec EXCEPT ![x] = [NoRun EXCEPT !.hook = h, !.pc = "created"]]
                /\ hookCall' = [hookCall EXCEPT ![c] = [left EXCEPT !.tasks = @ \cup {x}]]
             /\ UNCHANGED runningHooks
          \/ /\ UnderLimit(h) /\ h \notin AsyncHook /\ Recorded(h)
             /\ \/ h \in runningHooks /\ hookCall' = [hookCall EXCEPT ![c] = left] /\ UNCHANGED <<runningHooks, exec>>
                \/ /\ h \notin runningHooks
                   /\ \E x \in Spare : Begins(x, h) /\ hookCall' = [hookCall EXCEPT ![c] = [left EXCEPT !.pc = "awaiting", !.on = x]]
    /\ UNCHANGED <<hooks, disabled, index>>

\* Mutant: trigger() waits for its tasks also when it has created none.
GatherAlways(c) ==
    /\ hookCall[c].pc = "looping" /\ hookCall[c].todo = {}
    /\ hookCall' = [hookCall EXCEPT ![c].pc = "gathering"]
    /\ UNCHANGED <<hooks, disabled, index, recent, cooling, runningHooks, exec>>

\* The loop is done: trigger() waits for the tasks it has created.
Gather(c) ==
    /\ hookCall[c].pc = "looping" /\ hookCall[c].todo = {}
    /\ hookCall' = [hookCall EXCEPT ![c] = IF @.tasks = {} THEN Quiet ELSE [@ EXCEPT !.pc = "gathering"]]
    /\ UNCHANGED <<hooks, disabled, index, recent, cooling, runningHooks, exec>>

\* execute_hook() by name looks at no limit.
ExecuteHook(c, h) ==
    /\ Yielded /\ hookCall[c].pc = "idle" /\ hooks[h] # {} /\ h \notin runningHooks
    /\ \E x \in Spare : Begins(x, h) /\ hookCall' = [hookCall EXCEPT ![c] = [Quiet EXCEPT !.pc = "awaiting", !.on = x]]
    /\ UNCHANGED <<hooks, disabled, index, recent, cooling>>

-----------------------------------------------------------------------------
(* The engine: _execute_hook() *)

\* The execution x is over: who awaits it alone gets its exception, and a
\* gather goes on with the others.
CallEnds(x) ==
    /\ exec' = [exec EXCEPT ![x] = NoRun]
    /\ hookCall' = [c \in HookCaller |->
                  LET left == [hookCall[c] EXCEPT !.tasks = @ \ {x}]
                  IN IF hookCall[c].on = x \/ (hookCall[c].pc = "gathering" /\ left.tasks = {}) THEN Quiet ELSE left]

\* Mutant: the check comes after the entry into the try block, so that its
\* finally removes the name.
StartTaskInside(x) ==
    /\ Yielded /\ exec[x].pc = "created"
    /\ \/ exec[x].hook \in runningHooks /\ CallEnds(x) /\ runningHooks' = runningHooks \ {exec[x].hook}
       \/ /\ exec[x].hook \notin runningHooks
          /\ runningHooks' = runningHooks \cup {exec[x].hook}
          /\ exec' = [exec EXCEPT ![x].pc = "acting"]
          /\ UNCHANGED hookCall
    /\ UNCHANGED <<hooks, disabled, index, recent, cooling>>

StartTask(x) ==
    /\ Yielded /\ exec[x].pc = "created"
    /\ \/ exec[x].hook \in runningHooks /\ CallEnds(x) /\ UNCHANGED runningHooks
       \/ /\ exec[x].hook \notin runningHooks
          /\ runningHooks' = runningHooks \cup {exec[x].hook}
          /\ exec' = [exec EXCEPT ![x].pc = "acting"]
          /\ UNCHANGED hookCall
    /\ UNCHANGED <<hooks, disabled, index, recent, cooling>>

\* The attempt did not end well, and its delay begins.
Again(run, ok) ==
    [hook |-> run.hook, pc |-> "sleeping", attempt |-> run.attempt + 1, succeeded |-> run.succeeded \/ ok]

\* Mutant: the name is removed only after an attempt that succeeds.
ActsUncleared(x) ==
    /\ Yielded /\ exec[x].pc = "acting"
    /\ \/ /\ exec[x].attempt < Retries[exec[x].hook]
          /\ \E ok \in BOOLEAN : exec' = [exec EXCEPT ![x] = Again(@, ok)]
          /\ UNCHANGED <<runningHooks, hookCall>>
       \/ exec[x].attempt = Retries[exec[x].hook] /\ CallEnds(x) /\ UNCHANGED runningHooks
    /\ UNCHANGED <<hooks, disabled, index, recent, cooling>>

\* The actions are done.  The event bus has no notify(), so an attempt that
\* succeeds raises as one that fails does, and is tried again; after the last
\* the failure is reported, which raises too.
Acts(x) ==
    /\ Yielded /\ exec[x].pc = "acting"
    /\ \/ /\ exec[x].attempt < Retries[exec[x].hook]
          /\ \E ok \in BOOLEAN : exec' = [exec EXCEPT ![x] = Again(@, ok)]
          /\ UNCHANGED <<runningHooks, hookCall>>
       \/ /\ exec[x].attempt = Retries[exec[x].hook]
          /\ CallEnds(x) /\ runningHooks' = runningHooks \ {exec[x].hook}
    /\ UNCHANGED <<hooks, disabled, index, recent, cooling>>

RetryHook(x) ==
    /\ Yielded /\ exec[x].pc = "sleeping"
    /\ exec' = [exec EXCEPT ![x].pc = "acting"]
    /\ UNCHANGED <<hooks, disabled, index, recent, cooling, runningHooks, hookCall>>

\* The caller is cancelled while it waits: for one hook, or for all its tasks.
CancelCall(c) ==
    /\ Yielded /\ hookCall[c].pc \in {"awaiting", "gathering"}
    /\ LET gone == IF hookCall[c].pc = "gathering" THEN hookCall[c].tasks ELSE {hookCall[c].on}
       IN /\ exec' = [x \in Execution |-> IF x \in gone THEN NoRun ELSE exec[x]]
          /\ runningHooks' = runningHooks \ {exec[x].hook : x \in {y \in gone : exec[y].pc # "created"}}
    /\ hookCall' = [hookCall EXCEPT ![c] = Quiet]
    /\ UNCHANGED <<hooks, disabled, index, recent, cooling>>

Executes(x) == StartTask(x) \/ Acts(x) \/ RetryHook(x)
Loops(c) == Gather(c) \/ \E h \in Hook : TakeHook(c, h)

HookNext ==
    \/ \E h \in Hook : UnregisterHook(h) \/ Toggle(h) \/ MinutePasses(h) \/ CooldownEnds(h)
    \/ \E h \in Hook, triggers \in SUBSET Trigger : (triggers # {} /\ RegisterHook(h, triggers)) \/ Reload(h, triggers)
    \/ \E c \in HookCaller : (\E t \in Trigger : TriggerHooks(c, t)) \/ (\E h \in Hook : ExecuteHook(c, h)) \/ CancelCall(c) \/ Loops(c)
    \/ \E x \in Execution : Executes(x)

HookSpec == HookInit /\ [][HookNext]_hookVars

\* The actions of a bounded hook end, those of another need not: its timeout is
\* None unless it is given, and a function has none at all.  A delay ends, and
\* the event loop gets to every task that is ready, whoever else loops (hence SF).
HookFairness ==
    /\ \A x \in Execution : SF_hookVars(StartTask(x) \/ RetryHook(x) \/ (exec[x].hook \in Bounded /\ Acts(x)))
    /\ \A c \in HookCaller : WF_hookVars(Loops(c))

-----------------------------------------------------------------------------
Running == {x \in Execution : exec[x].pc \in {"acting", "sleeping"}}

\* A hook never runs twice at once, however it is triggered and although its
\* tasks start later than they were created, and a name in _running_hooks is
\* that of an execution under way: no exception, retry or cancellation leaves
\* one behind, which would refuse the hook for ever.  The index leads from a
\* trigger to the hooks registered for it, and to no other.
HookInv ==
    /\ HookTypeOK
    /\ \A x, y \in Running : x # y => exec[x].hook # exec[y].hook
    /\ runningHooks = {exec[x].hook : x \in Running}
    /\ \A t \in Trigger : index[t] = {h \in Hook : t \in hooks[h]}
    /\ \A h \in Hook : recent[h] <= Limit[h]
    /\ \A c \in HookCaller : \A x \in hookCall[c].tasks : exec[x] # NoRun

\* The executions that a caller waits for.
Awaited(c) == IF hookCall[c].pc = "awaiting" THEN {hookCall[c].on} ELSE hookCall[c].tasks

\* A caller of trigger() or execute_hook() gets its answer, or nothing keeps it
\* but actions that have no bound: not a task that has ended or was refused,
\* not a retry, not another caller of the same hook.
HooksReturn ==
    \A c \in HookCaller :
        hookCall[c].pc # "idle" ~>
            \/ hookCall[c].pc = "idle"
            \/ /\ hookCall[c].pc \in {"awaiting", "gathering"} /\ Awaited(c) # {}
               /\ \A x \in Awaited(c) : exec[x].pc = "acting" /\ exec[x].hook \notin Bounded

\* A hook whose actions succeeded is not run again by its retries.  The code
\* does not keep it: notify() does not exist.
SucceedsOnce == \A x \in Execution : ~ exec[x].succeeded
=============================================================================
