# Shannon MCP: a verification project

TLA+ specifications, model-checking runs and machine-checked proofs about
`src/shannon_mcp`, an MCP server that manages Claude Code CLI sessions. The
specifications are translated from the Python source. Paths below are relative
to that package unless they start with a top-level name.

Contents: [how the code is read](#how-the-code-is-read) ·
[inventory](#inventory) · [plan](#plan) · [modules](#modules) ·
[runs and bounds](#runs-and-bounds) · [fairness](#fairness) ·
[proofs](#proofs) · [findings](#findings) ·
[further divergences](#further-divergences) ·
[what is not modelled](#what-is-not-modelled) · [how to run](#how-to-run)

## How the code is read

Everything runs on one asyncio event loop. A coroutine can be interrupted only
at an `await` that really suspends, so an action of a module is what one
coroutine does between two such awaits, and every other coroutine may run
between two actions. `async with lock` on a free lock, `put()` on an unbounded
queue, and therefore `emit()`, do not suspend; a database or file call
(`aiosqlite` and `aiofiles` run each in a thread), a subprocess call, `drain()`,
`sleep()`, `wait()` and awaiting a task that has not ended do. Awaiting a
coroutine of the program is as many steps as it has suspensions. `time` is never
a number: a deadline is a flag that becomes true, or a disjunct that may be
taken at any moment.

A module keeps the names of the code (`table` for `_sessions` and the like is
said in the comment on the variable), and a definition named after a mutation
("Mutant: ...") is not part of the specification: it is a plausible bug in the
definition that follows it, and the corresponding property fails when it takes
its place.

## Inventory

| component | state | operations | hard behaviour | what makes it correct | modules |
|---|---|---|---|---|---|
| session manager `managers/session.py` | `_sessions`, `_session_lock`, per session: state, metrics, process, stream task, database row | `create_session`, `send_message`, `cancel_session`, `_shutdown_sessions`, `_monitor_sessions` | the lock is held over discovery, spawn and prompt, but cancel, shutdown and monitor take none; a process may exit at any time; saves may fail | never more than the limit; a verdict stands; no process is forgotten; calls return; slots come back | SessionManager, SessionPool |
| stream processing `streaming/processor.py`, `buffer.py`, `reader.py`, `parser.py` | task per session, partial line, queue per source | `process_session`, `_handle_*`, `feed`, `get_messages` | ends because of EOF, error or cancellation while others change the session | completes only a running session; a line that ends is handled once, in order; a ring is a queue | SessionManager (the task), LineStream, RingBuffer, ByteQueue |
| event bus `utils/notifications.py` | queue, `_processing`, processor tasks, subscriptions, handlers cache | `subscribe`, `emit`, `wait_for`, `_process_events`, `_dispatch_event`, `shutdown` | the flag is set by the task, not by `emit`, and a processor ends by itself | nothing stranded, nothing twice, only subscribers, eventually delivered | EventBus |
| content-addressable storage `checkpoint/cas.py` | `index`, `index.json`, object files, lock | `store`, `retrieve`, `delete`, `gc` | files are touched outside the lock; crash between any two file operations | the index is durable; what it names is intact | ContentStore |
| checkpoints `checkpoint/checkpoint.py` | `_checkpoints`, HEAD, refs | `create_checkpoint`, `restore_checkpoint`, `delete_checkpoint`, `gc` | many storage calls in one operation, with gc and deletes beside it | every checkpoint complete; a restore reads all of it; HEAD is set | CheckpointManager, CheckpointHistory |
| checkpoint timeline `checkpoint/timeline.py` | `_entries`, `_branches`, `_checkpoint_branches`, two files | `add_checkpoint`, `add_restore`, branches, deletion, questions | a stop between the two files, or inside one; maps in two directions | a branch has its entry after a restart; the common ancestor is the nearest | Timeline |
| manager life cycle `managers/base.py`, `server.py` | `state`, `db`, `_health_task`, `_recovery_attempts` | `initialize`, `start`, `stop`, `restart`, health monitor | calls guarded by `state` alone; the monitor restarts the manager it is a task of | one transition at a time; running is watched, if it has an interval; stopped is released | ManagerLifecycle |
| shutdown manager `utils/shutdown.py` | components, tracked requests, phase | `register_component`, `track_request`, `shutdown` | time-outs per handler and overall, several callers, requests still arriving | phases and dependencies kept; a complete shutdown told everybody; calls return | ShutdownManager |
| process manager `managers/process.py` | `_processes`, `_pid_to_process_id`, rows, pid files, the audit trail | `register_process`, `unregister_process`, `terminate_process`, `update_heartbeat`, load at start, two loops, clean-ups, validations | pids are reused; tables and rows change at different awaits and commit together; restart | the pid table names the record of the pid; no clean-up takes the row of a live process; who is announced dead is saved dead | ProcessTable, ProcessMonitor, ProcessUpkeep |
| process registry `registry/` | rows of `processes`, `_tracked_pids`, the loops of tracker and cleaner | track, untrack, validate and fix, clean, adopt orphans | a row is read, its process checked, and acted on later, by three parties | dead rows go, live processes get rows | ProcessRegistry |
| session cache `managers/cache.py` | ordered dict, totals, a file | `get`, `set`, `delete`, `clear`, clean-ups, `save`, `load` | totals kept beside the entries over many paths; a start that loads without evicting; a crash after a save | the bounds are kept; an answer is the last value stored | SessionCache |
| storage cache `storage/cache.py` | ordered dict, a directory, write-back tasks | `put_session`, `get_session`, `remove_session`, clean-ups, eviction | eviction writes back in a task nobody waits for, over one temporary name; a write-back may fail | a session put has a copy somewhere while its write-backs follow one another | TieredCache |
| hook engine `hooks/engine.py`, `registry.py` | hooks, index, rate windows, `_running_hooks` | `register`, `scan_directory`, `trigger`, `execute_hook`, `_execute_hook` | tasks that start later than they were made, retries, cancellation | a hook never runs twice at once and is never refused for ever; only actions without a bound keep a caller waiting | HookEngine |
| agent manager `managers/agent.py`, `models/agent.py` | agents, their rows, `_assignment_lock`, a queue of messages | `register_agent`, `assign_task`, `send_message`, `_process_messages`, start and stop | a failure after the agent is marked BUSY; a stop among assignments | no agent has two tasks; rows and memory agree; every message is taken once | AgentManager |
| transport `transport/base.py`, `sse.py` | connection state, SSE task, pending requests, event queue | `connect`, `send_request`, `_handle_message`, `_sse_loop`, `disconnect` | answers, time-outs, cancellations, reconnections and the close race | a request is settled once, and ends if it has a time-out; a closed transport leaves nothing behind | Transport |
| MCP servers `managers/mcp_server.py`, `transport/manager.py` | servers, connections, locks, transports, health tasks | `add_server`, `connect_server`, `disconnect_server`, `remove_server`, the health loop | tables changed at different awaits under a lock that is itself removed and made again | one task at a time changes a connection; no transport without a connection | McpServers |
| slash commands `slash_commands/` | commands, aliases, categories, executions, history | `register`, `unregister`, aliases, `execute_command_block`, `cancel_execution` | cancellation and the end of a command meet | a name found stands for a command; the limit holds and every place comes back | SlashCommands |
| analytics `analytics/writer.py`, `cleaner.py` | buffer, current file, old files | `write`, `flush`, rotation, compression, archive, retention | two tasks on the same files without a lock | no entry that was flushed is lost | MetricsFiles |
| binary manager `managers/binary.py` | cached executable, rows | `discover_binary`, `get_binary`, invalidation | executables come, break and go while callers search | what a search returns works | BinaryManager |
| configuration `utils/config.py` | sources, tree, observers | `add_source`, `load`, merge, environment, hot reload | sources that overlap, broken files, a lock held over the event | every setting has one explainable value | ConfigLoader |
| hook configuration, templates, sandbox; errors, logging | — | parsing and formatting | text, and limits of the operating system | — | not modelled |

How they interact. `server.py` creates every manager and `initialize()`s them in
turn; tools call their operations. SessionManager asks the binary manager for the
executable, keeps sessions in its cache, starts the process, hands it to the stream processor, and tells the
event bus about every change. SessionManager and ProcessManager register a
shutdown handler of the same phase, and `create_session` and `register_process`
are tracked requests. CheckpointManager calls the storage for every file.
Checkpoints, hooks and transports call `notify()`, which `EventBus` does not have
(see [further divergences](#further-divergences)). Two things follow from
`server.py` and matter for reading the models: it never `start()`s a manager, so
the session monitor and the health monitors run only for users of the managers,
and its `stop()` of a manager that is only READY does nothing.

## Plan

Modules are grouped so that each group has one or two runs. A group whose
components share no state is model-checked by one MC module that starts a
behaviour with one of them in focus.

1. Done: **sessions** — SessionPool (abstract), SessionManager, proofs of the
   pool invariant, the bound, the refinement, the account of the processes and
   the verdicts.
2. Done: **events** — EventBus, proof that nothing is stranded in its queue.
3. Done: **checkpoints** — ContentStore, CheckpointManager composed on it, proofs
   of durability and intactness and, on top of them, of complete checkpoints,
   whole restores and the implementation of CheckpointHistory (abstract).
4. Done: **runtime** — ManagerLifecycle, ShutdownManager, ProcessRegistry, proofs
   of the invariants of the first two and of the types of all three.
5. Done: **processes** — ProcessTable, ProcessMonitor, ProcessUpkeep
   (`managers/process.py`), ProcessRegistry (`registry/`), proofs that the records,
   the pid table and the rows stay in step, and of what the loops and the
   clean-ups promise.
6. Done: **services** — HookEngine, AgentManager, Transport and McpServers, proofs
   of the invariants of all four.
7. Done: **stores** — SessionCache, TieredCache, MetricsFiles, Timeline,
   ConfigLoader, BinaryManager, SlashCommands, LineStream; RingBuffer as an
   implementation of ByteQueue; proofs of all their invariants.
8. Left: `send_message` with the message rows of `_save_session` as a module of
   its own.

Every invariant and every action property that a run checks has a theorem, and so
has each of the implementations of an abstract specification. Properties still
worth stating, and then proving: the order in which the tiered cache evicts, and
what a step of the transport may never do.

## Modules

### SessionManager, SessionPool (`managers/session.py`, `streaming/processor.py`)

A session is the `create_session` call that makes it. `creator[s]` is where that
call is suspended: waiting for the lock, `discover` (the binary), `saving`,
`spawning`, `prompt` (drain of stdin). `AcquireLock` is the limit check,
`Discovered` the insertion into `_sessions`, `Spawned` everything from the return
of `create_subprocess_exec` to the first drain, including the assignment of
RUNNING whatever the state is. `stream[s]` is the stream task: `EndOfStream` is
`_handle_stream_complete` up to its save, `FailStream` `_handle_stream_error`.
`canceller[k][s]` is one `cancel_session` call of caller `k`: SIGTERM, the wait
of 5 s, SIGKILL, the join of the stream task, the save; every `except` is a
disjunct. `shutdown` is `_shutdown_sessions`, which gathers one cancel per
session of the table. `Scan`, `Cleanup`, `CleanupDone` are the monitor: a scan
of the whole table without an await, then one clean-up after the other, each up
to 5 s. `db` is the state column of the session's row.

Abstractions: messages, metrics and the cache are data; the clock of the monitor
is the flag `overdue`; a process closes its output when it exits.

`SessionPool` is what a user of the table may rely on: at most `MaxConcurrent`
sessions, each admitted once and gone for good when it leaves.
`SessionManager!ImplementsPool` is the refinement.

### EventBus (`utils/notifications.py`)

One event name and category, which is one key of `_handlers_cache`. An event is
the number of its emission, and so is the processor task that the emission
started, because `emit()` starts one whenever `_processing` is still False.
`Start`, `Take`, `Dispatch`, `HandlerStarts`, `HandlerEnds`, `Gathered`,
`IdleOut` are the life of a processor; `Dispatch` calls the plain handlers and
creates a task for each of the others. `BeginShutdown` cancels the last
processor only, `EndShutdown` clears the subscriptions. `taken` exists because
`wait_for(queue.get())` takes the event in a task of its own. `Urgent` stands for
everything `matches()` looks at that the key of the cache does not hold (the
priority, the filter); `DispatchRaises` is a `filter_func` that raises, which only the
processor catches, so nobody gets that event (`dropped`). A handler whose task was
created may start after its subscription has left; what DeliveryInv says is that no
task is created for it any more.

### ContentStore, CheckpointManager, CheckpointHistory (`checkpoint/cas.py`, `checkpoint/checkpoint.py`)

`ContentStore` has the index in memory, `diskIndex` (index.json), one `file` per
hash (`absent`, `partial`, `full`), the lock, and where each worker is in
`store`, `retrieve` or `gc`; `StoreCrash` loses the memory and loads the disk.
`CheckpointManager` extends it: a worker is in a `create`, `restore` or `gc`
call, whose steps are the storage's steps plus what the checkpoint manager does
when one returns. `SharedContent` allows two workers to store the same content
at a time, `QuietGC` keeps `gc()` from running beside anything else: both are
conditions on the callers, not on the code, and the runs say which they use.

`CheckpointHistory` is what a caller may rely on under these conditions: there are
checkpoints with their contents, and `Save`, `Restore` and `Drop` take effect in one
step each. The mapping makes of the manager's state the checkpoints every file of
which is indexed and intact (`Contents`), the deleted ones, HEAD, and what the
restores that succeeded have read (`Returned`). So a create that is under way, fails
or is cut off by a crash is invisible, a collection changes nothing, and a restore
that returns has returned the contents of the checkpoint that HEAD then names
(without those of length 0). Of a checkpoint that is deleted meanwhile it may return
any part and HEAD still moves to it: so the code does, and `Restore` and `Drop` say so.

### ManagerLifecycle, ShutdownManager, MCRuntime (`managers/base.py`, `utils/shutdown.py`)

`ManagerLifecycle`: `at[c]` is where caller `c` is suspended inside
`initialize()`, `start()` or `stop()`, `health` where the health task is. The
recovery is `restart()` inside that task: its `stop()` cancels the task, awaits
it (the first await raises CancelledError, which is swallowed), cancels it again in
the loop over `_tasks` and awaits it again. What that second await does depends on
the interpreter, and the model has both: the C Task that CPython uses raises
RuntimeError ("await wasn't used with future": the future iterator finds the
blocking flag of the first await still set), so `stop()` ends in ERROR with the
connection open (`HealthFails`); the Task written in Python raises CancelledError
once more, so `stop()` goes on to STOPPED and `initialize()` raises there
(`HealthJoins`, `HealthStops`, `HealthCloses`). `watched` says whether
`health_check_interval` is positive: a manager with 0 has no health task, and
RunningIsWatched says nothing of it.

`ShutdownManager`: `exec` is where `_execute_shutdown` is, `plan` the components
grouped by phase when the hooks have run, `pending` those of the phase not yet
called. `Cyclic` stands for the exception of `_topological_sort`, and the guard
of `CallHandler` for the order it returns. `tracked` holds the objects whose
methods are running: weak references to one object are equal, so the set holds
one of them. They share an MC module; `focus` chooses, at the start of a behaviour, the one that moves; ProcessRegistry, below, is the third.

### ProcessTable (`managers/process.py`)

`record` is what a process id was made for (`birth` tells the processes apart that
have the pid one after the other), `table` the keys of `_processes`, `owner`
`_pid_to_process_id`, `at[r]` the await at which a call of coroutine `r` is. There is
one database connection: `row` is what its statements see, in the order they are
issued, `disk` what is committed, and a commit commits everything. A write or a
commit that fails ends the call (`Loses`) and enters the record in `unsaved`.
`register_process` and `unregister_process` hold the lock to their end;
heartbeats, terminations and clean-ups take none. Three peculiarities of the code
are in the model: `_detect_pid_reuse` reads a `pid_info` that nobody writes, so it
answers False (`ReturnKnown`); a start reads the active rows and loads none (`Load`:
it takes column 12 for `created_at`, which is that `pid_info`, and what
`fromisoformat(None)` raises is logged), so the rows of an earlier run stay as they are
until a clean-up removes them; and the clean-ups name `PIDEventType`, which does
not exist, so they end after their first DELETE and leave it to the next commit
of anybody (`CleanNext`, `Swept`). `register_process` itself raises at the very end
(`EventPriority.MEDIUM`, line 979) when everything has been done.

### ProcessRegistry (`registry/`)

An operation of the storage holds the lock of the storage until it has committed
and is one step. The actors are not: `Track`, `Stored`, `Added` are
`track_process`, which looks at the process, stores the row and then adds the pid;
`UpdateTracked`, `NoteStatus`, `JudgeTracked`, `MarkStopped`, `TrackerPurges` one
round of the tracker; `CleanerWakes` the validation of all rows and the actions
after it `cleanup_now`; `Judges` and the `Fix...` actions a validation with
`fix_issues`. `stale` stands for `last_seen`: one flag for the thresholds of the
validator, the tracker and the cleaner, with the longest (a day) deleting any
subset of the stale rows.

### ProcessMonitor, ProcessUpkeep (`managers/process.py`)

`ProcessMonitor` is the loops over the records. `round` is a round of
`_monitor_processes`: `Scan` looks at all records without an await and issues the
first write, `SaveEnds` is the end of each write with what follows it up to the next
(an orphan is announced; after the last write the old records are dropped, with the
pid entry and the pid file), `RoundFails` a write that fails. `Collect`, `Enforce` and
`TimePasses` are `_monitor_resources`, which marks a record orphaned; an alert raises
before it could suspend, so it is no step of its own. Beside the loops run
`register_process` (`Enrol`, `EnrolLogged`, `EnrolSaved`) and `unregister_process`
(`Withdraw`, `Withdrawn`), one at a time under `registry`, the lock that the loops do
not take, and terminations (`StopProcess`, `Killed`): each stops at its writes, and
any write may fail, which ends the call or the round (`lost` has the records
concerned). `recorded` is the status in the object, `saved` the one in its row, in the
order the writes are issued, `orphanEvents` the events emitted. A record whose
registration is under way is not dropped as an hour old.

`ProcessUpkeep` is the database side: `run_comprehensive_cleanup` (`upkeep`, stage by
stage, with `report` what it counted) and `run_comprehensive_validation` of each
`Validator` (`check`: integrity, resources, security, life cycle, then an event and a
result). The INSERT of the result leaves out a column that is NOT NULL
(`managers/process.py:2757`, `:847`): it always fails, nobody is told, and it leaves a
transaction begun, so `validation_results` is always empty. There is one connection and one transaction: `base` is what its
statements see, `committed` what is on the disk, `begun` whether a transaction is
open, and a commit of one caller commits what another has begun. `PIDEventType`
does not exist, so a clean-up that deleted something fails before its commit. In `os`
a pid is `"unseen"` when it is used again and no start time tells so
(`_get_detailed_pid_info` found none).

### SessionCache, TieredCache (`managers/cache.py`, `storage/cache.py`)

No section of `LRUCache` that holds its lock suspends, so each call is a step.
`order` is the order of `_cache`, `stats` the two totals that the code keeps beside
it, `file` what the last save wrote. A value is known by the number of the `set()`
that stored it. `newest`, `behind` and `revived` are history: what a caller stored
last, the keys that changed after the last save, and those of them that a start
after a crash has loaded with their old entry.
`CleanupStale` leaves the total of bytes too high, as the code does; `Initialize`
loads without evicting. `Sublists!OnlyIn` is SelectSeq by a recursive function,
which the proofs can unfold; SessionCache, TieredCache, ConfigLoader and LineStream
use it. `CacheEvictsOldest` says what order the lock protects: what `set()` evicts has
been unused for longer than what it leaves, and no call but a use of an entry
changes the place of that entry.

`TieredCache` adds the directory: an eviction creates a task (`writes`) that nobody
waits for. It opens `<key>.tmp`, writes, closes (`OpenTmp`, `WriteText`, `CloseTmp`,
each in a thread) and renames, and it may fail at each of them (`WriteFails`). Two
tasks of one key share the name: the second open empties the file of the first, a
rename takes it to `<key>.json` with whatever is in it by then, and who had it open
goes on writing there (`on`, `shared`). `Garbled` is a file that is no session.
`TieredInv` is about the keys that this has not happened to (`spoiled`); for the
others `CopySurvives` fails. `diskReader` is a `get_session` that reads a file in a thread and puts what
it has read into the memory afterwards, whatever happened meanwhile.

### MetricsFiles (`analytics/writer.py`, `analytics/cleaner.py`)

A file is the set of the entries in it, before (`raw`) and after (`gz`) compression.
`writer` is what the holder of `write_lock` is doing: a flush opens the file and
lands its entries, a rotation reads it, compresses it, removes it. `cleaning` is the
same done to an old file by the cleaner, which takes no lock of the writer.
`handle` says where the open file is by now. `Careless` lets the current file grow
old, as after an idle week, and two files get one name within a second: both are
conditions of the environment, and the code excludes neither.

### Timeline (`checkpoint/timeline.py`)

`heads` is `_branches`, `tags` `_checkpoint_branches`; `eventFile` and `headFile` are
the two files a call rewrites one after the other. A call never suspends; `Stops` is
a stop of the program in the middle of it, which leaves either file torn, or the
second one old. `LoadTimeline` takes a torn file for an empty one. `AncestorLine`,
`CommonAncestor`, `BranchCommits`, `History` are the questions, as the code answers
them.

### ConfigLoader (`utils/config.py`)

`holds` is what a source would return now (a tree, nothing, or something that cannot
be parsed), `sources` `_sources` in its order, `config` the last configuration that
was accepted. `LoadConfig` is the first half of `load()`, to the event it emits:
`Merge` folds the trees with `DeepMerge`, from the highest priority down as the code
does, `Variables` lays the environment over them. `SetupHotReload` is the other
half: it starts an observer for each file, whatever was started before.

### LineStream, RingBuffer, ByteQueue (`streaming/`)

`LineStream` is one output, byte by byte as far as it matters, on its way through
`StreamBuffer` (`ReadChunk`: decode, cut into lines, keep the rest in `partial`), the
parser and the processor (`HandleLine`). `Extract` is translated with what it does
to a chunk without a line end: the rest of it overwrites the partial line.
`Pieces` cuts bytes at the ends of lines and `Decoded` turns the bytes of one line
into its text, byte after byte: both are recursive functions, for the proofs.
`StreamComplete` drops what is left. `read`, `handled` and `torn` are history, and
`Lines` is the reference: the lines of all the bytes read.

`RingBuffer` is `CircularBuffer`, with its positions and slices; `ByteQueue` what it
promises: a bounded queue that takes what it has room for. `RingIsQueue` is the
refinement, checked by TLC and proved.

### HookEngine (`hooks/engine.py`, `hooks/registry.py`)

`hooks` and `index` are the registry, `recent` and `cooling` its rate windows and
cooldowns, `exec` the running
`_execute_hook` calls (a task is `created` before it starts), `runningHooks`
`_running_hooks`. `hookCall[c]` is a caller of `trigger()`: `looping` over its hooks
without suspending (nobody else moves meanwhile: `Yielded`), `awaiting` one that is
not a task, `gathering` the tasks. `Acts` is the end of an attempt: as there is no
`notify()`, an attempt that succeeds raises like one that fails, and `RetryHook`
follows. `CancelCall` cancels a caller with the executions it waits for.
`hooks/registry.py:154` uses `Any` without importing it, so `import shannon_mcp.hooks`
raises NameError as the repository stands: the module is of the code with that import.
Of `update_hook` only enabling is modelled (`Toggle`): the other settings are constants.

### AgentManager (`managers/agent.py`, `models/agent.py`)

`Assign` is `assign_task` with the lock up to its write, `AssignRaises` what follows:
`AgentExecution` is built without the id it requires, so the call raises with the
agent BUSY and the lock released; so does a save that fails (`SetUnsaved`), and then
the table still calls the agent available. A task that requires no capability is
refused by a division by zero. No execution ever exists, and what works on
executions is not reached. `agentRow` is the status in the table; a statement takes
effect in the order it was issued. `handling` is the message that
`_process_messages` has taken: a request to all raises for the first agent, and its
message stays unmarked. `SendMessage` and `QueueMessage` are the save and the queue.
`StopAgents`, `TakeOffline`, `Stopped` are the stop, which a failing save ends early.

### Transport, McpServers (`transport/`, `managers/mcp_server.py`)

`Transport` is one SSE transport with the requests over it. `link` is its state, `sse`
where `_sse_loop` is (opening, reading, in its back-off), `future` and `pending` the
two halves of a pending request, `call` its caller. Nothing in `src/` hands what
`receive_messages()` yields to `_handle_message()`: `reader` is the user of the class
who does so, present or not. `Expire` and `Awake` are `asyncio.wait_for` of Python
3.12, where the timer may win over an answer that has just come. `ConnectFails` and
`DisconnectFails` are the exceptions of the HTTP session, which leave the state ERROR.

`McpServers` has the tables (`configured`, `conn`, `transport`, `checker`) and in
`op[t]` where each task is in `add_server`, `connect_server`, `disconnect_server` or
`remove_server`, the health loops included. `remove_server` drops the lock of the
server and `add_server` makes another, while a task may still hold or wait for the
first: locks are told apart by number. A loop that reconnects disconnects first,
which cancels the check loop, itself: `DisconnectBegins` has what becomes of it.
A transport that cannot be closed stays where it is (`TransportRemoved`), and a failing
write of the log ends a call in the middle (`LogFails`).

### BinaryManager (`managers/binary.py`)

`search[c]` is a call: waiting for the lock, trying the strategy `at`, validating,
saving, noting a failure. The cache is set when an executable is validated, before it
is saved. The save raises for every executable whose build date is known
(`SaveBinary`; `Saveable` is the rest), and the search goes on to the next strategy
with the cache set. `Changes` is the world: an executable is installed, broken or
removed while a search waits; `steady` marks the searches during which nothing was.

### SlashCommands (`slash_commands/`)

`command`, `alias`, `listed` are the registry; `execution`, `runStatus`, `active`,
`history` the executor. `validate_arguments` reads a variable that only its
comprehension binds, so it raises NameError for every command that is not a dry run:
`Run` completes dry runs and fails the others, and no handler is called. The hooks
before and after are where an execution suspends, and where a cancellation finds it.

### MCStores, MCServices, MCTables

The components from ProcessTable on share no state. `focus` is chosen at the start of a behaviour
and one of them moves in it; the inputs of the others are fixed by `Init`. In
`MCStores` each kind of component has one invariant, the conjunction of the type
invariants and the properties of its modules for the behaviours in their focus.
`MCTables` has ProcessTable and McpServers, whose callers are interchangeable.
`MCServices` has what must answer, HookEngine, AgentManager and Transport, with their
fairness. Of the agents a behaviour looks at the tasks or at the messages: all that the
one knows of the other is which agents are available, and a registration makes them so.

## Runs and bounds

| run | question | instance |
|---|---|---|
| `session_pool` | is the table a bounded pool, is any process forgotten? | two creators, limit 1, the shutdown, the monitor, every save may fail; symmetry of the sessions (safety and a symmetric refinement only) |
| `session_verdicts` | what do CANCELLED and COMPLETED promise, does every call return, does every slot come back? | two sessions and the cancels of a user and of the shutdown; `OneContest` lets either two creators or several cancellers act, not both at once |
| `session_shutdown_misses` | violation, see findings | one session, the shutdown |
| `bus` | is an event stranded, delivered twice, dispatched to a subscription that has left, or never delivered to one that stays? | two events of two priorities, hence up to two processors, an async subscriber whose filter may raise and a plain one with a minimum priority, shutdown; the last property excuses the cache that ignores the priority, and the filter that raises (`MatchingIsDelivered` does not) |
| `bus_priority` | violation | two events of different priority, one subscriber |
| `checkpoint_races` | does the index stay durable, does HEAD stay set, when nothing is excluded? | two workers, one content, two checkpoints, one crash |
| `checkpoint_quiet` | are checkpoints complete and restores whole when gc runs alone; does the manager implement CheckpointHistory? | two workers, two contents of which one is empty, two checkpoints, one crash |
| `checkpoint_gc_race` | violation | as before, without the quiet gc and the crash |
| `tables` | do the records, the pid table and the rows of the processes stay in step; does one task at a time change the connection of a server, and is no transport that is up left without one? | processes: two callers, one pid that two processes have, two process ids, one failing write or commit, one restart; servers: one that is added, removed and added again, two callers, two health loops, one failed ping before a reconnection; symmetry of callers, ids and loops (safety only) |
| `runtime` | do transitions overlap, is a handler out of order or forgotten, does shutdown return, do the rows of the registry come to agree with the processes? | two callers; four components in three phases, one pair with a dependency, one cycle; two requests on one object; one pid that two processes have, with tracker, cleaner and a fixing validation |
| `stores` | do caches, files, streams, commands, requests and process loops keep what they promise? does the session cache evict what has been unused longest? | twelve foci, see below |
| `services` | does a hook run twice at once, is a name left behind, do table and memory of the agents agree, does every caller of a hook, an assignment or a request get an answer, and who may wait for ever? | hooks: two, a task that is retried, with a limit and a cooldown, and one whose actions may never end, two callers, two executions; agents: two of which one can more, saves that fail, one stop, two callers or two messages; requests: one with a time-out and one without, one reconnection, one event waiting |

`stores`, focus by focus: three sessions of one or two bytes, limits of two entries
and three bytes, three values stored (`cache`); two keys, one entry in memory, two
values, one eviction and one `put_session` at a time on their way to the files
(`tiered`); two entries, two files, everything of size one (`metrics`); two
names, two categories, two executions, one at a time, a history of one (`slash`);
every output of up to five bytes, chunks of three, lines of three (`lines`); two
executables, two callers, all strategies (`binary`); two requests, one
reconnection (`transport`); two records of one pid, one write that
fails (`monitor`); one process, two clean-ups beside one validation, one statement
that fails (`upkeep`); a ring of three bytes, pieces of up to three, reads of up to
four (`ring`); three checkpoints, two branches, three entries, one stop
(`timeline`); a file and a dictionary, two loads, one change of the file
(`config`).

Why these are enough. The sessions interact only through the table, the lock and
the monitor: with two of them and a limit of one the second meets the limit, the
lock and the freed slot. `OneContest` keeps back callers only, and no property
needs three of the four actors at once: a creator's step touches its own session
and the lock, a canceller's its own session. Two events make two processors, an
idle-out between them and a late flag; a third processor repeats the second. Two
workers are a storing and a sweeping one, or two storing; one crash between any
two file operations is every crash, since a restart forgets everything but the
disk. In the runtime the cyclic component is of the last phase and registers or
not, so that complete and failed shutdowns both occur. In the process table every
clash is between records of the same pid, which two ids make; one failed commit
followed by a crash is the only way to a row that no longer says what memory did.
In the registry the rows of different pids meet only in the loops, which take them
one after the other; that one of them ends a search for the others is not seen
(below). Two
hooks meet in one trigger, a hook meets itself in two executions. Three entries
with a limit of two evict, and a large one evicts two small ones. A chunk of three
in an output of five cuts a line, a character and a line that is too long; a ring
of three is wrapped around by any write of two at its end. Two loads are a first
and a later one; a torn file needs one stop.

`CHECK_DEADLOCK FALSE` is set where the system may come to rest: all calls made
and all sessions ended. `WriteIsAwaitable` is TRUE in the passing runs: it is the
repository's own test double (`AsyncMock`) that makes the rest of
`create_session` reachable. `Careless` is FALSE in `stores`: with it the cleaner
may take the file that is being written, which happens after a week without an
entry, and entries are lost.

## Fairness

The event loop runs every ready task, so each step of a coroutine that is not
waiting for an outside event is weakly fair. `asyncio.Lock` wakes its waiters in
order, which is strong fairness of `AcquireLock`. A process is only obliged to
exit after SIGKILL. That discovery, the spawn
and the drain of the prompt return is assumed: none has a time-out in the code, and
the lock is held over them (`managers/session.py:321`). `SlotIsReturned` assumes a
manager that was `start()`ed, so that the monitor scans: `server.py` starts none.
A caller need not call. `TimePasses` is fair: clocks run.
`ShutdownReturns` needs that hooks and handlers end: a handler is cancelled after
its own time-out, and the whole execution by the overall one, except that the
first emit and a hook are assumed to return. `RowsReconciled` assumes only that the cleaner's loop goes on (`WF` of `Cleaning`):
neither the tracker nor any caller has to move, and both may hinder it as long as
they like. Nothing is assumed about subscribers
beyond that a handler, once started, returns (`DeliveredToSubscribers`).

For `HooksReturn` the actions of the hooks in `Bounded` end, those of the others
need not: `timeout` is None unless a hook sets it (`hooks/config.py:147`), a command
or script in the sandbox ends with the sandbox's own limit, and a function has none
at all (`hooks/engine.py:559`). So the property says that a caller gets its answer or
is kept by actions without a bound and by nothing else. A delay ends; an execution
is strongly fair, because `Yielded` is false for a moment
whenever some `trigger()` goes through its loop, and the event loop gets to a ready
task whoever else loops. For `AgentCallsReturn` statements end, the loop over the
messages goes on, and `asyncio.Lock` serves its waiters in turn (strong fairness of
an assignment). For `RequestsEnd` the POST ends with the time-out of the HTTP session,
and the wait of a request in `Timed` at the latest with its own. By default a request
has none (`transport/base.py:96`) and may wait for ever; neither the server, nor a
reconnection, nor a reader has to do anything.

## Proofs

TLAPS proves the following for every value of the constants allowed by the named
assumptions (`MaxConcurrentAssumption`, `SessionAssumption`, `ShutdownAssumption`,
`CacheAssumption` and so on, all evaluated by TLC in the runs). They say that
limits and bounds are natural numbers, that "nobody" values are not members of
the set they extend, and what the code's own constructors guarantee; two say that
a set is not empty (`Server # {}`, `TKey # {}`: with no server or no key there is
nothing to speak of).

| theorem | says | argument |
|---|---|---|
| **SessionManager_proofs** `TypeCorrect`, `PoolInvariant`, `Capacity` | the types; PoolInv; at most MaxConcurrent sessions | `CapacityBound` alone is not inductive: `Discovered` inserts after an await. `PoolInv` adds that the creator inside the block is the lock holder and still has room (`LockDiscipline`), and that a call that has no session object has left no trace (`Unborn`) |
| `PoolRefinement` | SessionManager implements SessionPool | every step is `Admit`, `Release` or a stutter of the table; `Unborn` shows that what is admitted was never there before |
| `Accounted`, `Verdicts` | AccountInv: what is active is tracked, a live process outside the table was told to end; VerdictInv: what CANCELLED and COMPLETED promise | both follow from `SessionInv`: a session before its spawn has no process (`NotSpawned`), what is active is in the table (`ActiveIsKept`), who waits for an exit has signalled (`WaitsForExit`), a stream task has a process (`StreamHasProcess`), a verdict CANCELLED is set only with its process gone or its stream joined (`CancelledIsOver`), and the shutdown is at rest where it says so. Lemmas on tearing a session down serve cancel, monitor and shutdown alike |
| `VerdictIsFinal` | the action property VerdictStands | each action that assigns a state, from `SessionInv` |
| **EventBus_proofs** `TypeCorrect`, `NotStranded` | NoStranding: `_processing` has a live processor behind it; a queued event has a processor | the two need each other: an event is queued either with a processor created for it or because the flag was up; what the shutdown has done excuses the rest |
| `OnceOnly` | DeliveryInv: no handler gets an event twice, handlers are awaited, recipients are present subscriptions when their tasks are created | `OnceInv` adds where an event may be: once in the queue or with one processor (`QueuePart`, `HeldPart`), and that nobody was called with it before (`CallsPart`). Lemma `BusRests` covers the steps that only end processors or tasks |
| **CheckpointManager_proofs** `StoreTypeCorrect`, `Durability` | when the lock is free, index ⊆ index.json | `LockInv`: a worker is in a saving step exactly while it holds the lock, and what is not on disk is being saved by the holder |
| `Intact` | under `Quiet` (gc alone, no shared content) what is indexed is intact | a hash being written is written by one worker and not in the index; nothing sweeps meanwhile |
| `CheckpointTypeCorrect`, `HeadIsSet` | the types; HEAD is unset only when no checkpoint is left | without any assumption on the schedule: `CallInv` says which call of the manager owns each call of the storage, and that a restore names one checkpoint |
| `ManagerUsesStore` | the manager implements the specification of the storage | each action is an action of the storage, or leaves it alone; with it `Durability` and `Intact` hold of the composition |
| `CheckpointsAreComplete`, `RestoresAreIntact` | under `Quiet`, every file of a checkpoint is indexed and intact; a restore that moved HEAD has read all of it | on top of `QuietInv`: the files of the living checkpoints are indexed, in memory and on the disk (`FilesIndexed`), gc removes only what is outside (`GCKeeps`), a create has stored what it has passed (`CreateStored`), a restore has read what it has passed (`RestoreRead`) |
| `HistoryRefinement` | under `Quiet`, CheckpointManager implements CheckpointHistory | under `CheckpointInv` the mapping leaves no checkpoint out (`AllWhole`), so all steps of the storage are stutters and what only ends an answer is `Forget` (`Silent`); the return of the last file is `Save` or `Restore`. `NamesKnown` adds that HEAD and the parents name what is or was there, `CallsOpen` that a call under way has no result yet |
| **Tables_proofs** `TableSafe` | TableInv: the types, the pid table names records of its pids, a live record is found by its pid, a registered process that lives has a committed active row | `LiveIsRecorded` needs that the uncommitted rows are right already: `LiveRows` says so, `CallInv` what each call relies on while the lock is held, `RecordInv` that only a record whose process is gone becomes inactive. One lemma per conjunct, one step per action |
| `McpSafe` | McpInv: who shares a lock is inside one at a time; under its first lock a server has no transport without its connection | locks are told apart by number, and there is room for a number per call (`LockRoom`); `OneInside` is mutual exclusion per lock, `LockKnown` that the servers known are those with a lock, `LoopsHome` that a loop works on its own server; `Attached` what a connection that is in the table has, `LockHeld` who is between the two tables |
| **Runtime_proofs** `LifeSafe` | transitions do not overlap; running is watched; stopped is released | `Watching` ties the health task to RUNNING (there is none without a `health_check_interval`) and says it has ended when `stop()` is past its join |
| `ShutdownSafe` | phases and dependencies are kept; complete means all | `ProgressInv` says which handlers have been called at each point of the execution; lemma `Entering` is the step to the next non-empty phase |
| `RegistrySafe`, `RuntimeSafe` | the registry keeps its types; the run's TypeOK, with the invariants of both others | `Held` says what each party holds a pid for while it is between its look and its action; the composition takes the steps of one module at a time |
| **Services_proofs** `HookSafe` | no hook runs twice at once, the names that run are those of executions under way, limits and index | `HookInv` alone does not survive a cancellation or the end of an execution: `CallPart` adds that who waits for an execution waits for one that is there, and that no two callers wait for the same. What a step does to the executions and to the calls are lemmas (`ExecBegins`, `ExecOver`, `CallsShed`, ...) that the actions share |
| `AgentSafe` | no agent has two tasks, the rows differ from memory only where a save failed, a stop that ends leaves everybody offline, a message is in one place | an agent is chosen exactly while its caller saves under the lock; the message in hand is not in the queue any more, which needs that no two entries of the queue are of one message |
| **MCStores_proofs** `RingSafe`, `RingImplementsQueue` | the positions agree; the ring is a queue of bytes | `Stored`, the bytes from the read position on, is the queue: `write` appends to it whichever of its branches is taken, `read` takes its first bytes, and `peek` changes nothing; the branches that wrap around are one lemma each about positions |
| `StreamsSafe` | StreamsInv: a line that ended is handled once, in its order and, unless text was torn, as it was written; the answers are the messages; the ring's positions agree | the text of two chunks read one after the other is the texts of the two, with the last piece of the first and the first of the second joined (`PiecesConcat`, by induction over the bytes of the second), and the text of joined bytes is the joined texts unless the first ends within a character (`DecodedConcat`), which then shows as a "?" (`DecodedEnds`). `LineIInv` adds that what is waiting in `partial` has none while nothing is torn, and that the answers and the messages are as many until the stream ends |
| `RequestsSafe` | TransportInv: who waits for an answer is in the table, a closed transport holds nobody, a connected one has a reader | `LinkInv` ties the state of the link to where the SSE task is; a call that is past its time-out has a settled future (`ExpiredIsSettled`) |
| `ProcessesSafe` | MonitorInv, UpkeepInv: nobody is announced dead before the row says so, no record is lost, pid files go with the table, whatever the loops do between the steps of the calls; only rows of processes that have ended are deleted, and none of them is called valid | `AnnouncedIsOver`, `RoundInv` and `EndIsSaved` say what a round of the monitor has in hand, `CallInv` what the call with the lock has; a round's steps share one lemma (`RoundGoesOn`). Of the upkeep, `EventsFirst` says that an orphan is logged in the transaction from the moment it is marked, `EndedIsFound` that a validation of an ended process has its error from the look at the process on |
| `CommandsSafe` | SlashInv, BinaryInv: registry and executor agree with themselves, a search that nothing disturbed holds an executable that works | an alias stands for a command that is there (`AliasStands`); `ChosenByStrategy` and `PassedEarlier` say what the strategies before the present one have answered |
| **Storage_proofs** `CachesSafe` | CacheInv, TieredInv: the totals are those of the entries, within the limits; an answer is the last value or one that a crash brought back; a session has a copy somewhere, unless its write-backs overlapped or one failed | `Holding` relates order, entries and totals, and `Saved` says the same of the file, so that a start may load it; `SavedLast`, `HeldLast` follow the value stored last through save, crash and load. In the tiered cache `MemoryKept` is what an eviction does: who goes is being written, who stays is there; `Undisturbed` says that the write-backs of a key that is not `spoiled` have the temporary file one after the other, so that what is renamed is what was written |
| `EvictionInOrder` | CacheEvictsOldest, an action property: the order of use is kept, and what `set()` evicts is what has been unused longest | removing keys keeps the order of the others (`OnlyInOrder`), appending a key puts it last (`AppendOrder`), an eviction cuts the sequence in two (`SplitOrder`); from these, one lemma says what `set()` leaves (`LeftBySet`). Two facts must be invariant besides `CacheIInv` (`CacheResting`): a process that does not serve holds nothing, and no value is newer than the last |
| `FilesSafe` | MetricsInv, TimelineInv, LastOneWins | an entry is somewhere at every moment (`Somewhere`): `InHand`, `FilesHold`, `Apart` and `CopiesAgree` say what the two tasks hold and that they do not hold the same file. In the timeline a branch has its entry and its tag (`HeadsHaveEvents`, `HeadsAreTagged`) and the files are current; that the answer is the nearest common ancestor, and that the last source that decides gives the value, are facts about recursive functions, see below |

Recursive functions. The invariants of the caches, the files and the streams are
about functions defined by recursion over a sequence or a line of ancestors
(`OnlyIn`, `AncestorLine`, `Merge`, `Pieces`, `Decoded`). The library's induction theorems are not usable here, as they take
an operator as a parameter; lemmas `LeastNumber` and `Induction` say the same of sets
of numbers, and follow from the theorem that a well-founded relation has minima.
A lemma about a recursive function then has three parts: the function exists
(the set of lengths up to which it can be defined has 0 and with each number
the next), it is what its definition says, and each element has what is claimed
of it (the same set, again). `Recursion` and `Determined` are the first two parts for
any step, `SeqInduction` is the induction over the length of a sequence: a set that
has the empty one, and with each all that are longer by one element, has all. The bytes of a cache are counted as the cardinality of a set of
pairs, which makes the totals a fact about finite sets.

Only model-checked: every liveness property (TLAPS has no support for ENABLED and
fairness here) and the violations.

## Findings

Each is a violation run; the property quotes what the repository says.

* `session_shutdown_misses`: `_shutdown_sessions` ("Cancel all running sessions",
  `managers/session.py:787`) takes no lock. A session that is CREATED is skipped,
  one that is STARTING is cancelled and then set to RUNNING by `_start_session`:
  either runs after the shutdown has returned.
* `bus_priority`: the handlers cache is keyed by name and category, so the
  recipients computed for a high priority receive a low one ("priority_min:
  Minimum priority level", `utils/notifications.py:157`).
* `checkpoint_gc_race`: `gc()` ("Garbage collect unreferenced content",
  `checkpoint/checkpoint.py:417`) removes content of a checkpoint that is being
  created, because the checkpoint is entered only after its last file.

## Further divergences

Found on the way and not among the runs. The property is stated in the module, with
the code it is about; in a configuration of the module's run, in place of the
properties there, TLC finds each of them violated.

| module | property | what happens |
|---|---|---|
| SessionManager | `CancelledIsFinal` | a session cancelled while its process is being spawned is CANCELLED, then RUNNING |
| SessionManager | `FailedCreateLeavesNothing` | with a real `StreamWriter` (`WriteIsAwaitable` FALSE), `await stdin.write()` awaits None: `create_session` raises and leaves process and stream task running |
| SessionManager | `FailedIsCleaned` | a session whose start failed has no `end_time`, so the monitor never frees its slot |
| EventBus | `SingleProcessor` | two emits before the first processor runs start two |
| EventBus | `ShutdownEndsProcessors` | only the last processor is cancelled |
| EventBus | `MatchingIsDelivered` | the recipients cached for an event below its priority_min make a subscriber miss the later ones above it (`utils/notifications.py:365`); a `filter_func` that raises keeps an event from everybody (`:120`) |
| EventBus | `NoneAfterLeaving` | a handler whose task was created starts after `unsubscribe()` has returned (`utils/notifications.py:344`) |
| ContentStore | `StoredStaysIntact` | with two workers storing one content (`SharedContent`), a crash leaves an indexed, truncated object |
| ContentStore | `HealedIsMissing` | `retrieve` drops the entry of a file that was written since it looked |
| CheckpointManager | `CheckpointComplete` | a crash during gc leaves index.json naming removed files, which a later create takes for a dedup hit (a gc that may run beside others, and a crash) |
| CheckpointManager | `RestoreIsWhole` | `if content:` drops empty files from a restore (and `cas.py:161` divides by zero when it logs their ratio) |
| CheckpointManager | `HeadIsLive` | HEAD may become the id of a deleted checkpoint |
| ProcessTable | `ActiveAreLoaded` | a start loads none of the active rows: "Load active processes from database." (`managers/process.py:1238`) takes column 12 for `created_at`, which is `pid_info` and never written (`:1261`), and what that raises is logged (`:1272`) |
| ProcessTable | `DetectsReuse` | a process whose pid is in the table is answered with the record of the process that had the pid before: the reuse is never detected |
| ProcessTable | `SignalsItsOwn` | `terminate_process` signals the pid's group after an await, or after the 10 s wait, whoever has the pid by then |
| ProcessMonitor | `OrphansAreAnnounced` | the resource loop marks a record orphaned first, and the monitor passes it over: no event (`managers/process.py:1456`) |
| ProcessMonitor | `FoundByItsPid` | an old record that is dropped takes the pid entry of the new one with it (`managers/process.py:1476`) |
| ProcessUpkeep | `NothingLeftOpen`, `DeletionsAreCounted` | a clean-up that deleted a row fails before its commit: the deletion waits for somebody else's commit, and is not counted; a validation leaves a transaction begun |
| ProcessUpkeep | (`SaveResult`) | "Store validation result in database" (`managers/process.py:2731`): it never is, the INSERT lacks `created_at` and the error is swallowed (`:2778`) |
| ProcessRegistry | `HealthyIsKept` | a row judged dead is removed after it was stored again for the new process |
| ProcessRegistry | `SessionIsKept` | a process that is tracked while the cleaner looks for orphans is stored again as `orphan_<pid>` |
| ShutdownManager | `DrainWaits` | two requests on one manager: the first that ends makes the drain miss the other |
| ManagerLifecycle | `RecoveryRestarts` | a recovery never restarts the manager (`managers/base.py:343`): its `stop()` awaits the task it runs in, and ends in ERROR with the connection open (CPython), or in STOPPED, where `initialize()` raises (a Task in Python); either way the health task is gone, so `max_recovery_attempts` is never used up |
| HookEngine | `SucceedsOnce` | an attempt that succeeds raises AttributeError (`notify()`), is taken for a failure and tried again |
| AgentManager | `BusyIsExecuting` | `assign_task` leaves its agent BUSY for ever, without an execution (`managers/agent.py:518`) |
| Transport | `ReaderSurvives` | the answer to a request that was cancelled, or has just timed out, raises InvalidStateError in who reads the messages |
| McpServers | `ConnectionIsKnown` | a server removed while it is being connected keeps its connection |
| McpServers | `ConnectedHasTransport` | a health loop that disconnects cancels itself (`managers/mcp_server.py:621`) and ends with the connection in the table and the transport gone |
| McpServers | `OneChecker` | a loop that survives that goes on beside the one its reconnection has started |
| LineStream | `LinesAreWritten` | a chunk without a line end overwrites the partial line (`streaming/buffer.py:157`); a character cut by a chunk is replaced |
| SlashCommands | `NameIsOne` | a name that is an alias is accepted as a command, and stands for it from then on |
| SlashCommands | `CancelStands` | `cancel_execution` says it did it; the execution goes on and ends as it would have |
| TieredCache | `CopySurvives` | two write-backs of a session share `<key>.tmp`: the one that closes first renames what the other has just emptied (`storage/cache.py:499`); one that fails in its task is heard of by nobody (`:517`). The session is gone |
| MetricsFiles | `EntriesAreKept` | with `Careless`: the cleaner takes the file that is being written, and entries go with it |
| BinaryManager | `FailureMeansNone` | "SystemError: If no binary found" (`managers/binary.py:263`) is raised with a validated executable in the cache, because it could not be saved |
| Timeline | `TagsAreHeads` | a branch that a checkpoint moved is listed at both until the next start |
| Timeline | `HistoryIsOfAncestors` | `_is_ancestor` is a placeholder: the history holds entries of other lines |
| Timeline | `EntriesSurvive` | a file torn by a stop is read as empty, and the next call writes that over it |
| ConfigLoader | `HigherWins` | sources are merged from the highest priority down, so the lowest wins (`utils/config.py:220`: "higher wins") |
| ConfigLoader | `OneObserver` | every load starts another observer of each file |

Besides:

* `EventBus` has no `notify()`, so `create_checkpoint` and `restore_checkpoint` raise
  AttributeError after they have done their work (`checkpoint/checkpoint.py:195`);
  the models describe the work.
* `cleanup_stale_sessions` of the session cache does not subtract the bytes of what it
  removes, and a crash brings back entries that were deleted after the last save
  (`revived` in `CacheInv` allows for it).
* `remove_session` of the storage cache pops an entry through the eviction path, whose
  write-back then puts the session on the disk again (`storage/cache.py:451`).
* The actions of a hook overwrite `action.config` (`hooks/engine.py:696`); the reload
  of a hook file that has become invalid drops the hook (`hooks/registry.py:313`).
* A request to all agents raises TypeError for the first that is available
  (`managers/agent.py:823`).
* Two handlers of the stream processor never do what they are for: one branch cannot
  be reached (`streaming/processor.py:217`), one reads a name that is only bound
  further down (`streaming/processor.py:387`).
* Every slash command but a dry run ends in NameError (`slash_commands/registry.py:250`).
* `SHANNON_LOG_LEVEL` (`README.md:988`) sets a key `log.level` that nothing reads, and
  `_reload` is never run (`utils/config.py:505`).

## What is not modelled

* Sessions: cancellation of a `create_session` call by its own caller;
  `send_message`, which appends to data no property is about, and the rows of
  messages, which every save inserts again.
* The history of the bus (a bounded list that is only read); weak references (they
  hold their handler strongly here, so they never expire).
* A failing write of index.json (`checkpoint/cas.py:146`): the entry is in memory
  then, its store raises, and a later store of the same content finds it there, not
  durable as long as no other store saves the index. So `IndexIsDurable` is about
  crashes, not about a disk that is full.
* The `parent_id` a caller may give (any name, `checkpoint/checkpoint.py:159`) and a
  checkpoint without files (`:143`): parents are HEAD, every checkpoint has a file.
* Refs of checkpoints, diffs and listings; a crash between the file of a checkpoint
  and HEAD, which are written in one step of the loop but two of the disk.
* Processes: trends, alerts and system metrics, which are reports; pid reuse between
  `os.kill(pid, 0)` and the psutil look in one step of `register_process`. In the
  registry: zombies, the messages between processes and their history, the
  resource monitor, and a process that ends while `find_claude_processes` looks at
  it, which raises and so ends that search for the others
  (`registry/tracker.py:265`); the next round repeats it.
* `unregister_component` (no caller); signal handlers, which only call `shutdown()`.
* Hooks: the content of hook files, templates, the sandbox, and what the actions do
  beyond succeeding or failing.
* Agents: their discovery on GitHub; completion, failure, progress, collaboration and
  metrics work on executions, which cannot exist.
* The two stdio transports (their constructors raise); the HTTP transport beyond its
  connection; tool calls and the discovery and import of MCP configurations.
* Commands: parsing, permissions, rate limits (nothing is ever recorded for them) and
  what a handler does (none is called).
* Analytics: aggregation, export and reports only read what was written. Of the
  retention only the age is modelled: KEEP_SIZE and KEEP_COUNT
  (`analytics/cleaner.py:322`) choose files whatever their age.
* Timeline: `add_checkpoint` checks neither that the id is new nor that the parent is
  recorded (`checkpoint/timeline.py:92`). That both are so is a condition on its
  caller, which `AddCheckpoint` has as its guard.
* BinaryInv speaks of what a search finds, not of a cached executable that is
  returned within its `cache_timeout` and has been broken since.
* The requests of users to an MCP server (`managers/mcp_server.py:752`), which change
  nothing but the count of errors that the failed pings are also counted in.
* The update check and the parsing of versions; the fields of the configuration and
  the conversion of their values.
* The readers of `streaming/reader.py` and `read_until_line`, which nobody calls.
* `utils/errors.py` and `utils/logging.py`: text, and wrappers that convert an error or
  try again; they keep no state.
* `server.py`: it calls `initialize` and `stop` of one manager after the other, and its
  tools call one operation each.

## How to run

In this directory, `tlc -config EventBus_bus.cfg MCEventBus` and the like run
one configuration (`PROJECT.json` lists module and configuration of every run);
`tlapm EventBus_proofs.tla` checks the proofs of a module.
