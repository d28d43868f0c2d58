------------------------------ MODULE EventBus ------------------------------
(***************************************************************************)
(* The event bus (utils/notifications.py): emit() queues an event and      *)
(* starts a processor task when it believes none runs; a processor takes   *)
(* events one by one, calls the matching handlers and ends after an idle   *)
(* second.  Steps are the stretches of a coroutine between two awaits that *)
(* really suspend; put() on the unbounded queue does not.                  *)
(*                                                                         *)
(* One event name and category, that is one key of _handlers_cache.  An    *)
(* event is the number of its emission, and so is the processor that the   *)
(* emission started.  wait_for() is a synchronous subscriber.  weak_ref    *)
(* subscriptions hold their handler strongly, and so never expire.         *)
(***************************************************************************)
EXTENDS Naturals, Sequences, FiniteSets

CONSTANTS
    MaxEvents,   \* bound on the number of emissions
    Sub,         \* the subscriptions that are ever made
    SyncSub,     \* those whose handler is a plain function
    Urgent,      \* those with priority_min above the lowest priority
    Faulty,      \* those with a filter_func that may raise
    Priorities   \* the priorities events are emitted with: "low", "high"

ASSUME MaxEventsAssumption == MaxEvents \in Nat
ASSUME SubAssumption == SyncSub \cup Urgent \cup Faulty \subseteq Sub
ASSUME PrioritiesAssumption == Priorities \subseteq {"low", "high"}

VARIABLES
    emitted,     \* how many events were emitted
    priority,    \* the priority of each emitted event
    queue,       \* _event_queue
    processing,  \* _processing
    lastProc,    \* _processor_task, 0 for None
    proc,        \* the processor tasks
    current,     \* the event a processor has taken
    pending,     \* handler tasks of a processor that have not started
    running,     \* handler tasks of a processor that have
    subs,        \* _subscriptions
    retired,     \* subscriptions that were made and removed
    cache,       \* _handlers_cache of the key: <<>> or <<set>>
    calls,       \* how often each handler was called with each event
    dropped,     \* history: the events whose dispatch a filter_func ended
    closing,     \* shutdown(): "idle", "joining", "done"
    awaited      \* the processor task shutdown() awaits, 0 for none

procVars == <<proc, current, pending, running>>
subVars  == <<subs, retired, cache>>
callVars == <<calls, dropped>>
closeVars == <<closing, awaited>>
vars == <<emitted, priority, queue, processing, lastProc, procVars, subVars, callVars, closeVars>>

Event == 1 .. MaxEvents
Proc  == Event
Live  == {"created", "waiting", "taken", "dispatching"}

\* What the queue, the processors and the subscriptions of the bus may hold.
TypeOK ==
    /\ emitted \in 0 .. MaxEvents
    /\ priority \in [Event -> {"low", "high"}]
    /\ queue \in Seq(Event)
    /\ processing \in BOOLEAN
    /\ lastProc \in {0} \cup Proc
    /\ proc \in [Proc -> {"none", "ended"} \cup Live]
    /\ current \in [Proc -> {0} \cup Event]
    /\ pending \in [Proc -> SUBSET Sub] /\ running \in [Proc -> SUBSET Sub]
    /\ subs \subseteq Sub /\ retired \subseteq Sub
    /\ cache \in {<<>>} \cup {<<c>> : c \in SUBSET Sub}
    /\ calls \in [Event -> [Sub -> Nat]]
    /\ dropped \subseteq 0 .. MaxEvents
    /\ closing \in {"idle", "joining", "done"}
    /\ awaited \in {0} \cup Proc

Init ==
    /\ emitted = 0
    /\ priority = [e \in Event |-> "low"]
    /\ queue = <<>>
    /\ processing = FALSE
    /\ lastProc = 0
    /\ proc = [p \in Proc |-> "none"]
    /\ current = [p \in Proc |-> 0]
    /\ pending = [p \in Proc |-> {}] /\ running = [p \in Proc |-> {}]
    /\ subs = {} /\ retired = {} /\ cache = <<>>
    /\ calls = [e \in Event |-> [s \in Sub |-> 0]] /\ dropped = {}
    /\ closing = "idle" /\ awaited = 0

Matches(s, e) == s \in Urgent => priority[e] = "high"
Matching(e) == {s \in subs : Matches(s, e)}

\* _get_matching_subscriptions: the key does not hold the priority
Recipients(e) == IF cache # <<>> THEN cache[1] ELSE Matching(e)

-----------------------------------------------------------------------------
Subscribe(s) ==
    /\ s \notin subs \cup retired
    /\ subs' = subs \cup {s}
    /\ cache' = <<>>
    /\ UNCHANGED <<emitted, priority, queue, processing, lastProc, procVars, retired, callVars, closeVars>>

\* Mutant: the cache survives.
UnsubscribeKeepsCache(s) ==
    /\ s \in subs
    /\ subs' = subs \ {s} /\ retired' = retired \cup {s}
    /\ UNCHANGED <<emitted, priority, queue, processing, lastProc, procVars, cache, callVars, closeVars>>

Unsubscribe(s) ==
    /\ s \in subs
    /\ subs' = subs \ {s} /\ retired' = retired \cup {s}
    /\ cache' = <<>>
    /\ UNCHANGED <<emitted, priority, queue, processing, lastProc, procVars, callVars, closeVars>>

\* Mutant: a processor is started only when none was ever started.
EmitStartsOnce ==
    \E p \in Priorities :
        /\ emitted < MaxEvents
        /\ emitted' = emitted + 1
        /\ priority' = [priority EXCEPT ![emitted'] = p]
        /\ queue' = Append(queue, emitted')
        /\ IF lastProc # 0 THEN UNCHANGED <<lastProc, proc>>
           ELSE /\ lastProc' = emitted'
                /\ proc' = [proc EXCEPT ![emitted'] = "created"]
        /\ UNCHANGED <<processing, current, pending, running, subVars, callVars, closeVars>>

\* emit(), and emit_sync() when the task it creates runs.  The flag is set by
\* the processor when it first runs, not here.
Emit ==
    \E p \in Priorities :
        /\ emitted < MaxEvents
        /\ emitted' = emitted + 1
        /\ priority' = [priority EXCEPT ![emitted'] = p]
        /\ queue' = Append(queue, emitted')
        /\ IF processing THEN UNCHANGED <<lastProc, proc>>
           ELSE /\ lastProc' = emitted'
                /\ proc' = [proc EXCEPT ![emitted'] = "created"]
        /\ UNCHANGED <<processing, current, pending, running, subVars, callVars, closeVars>>

-----------------------------------------------------------------------------
(* _process_events and _dispatch_event *)

\* Mutant: a state of its own for a processor that runs.
StartRunning(p) ==
    /\ proc[p] = "created"
    /\ proc' = [proc EXCEPT ![p] = "running"]
    /\ processing' = TRUE
    /\ UNCHANGED <<emitted, priority, queue, lastProc, current, pending, running, subVars, callVars, closeVars>>

Start(p) ==
    /\ proc[p] = "created"
    /\ proc' = [proc EXCEPT ![p] = "waiting"]
    /\ processing' = TRUE
    /\ UNCHANGED <<emitted, priority, queue, lastProc, current, pending, running, subVars, callVars, closeVars>>

\* Mutant: the event is looked at, and removed by whoever dispatches it.
TakePeeks(p) ==
    /\ proc[p] = "waiting" /\ queue # <<>>
    /\ proc' = [proc EXCEPT ![p] = "taken"]
    /\ current' = [current EXCEPT ![p] = Head(queue)]
    /\ queue' = IF \E q \in Proc \ {p} : current[q] = Head(queue) THEN Tail(queue) ELSE queue
    /\ UNCHANGED <<emitted, priority, processing, lastProc, pending, running, subVars, callVars, closeVars>>

\* wait_for() runs get() in a task of its own: the event leaves the queue
\* before the processor resumes with it.
Take(p) ==
    /\ proc[p] = "waiting" /\ queue # <<>>
    /\ proc' = [proc EXCEPT ![p] = "taken"]
    /\ current' = [current EXCEPT ![p] = Head(queue)]
    /\ queue' = Tail(queue)
    /\ UNCHANGED <<emitted, priority, processing, lastProc, pending, running, subVars, callVars, closeVars>>

\* Handlers that are plain functions are called here; the others get tasks,
\* which gather() awaits if there are any.
Dispatch(p) ==
    /\ proc[p] = "taken"
    /\ LET e     == current[p]
           to    == Recipients(e)
           tasks == to \ SyncSub
       IN /\ cache' = <<to>>
          /\ calls' = [calls EXCEPT ![e] = [s \in Sub |->
                          IF s \in to \cap SyncSub THEN @[s] + 1 ELSE @[s]]]
          /\ pending' = [pending EXCEPT ![p] = tasks]
          /\ proc' = [proc EXCEPT ![p] = IF tasks = {} THEN "waiting" ELSE "dispatching"]
    /\ UNCHANGED <<emitted, priority, queue, processing, lastProc, current, running, subs, retired, dropped, closeVars>>

\* A filter_func raises, which only the processor catches: nobody gets the event.
DispatchRaises(p) ==
    /\ proc[p] = "taken" /\ cache = <<>>
    /\ \E s \in subs \cap Faulty : Matches(s, current[p])
    /\ dropped' = dropped \cup {current[p]}
    /\ proc' = [proc EXCEPT ![p] = "waiting"]
    /\ UNCHANGED <<emitted, priority, queue, processing, lastProc, current, pending, running, subVars, calls, closeVars>>

HandlerStarts(p, s) ==
    /\ s \in pending[p]
    /\ pending' = [pending EXCEPT ![p] = @ \ {s}]
    /\ running' = [running EXCEPT ![p] = @ \cup {s}]
    /\ calls' = [calls EXCEPT ![current[p]][s] = @ + 1]
    /\ UNCHANGED <<emitted, priority, queue, processing, lastProc, proc, current, subVars, dropped, closeVars>>

\* The handler returns or raises; _call_async_handler swallows the exception.
HandlerEnds(p, s) ==
    /\ s \in running[p]
    /\ running' = [running EXCEPT ![p] = @ \ {s}]
    /\ UNCHANGED <<emitted, priority, queue, processing, lastProc, proc, current, pending, subVars, callVars, closeVars>>

\* Mutant: the processor goes on when the first handler is done.
GatheredEarly(p) ==
    /\ proc[p] = "dispatching" /\ pending[p] = {}
    /\ proc' = [proc EXCEPT ![p] = "waiting"]
    /\ UNCHANGED <<emitted, priority, queue, processing, lastProc, current, pending, running, subVars, callVars, closeVars>>

Gathered(p) ==
    /\ proc[p] = "dispatching"
    /\ pending[p] = {} /\ running[p] = {}
    /\ proc' = [proc EXCEPT ![p] = "waiting"]
    /\ UNCHANGED <<emitted, priority, queue, processing, lastProc, current, pending, running, subVars, callVars, closeVars>>

\* Mutant: the flag is left alone.
IdleOutKeepsFlag(p) ==
    /\ proc[p] = "waiting" /\ queue = <<>>
    /\ proc' = [proc EXCEPT ![p] = "ended"]
    /\ UNCHANGED <<emitted, priority, queue, processing, lastProc, current, pending, running, subVars, callVars, closeVars>>

\* Mutant: the processor ends after its second without looking at the queue.
IdleOutBlindly(p) ==
    /\ proc[p] = "waiting"
    /\ proc' = [proc EXCEPT ![p] = "ended"]
    /\ processing' = FALSE
    /\ UNCHANGED <<emitted, priority, queue, lastProc, current, pending, running, subVars, callVars, closeVars>>

\* A second without an event, and the queue still empty.
IdleOut(p) ==
    /\ proc[p] = "waiting" /\ queue = <<>>
    /\ proc' = [proc EXCEPT ![p] = "ended"]
    /\ processing' = FALSE
    /\ UNCHANGED <<emitted, priority, queue, lastProc, current, pending, running, subVars, callVars, closeVars>>

-----------------------------------------------------------------------------
(* shutdown() *)

\* What is left to do once the task has ended; the queue is not cleared.
Clear ==
    /\ closing' = "done"
    /\ subs' = {} /\ retired' = retired \cup subs
    /\ cache' = <<>>

\* The last processor is cancelled, and with it the handlers it gathers.  One
\* that never ran ends without its `finally`.  A processor that holds an event
\* it has not resumed with loses it (Python 3.12), or ignores the cancellation
\* (wait_for of Python 3.11).  Awaiting a task that has ended does not suspend.
BeginShutdown ==
    /\ closing = "idle"
    /\ awaited' = lastProc
    /\ \/ /\ lastProc = 0 \/ (lastProc # 0 /\ proc[lastProc] = "ended")
          /\ Clear
          /\ UNCHANGED <<processing, procVars>>
       \/ /\ lastProc # 0 /\ proc[lastProc] = "taken"
          /\ closing' = "joining"
          /\ UNCHANGED <<processing, procVars, subVars>>
       \/ /\ lastProc # 0 /\ proc[lastProc] \in Live
          /\ closing' = "joining"
          /\ processing' = IF proc[lastProc] = "created" THEN processing ELSE FALSE
          /\ proc' = [proc EXCEPT ![lastProc] = "ended"]
          /\ pending' = [pending EXCEPT ![lastProc] = {}]
          /\ running' = [running EXCEPT ![lastProc] = {}]
          /\ UNCHANGED <<current, subVars>>
    /\ UNCHANGED <<emitted, priority, queue, lastProc, callVars>>

EndShutdown ==
    /\ closing = "joining" /\ proc[awaited] = "ended"
    /\ Clear
    /\ UNCHANGED <<emitted, priority, queue, processing, lastProc, procVars, callVars, awaited>>

-----------------------------------------------------------------------------
Step(p) ==
    \/ Start(p) \/ Take(p) \/ Dispatch(p) \/ DispatchRaises(p) \/ Gathered(p)
    \/ \E s \in Sub : HandlerStarts(p, s) \/ HandlerEnds(p, s)

Next ==
    \/ Emit
    \/ \E s \in Sub : Subscribe(s) \/ Unsubscribe(s)
    \/ \E p \in Proc : Step(p) \/ IdleOut(p)
    \/ BeginShutdown \/ EndShutdown

Spec == Init /\ [][Next]_vars

\* The loop runs every ready task, and handlers return.
FairSpec == Spec /\ \A p \in Proc : WF_vars(Step(p))

-----------------------------------------------------------------------------
\* Emit starts a processor only when the flag is down, so a flag left up by a
\* processor that has ended would strand every later event, however many
\* processors were started in between.
FlagHasProcessor ==
    processing => \E p \in Proc : proc[p] \in {"waiting", "taken", "dispatching"}

\* Until the bus is shut down, an event in the queue has a processor to take
\* it, although processors end on their own and clear each other's flag.
QueuedHasProcessor ==
    queue # <<>> /\ closing = "idle" => \E p \in Proc : proc[p] \in Live

\* No event is stranded.  The two halves are inductive together: the flag has a
\* processor behind it, so an emit that starts none leaves the queue with one.
NoStranding == FlagHasProcessor /\ QueuedHasProcessor

\* However many processors run, a handler gets an event at most once.
AtMostOnce == \A e \in Event, s \in Sub : calls[e][s] <= 1

\* A processor hands out one event after the other: while it waits for the
\* next one no handler of the previous one is running.
HandlersJoined ==
    \A p \in Proc : proc[p] # "dispatching" => pending[p] = {} /\ running[p] = {}

\* The recipients cached for a key are present subscriptions: an event that is
\* dispatched after a subscription has left creates no task for it, although
\* the cache outlives the event it was computed for.  A task created before may
\* still start (NoneAfterLeaving).  (_get_matching_subscriptions)
OnlySubscribed == cache # <<>> => cache[1] \subseteq subs

\* What a subscriber may rely on, with several processors and a shutdown: no
\* event twice, no two at a time from one processor, none dispatched to it
\* after it has left.
DeliveryInv == AtMostOnce /\ HandlersJoined /\ OnlySubscribed

\* A subscriber that stays subscribed is called with every event that matches
\* it, unless the bus is shut down, a filter_func ends the dispatch of the
\* event, or it has a priority_min and the recipients may have been cached for
\* an event below that (MatchingIsDelivered).
DeliveredToSubscribers ==
    \A e \in Event, s \in Sub :
        (\E i \in 1 .. Len(queue) : queue[i] = e) /\ s \in subs /\ Matches(s, e)
            ~> \/ calls[e][s] > 0
               \/ s \notin subs \/ closing # "idle" \/ e \in dropped
               \/ s \in Urgent /\ \E f \in 1 .. emitted : priority[f] = "low"

\* "Dispatch event to subscribed handlers" (_dispatch_event): a subscriber that
\* stays is called with every event that matches it.
MatchingIsDelivered ==
    \A e \in Event, s \in Sub :
        (\E i \in 1 .. Len(queue) : queue[i] = e) /\ s \in subs /\ Matches(s, e)
            ~> calls[e][s] > 0 \/ s \notin subs \/ closing # "idle"

\* "Unsubscribe from events" (unsubscribe): no handler starts after it.
NoneAfterLeaving ==
    [][\A e \in Event, s \in Sub : calls'[e][s] # calls[e][s] => s \in subs]_vars

\* "Start processor if not running" (emit): there is one processor.
SingleProcessor == Cardinality({p \in Proc : proc[p] \in Live}) <= 1

\* "priority_min: Minimum priority level" (subscribe): a handler is called
\* only with events of at least that priority.
PriorityRespected ==
    \A e \in Event, s \in Sub : calls[e][s] > 0 => Matches(s, e)

\* "Cancel processor" (shutdown): no processor that was there when shutdown()
\* was called outlives it.
ShutdownEndsProcessors ==
    closing = "done" => \A p \in Proc : p <= awaited => proc[p] \notin Live
=============================================================================
