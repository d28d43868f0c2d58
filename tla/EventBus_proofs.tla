--------------------------- MODULE EventBus_proofs ---------------------------
(***************************************************************************)
(* No event is stranded in the queue of the event bus, for every number of *)
(* events and every set of subscriptions: the flag that keeps emit() from  *)
(* starting a processor always has a processor behind it.                  *)
(***************************************************************************)
EXTENDS EventBus, TLAPS

USE MaxEventsAssumption, SubAssumption, PrioritiesAssumption

\* A function stays in its type when a value of the range is assigned to a point.
LEMMA Overwrite ==
    ASSUME NEW D, NEW R, NEW f \in [D -> R], NEW d, NEW r, d \in D => r \in R
    PROVE  [f EXCEPT ![d] = r] \in [D -> R]
OBVIOUS

\* Type correctness of the bus.
THEOREM TypeCorrect == Spec => []TypeOK
<1>1. Init => TypeOK
  <2> SUFFICES ASSUME Init PROVE TypeOK OBVIOUS
  <2>1. queue \in Seq(Event) BY DEF Init
  <2>2. calls \in [Event -> [Sub -> Nat]] BY DEF Init
  <2>3. emitted \in 0 .. MaxEvents BY DEF Init
  <2>4. priority \in [Event -> {"low", "high"}] /\ proc \in [Proc -> {"none", "ended"} \cup Live]
    BY DEF Init
  <2>5. /\ current \in [Proc -> {0} \cup Event]
        /\ pending \in [Proc -> SUBSET Sub] /\ running \in [Proc -> SUBSET Sub]
    BY DEF Init
  <2> QED BY <2>1, <2>2, <2>3, <2>4, <2>5 DEF Init, TypeOK
<1>2. TypeOK /\ [Next]_vars => TypeOK'
  <2> SUFFICES ASSUME TypeOK, [Next]_vars PROVE TypeOK' OBVIOUS
  <2> USE DEF TypeOK, Live, Proc, procVars, subVars, callVars, closeVars
  <2>1. CASE Emit
    <3> PICK p \in Priorities : Emit!(p) BY <2>1 DEF Emit
    <3>1. emitted' \in Event BY DEF Event
    <3>2. queue' \in Seq(Event) BY <3>1
    <3>3. priority' \in [Event -> {"low", "high"}] BY <3>1
    <3>4. lastProc' \in {0} \cup Proc /\ proc' \in [Proc -> {"none", "ended"} \cup Live] BY <3>1
    <3>5. emitted' \in 0 .. MaxEvents BY DEF Event
    <3> QED BY <3>2, <3>3, <3>4, <3>5
  <2>2. ASSUME NEW s \in Sub, Subscribe(s) \/ Unsubscribe(s) PROVE TypeOK'
    BY <2>2 DEF Subscribe, Unsubscribe
  <2>3. ASSUME NEW p \in Proc, Step(p) PROVE TypeOK'
    <3>1. CASE Start(p) BY <3>1 DEF Start
    <3>2. CASE Take(p) BY <3>2 DEF Take
    <3>3. CASE Dispatch(p)
      <4>1. Recipients(current[p]) \in SUBSET Sub BY DEF Recipients, Matching
      <4>2. calls' \in [Event -> [Sub -> Nat]]
        <5> DEFINE to == Recipients(current[p])
                   row(e) == [s \in Sub |-> IF s \in to \cap SyncSub THEN calls[e][s] + 1 ELSE calls[e][s]]
        <5>1. \A e \in Event : row(e) \in [Sub -> Nat] OBVIOUS
        <5>2. calls' = [calls EXCEPT ![current[p]] = row(current[p])] BY <3>3 DEF Dispatch
        <5>3. current[p] \in Event => row(current[p]) \in [Sub -> Nat] BY <5>1
        <5> HIDE DEF row
        <5> QED BY <5>2, <5>3, Overwrite
      <4>3. cache' \in {<<>>} \cup {<<c>> : c \in SUBSET Sub} BY <3>3, <4>1 DEF Dispatch
      <4>4. pending' \in [Proc -> SUBSET Sub] BY <3>3, <4>1 DEF Dispatch
      <4>5. proc' \in [Proc -> {"none", "ended"} \cup Live] BY <3>3 DEF Dispatch
      <4> QED BY <3>3, <4>2, <4>3, <4>4, <4>5 DEF Dispatch
    <3>4. CASE Gathered(p) BY <3>4 DEF Gathered
    <3>5. ASSUME NEW s \in Sub, HandlerStarts(p, s) PROVE TypeOK'
      <4> DEFINE row(e) == [calls[e] EXCEPT ![s] = @ + 1]
      <4>1. \A e \in Event : row(e) \in [Sub -> Nat] OBVIOUS
      <4>2. calls' = [calls EXCEPT ![current[p]] = row(current[p])] BY <3>5 DEF HandlerStarts
      <4>0. current[p] \in Event => row(current[p]) \in [Sub -> Nat] BY <4>1
      <4>3. calls' \in [Event -> [Sub -> Nat]]
        <5> HIDE DEF row
        <5> QED BY <4>2, <4>0, Overwrite
      <4> QED BY <3>5, <4>3 DEF HandlerStarts
    <3>6. ASSUME NEW s \in Sub, HandlerEnds(p, s) PROVE TypeOK' BY <3>6 DEF HandlerEnds
    <3>7. CASE DispatchRaises(p)
      <4>1. current[p] \in 0 .. MaxEvents BY DEF Event
      <4>2. dropped' \subseteq 0 .. MaxEvents BY <3>7, <4>1 DEF DispatchRaises
      <4>3. proc' \in [Proc -> {"none", "ended"} \cup Live] BY <3>7 DEF DispatchRaises
      <4> QED BY <3>7, <4>2, <4>3 DEF DispatchRaises
    <3> QED BY <2>3, <3>1, <3>2, <3>3, <3>4, <3>5, <3>6, <3>7 DEF Step
  <2>4. ASSUME NEW p \in Proc, IdleOut(p) PROVE TypeOK' BY <2>4 DEF IdleOut
  <2>5. CASE BeginShutdown BY <2>5 DEF BeginShutdown, Clear
  <2>6. CASE EndShutdown BY <2>6 DEF EndShutdown, Clear
  <2>7. CASE UNCHANGED vars BY <2>7 DEF vars
  <2> QED BY <2>1, <2>2, <2>3, <2>4, <2>5, <2>6, <2>7 DEF Next
<1> QED BY <1>1, <1>2, PTL DEF Spec

\* _processing has a processor behind it, and until shutdown every queued event
\* has a processor that will take it.
THEOREM NotStranded == Spec => []NoStranding
<1>1. Init => NoStranding
  BY DEF Init, NoStranding, FlagHasProcessor, QueuedHasProcessor
<1>2. TypeOK /\ NoStranding /\ [Next]_vars => NoStranding'
  <2> SUFFICES ASSUME TypeOK, NoStranding, [Next]_vars PROVE NoStranding' OBVIOUS
  <2> USE DEF TypeOK, NoStranding, FlagHasProcessor, QueuedHasProcessor, Live, Proc,
              procVars, subVars, callVars, closeVars
  <2>1. CASE Emit
    <3> PICK p \in Priorities : Emit!(p) BY <2>1 DEF Emit
    <3>1. emitted' \in Event BY DEF Event
    <3>2. FlagHasProcessor'
      BY <3>1
    <3>3. \E q \in Proc : proc'[q] \in Live
      BY <3>1, <3>2
    <3> QED BY <3>2, <3>3
  <2>2. ASSUME NEW s \in Sub, Subscribe(s) \/ Unsubscribe(s) PROVE NoStranding'
    BY <2>2 DEF Subscribe, Unsubscribe
  <2>3. ASSUME NEW p \in Proc, Step(p) PROVE NoStranding'
    <3>1. CASE Start(p) BY <3>1 DEF Start
    <3>2. ASSUME proc[p] # "created", UNCHANGED <<processing, closing>>,
                 proc'[p] \in {"waiting", "taken", "dispatching"},
                 \A q \in Proc \ {p} : proc'[q] = proc[q]
          PROVE  NoStranding'
      BY <3>2
    <3>3. CASE Take(p) BY <3>2, <3>3 DEF Take
    <3>4. CASE Dispatch(p) BY <3>2, <3>4 DEF Dispatch
    <3>7. CASE DispatchRaises(p) BY <3>2, <3>7 DEF DispatchRaises
    <3>5. CASE Gathered(p) BY <3>2, <3>5 DEF Gathered
    <3>6. ASSUME NEW s \in Sub, HandlerStarts(p, s) \/ HandlerEnds(p, s) PROVE NoStranding'
      BY <3>6 DEF HandlerStarts, HandlerEnds
    <3> QED BY <2>3, <3>1, <3>3, <3>4, <3>5, <3>6, <3>7 DEF Step
  <2>4. ASSUME NEW p \in Proc, IdleOut(p) PROVE NoStranding' BY <2>4 DEF IdleOut
  <2>5. CASE BeginShutdown BY <2>5 DEF BeginShutdown, Clear
  <2>6. CASE EndShutdown BY <2>6 DEF EndShutdown, Clear
  <2>7. CASE UNCHANGED vars BY <2>7 DEF vars
  <2> QED BY <2>1, <2>2, <2>3, <2>4, <2>5, <2>6, <2>7 DEF Next
<1> QED BY <1>1, <1>2, TypeCorrect, PTL DEF Spec

-----------------------------------------------------------------------------
(* No subscriber is called twice with an event *)

Waits(e) == \E i \in DOMAIN queue : queue[i] = e

\* An event waits in the queue once, and no processor has it yet.
QueuePart ==
    /\ \A i \in DOMAIN queue : queue[i] <= emitted
    /\ \A i, j \in DOMAIN queue : queue[i] = queue[j] => i = j
    /\ \A p \in Proc : ~Waits(current[p])

\* Two processors never hold, or have last held, the same event.
HeldPart ==
    /\ \A p \in Proc : current[p] <= emitted /\ (emitted < p => proc[p] = "none")
    /\ \A p, q \in Proc : current[p] = current[q] /\ current[p] # 0 => p = q
    /\ \A p \in Proc : proc[p] \in {"taken", "dispatching"} => current[p] # 0

\* Nobody was called with an event before it is dispatched, and the tasks that
\* have not started belong to handlers not called yet.
CallsPart ==
    \A e \in Event, s \in Sub :
        /\ emitted < e \/ Waits(e) => calls[e][s] = 0
        /\ \A p \in Proc : current[p] = e /\ (proc[p] = "taken" \/ s \in pending[p]) => calls[e][s] = 0

OnceInv == QueuePart /\ HeldPart /\ CallsPart /\ DeliveryInv

\* What happens when the head of the queue is taken, and when an event is added.
LEMMA QueueTaken ==
    ASSUME TypeOK, QueuePart, queue # <<>>, queue' = Tail(queue)
    PROVE  /\ Head(queue) \in Event /\ Waits(Head(queue))
           /\ \A i \in DOMAIN queue' : queue'[i] # Head(queue)
           /\ \A e : Waits(e)' => Waits(e)
           /\ \A i \in DOMAIN queue' : i + 1 \in DOMAIN queue /\ queue'[i] = queue[i + 1]
<1>1. queue \in Seq(Event) BY DEF TypeOK
<1>2. Head(queue) = queue[1] /\ 1 \in DOMAIN queue /\ Len(queue) \in Nat /\ DOMAIN queue = 1 .. Len(queue) BY <1>1
<1>3. \A i \in DOMAIN queue' : i \in Nat /\ i + 1 \in DOMAIN queue /\ queue'[i] = queue[i + 1] BY <1>1
<1>4. Head(queue) \in Event /\ Waits(Head(queue)) BY <1>1, <1>2 DEF Waits
<1>5. \A e : Waits(e)' => Waits(e) BY <1>3 DEF Waits
<1>6. \A i \in DOMAIN queue' : queue'[i] # Head(queue)
  <2> SUFFICES ASSUME NEW i \in DOMAIN queue', queue'[i] = Head(queue) PROVE FALSE OBVIOUS
  <2>1. i + 1 = 1 BY <1>2, <1>3 DEF QueuePart
  <2>2. i \in 1 .. Len(queue') BY <1>1
  <2> QED BY <2>1, <2>2
<1> QED BY <1>3, <1>4, <1>5, <1>6

LEMMA QueueGrown ==
    ASSUME TypeOK, NEW e \in Event, queue' = Append(queue, e)
    PROVE  /\ \A x : Waits(x)' <=> Waits(x) \/ x = e
           /\ \A i \in DOMAIN queue' : \/ i \in DOMAIN queue /\ queue'[i] = queue[i]
                                       \/ i = Len(queue) + 1 /\ queue'[i] = e
<1>1. queue \in Seq(Event) BY DEF TypeOK
<1>2. \A i \in DOMAIN queue' : \/ i \in DOMAIN queue /\ queue'[i] = queue[i]
                               \/ i = Len(queue) + 1 /\ queue'[i] = e
  BY <1>1
<1>3. \A i \in DOMAIN queue : i \in DOMAIN queue' /\ queue'[i] = queue[i] BY <1>1
<1>4. Len(queue) + 1 \in DOMAIN queue' /\ queue'[Len(queue) + 1] = e BY <1>1
<1> QED BY <1>2, <1>3, <1>4 DEF Waits

\* A step that leaves events and calls alone, and at most ends a processor or
\* some of its tasks.
LEMMA BusRests ==
    ASSUME TypeOK, OnceInv, UNCHANGED <<emitted, queue, current, calls>>,
           \A p \in Proc : /\ proc'[p] = proc[p] \/ (proc[p] # "none" /\ proc'[p] \in {"waiting", "ended"})
                           /\ pending'[p] \subseteq pending[p]
                           /\ proc'[p] # "dispatching" => pending'[p] = {} /\ running'[p] = {},
           (cache' = cache /\ subs' = subs) \/ cache' = <<>>
    PROVE  OnceInv'
<1> USE DEF OnceInv
<1>1. QueuePart' BY DEF QueuePart, Waits
<1>2. HeldPart' BY DEF HeldPart
<1>3. CallsPart' BY DEF CallsPart, Waits
<1>4. DeliveryInv' BY DEF DeliveryInv, AtMostOnce, HandlersJoined, OnlySubscribed
<1> QED BY <1>1, <1>2, <1>3, <1>4

\* However many processors run, a handler gets an event at most once, a
\* processor waits for its handlers, and the cache that recipients are taken from
\* holds only present subscriptions.
THEOREM OnceOnly == Spec => []DeliveryInv
<1>1. Init => OnceInv
  BY DEF Init, OnceInv, QueuePart, HeldPart, CallsPart, DeliveryInv, AtMostOnce, HandlersJoined,
         OnlySubscribed, Waits, Event, Proc
<1>2. TypeOK /\ OnceInv /\ [Next]_vars => OnceInv'
  <2> SUFFICES ASSUME TypeOK, OnceInv, [Next]_vars PROVE OnceInv' OBVIOUS
  <2> USE DEF procVars, subVars, callVars, closeVars
  <2>1. CASE Emit
    <3> PICK p \in Priorities : Emit!(p) BY <2>1 DEF Emit
    <3>0. emitted' = emitted + 1 /\ emitted' \in Event /\ emitted \in Nat BY DEF Event, TypeOK
    <3>1. \A x : Waits(x)' <=> Waits(x) \/ x = emitted' BY <3>0, QueueGrown
    <3>2. \A i \in DOMAIN queue' : \/ i \in DOMAIN queue /\ queue'[i] = queue[i]
                                   \/ i = Len(queue) + 1 /\ queue'[i] = emitted'
      BY <3>0, QueueGrown
    <3>3. \A q \in Proc : current[q] \in Nat /\ current[q] <= emitted BY DEF OnceInv, HeldPart, TypeOK, Event
    <3>4. \A q \in Proc : proc'[q] = proc[q] \/ (q = emitted' /\ proc[q] = "none" /\ proc'[q] = "created")
      BY <3>0 DEF OnceInv, HeldPart, TypeOK, Proc, Event
    <3>5. QueuePart'
      <4>1. \A i \in DOMAIN queue : queue[i] \in Nat /\ queue[i] <= emitted /\ i \in 1 .. Len(queue)
        BY DEF OnceInv, QueuePart, TypeOK, Event
      <4>2. \A i \in DOMAIN queue' : queue'[i] <= emitted' BY <3>0, <3>2, <4>1
      <4>3. \A i, j \in DOMAIN queue' : queue'[i] = queue'[j] => i = j
        BY <3>0, <3>2, <4>1 DEF OnceInv, QueuePart
      <4>4. \A q \in Proc : ~Waits(current[q])' BY <3>0, <3>1, <3>3 DEF OnceInv, QueuePart
      <4> QED BY <4>2, <4>3, <4>4 DEF QueuePart
    <3>6. HeldPart' BY <3>0, <3>3, <3>4 DEF OnceInv, HeldPart, Proc, Event
    <3>7. CallsPart' BY <3>0, <3>1, <3>3, <3>4 DEF OnceInv, CallsPart, Event
    <3>8. DeliveryInv' BY <3>4 DEF OnceInv, DeliveryInv, AtMostOnce, HandlersJoined, OnlySubscribed
    <3> QED BY <3>5, <3>6, <3>7, <3>8 DEF OnceInv
  <2>2. ASSUME NEW s \in Sub, Subscribe(s) \/ Unsubscribe(s) PROVE OnceInv'
    BY <2>2, BusRests DEF Subscribe, Unsubscribe, OnceInv, DeliveryInv, HandlersJoined
  <2>3. ASSUME NEW p \in Proc, Step(p) PROVE OnceInv'
    <3>1. CASE Start(p)
      BY <3>1, BusRests DEF Start, OnceInv, DeliveryInv, HandlersJoined, TypeOK
    <3>2. CASE Take(p)
      <4> DEFINE e == Head(queue)
      <4>1. /\ e \in Event /\ Waits(e)
            /\ \A i \in DOMAIN queue' : queue'[i] # e
            /\ \A x : Waits(x)' => Waits(x)
            /\ \A i \in DOMAIN queue' : i + 1 \in DOMAIN queue /\ queue'[i] = queue[i + 1]
        BY <3>2, QueueTaken DEF Take, OnceInv
      <4>2. /\ \A q \in Proc : current'[q] = IF q = p THEN e ELSE current[q]
            /\ \A q \in Proc : proc'[q] = IF q = p THEN "taken" ELSE proc[q]
            /\ proc[p] = "waiting" /\ UNCHANGED <<emitted, pending, running, subs, cache, calls>>
        BY <3>2 DEF Take, TypeOK
      <4>3. e <= emitted /\ e # 0 /\ \A q \in Proc : current[q] # e
        BY <4>1 DEF OnceInv, QueuePart, Waits, Event
      <4>4. QueuePart'
        <5>1. \A i, j \in DOMAIN queue' : i \in Nat /\ j \in Nat
          BY <3>2 DEF Take, TypeOK
        <5>2. \A i \in DOMAIN queue' : queue'[i] <= emitted' BY <4>1, <4>2 DEF OnceInv, QueuePart
        <5>3. \A i, j \in DOMAIN queue' : queue'[i] = queue'[j] => i = j
          BY <4>1, <5>1 DEF OnceInv, QueuePart
        <5>4. \A q \in Proc : ~Waits(current[q])' 
          <6> SUFFICES ASSUME NEW q \in Proc, Waits(current[q])' PROVE FALSE OBVIOUS
          <6>1. CASE q = p BY <4>1, <4>2, <6>1 DEF Waits
          <6>2. CASE q # p BY <4>1, <4>2, <6>2 DEF OnceInv, QueuePart, Waits
          <6> QED BY <6>1, <6>2
        <5> QED BY <5>2, <5>3, <5>4 DEF QueuePart
      <4>5. HeldPart' BY <4>2, <4>3 DEF OnceInv, HeldPart
      <4>6. CallsPart'
        <5>1. pending[p] = {} BY <4>2 DEF OnceInv, DeliveryInv, HandlersJoined
        <5> QED BY <4>1, <4>2, <4>3, <5>1 DEF OnceInv, CallsPart
      <4>7. DeliveryInv' BY <4>2 DEF OnceInv, DeliveryInv, AtMostOnce, HandlersJoined, OnlySubscribed
      <4> QED BY <4>4, <4>5, <4>6, <4>7 DEF OnceInv
    <3>3. CASE Dispatch(p)
      <4> DEFINE e == current[p]  to == Recipients(e)
      <4>0. e \in Event /\ to \subseteq subs /\ subs \subseteq Sub
        BY <3>3 DEF Dispatch, OnceInv, HeldPart, DeliveryInv, OnlySubscribed, Recipients, Matching, TypeOK
      <4>1. /\ \A q \in Proc : pending'[q] = IF q = p THEN to \ SyncSub ELSE pending[q]
            /\ \A q \in Proc : q # p => proc'[q] = proc[q]
            /\ proc[p] = "taken" /\ proc'[p] = IF to \ SyncSub = {} THEN "waiting" ELSE "dispatching"
            /\ cache' = <<to>>
            /\ UNCHANGED <<emitted, queue, current, running, subs>>
        BY <3>3 DEF Dispatch, TypeOK
      <4>2. \A x \in Event, s \in Sub :
               calls'[x][s] = IF x = e /\ s \in to \cap SyncSub THEN calls[x][s] + 1 ELSE calls[x][s]
        BY <3>3, <4>0 DEF Dispatch, TypeOK
      <4>3. \A s \in Sub : calls[e][s] = 0
        BY <4>0, <4>1 DEF OnceInv, CallsPart
      <4>4. ~Waits(e) /\ e <= emitted BY <4>0 DEF OnceInv, QueuePart, HeldPart
      <4>5. QueuePart' BY <4>1 DEF OnceInv, QueuePart, Waits
      <4>6. HeldPart' BY <4>0, <4>1 DEF OnceInv, HeldPart, Event
      <4>7. CallsPart'
        <5> SUFFICES ASSUME NEW x \in Event, NEW s \in Sub
                     PROVE  /\ emitted < x \/ Waits(x) => calls'[x][s] = 0
                            /\ \A q \in Proc : current[q] = x /\ (proc'[q] = "taken" \/ s \in pending'[q]) => calls'[x][s] = 0
          BY <4>1 DEF CallsPart, Waits
        <5>1. CASE x # e BY <4>1, <4>2, <5>1 DEF OnceInv, CallsPart
        <5>2. CASE x = e
          <6>1. ~(emitted < e) BY <4>0, <4>4 DEF TypeOK, Event
          <6>2. \A q \in Proc : current[q] = e => q = p BY <4>0 DEF OnceInv, HeldPart, Event
          <6> QED BY <4>1, <4>2, <4>3, <4>4, <5>2, <6>1, <6>2
        <5> QED BY <5>1, <5>2
      <4>8. DeliveryInv'
        <5>1. AtMostOnce' BY <4>2, <4>3 DEF OnceInv, DeliveryInv, AtMostOnce
        <5>2. HandlersJoined' BY <4>1 DEF OnceInv, DeliveryInv, HandlersJoined
        <5>3. OnlySubscribed' BY <4>0, <4>1 DEF OnlySubscribed
        <5> QED BY <5>1, <5>2, <5>3 DEF DeliveryInv
      <4> QED BY <4>5, <4>6, <4>7, <4>8 DEF OnceInv
    <3>4. CASE Gathered(p)
      BY <3>4, BusRests DEF Gathered, OnceInv, DeliveryInv, HandlersJoined, TypeOK
    <3>5. ASSUME NEW s \in Sub, HandlerStarts(p, s) PROVE OnceInv'
      <4> DEFINE e == current[p]
      <4>0. proc[p] = "dispatching" BY <3>5 DEF HandlerStarts, OnceInv, DeliveryInv, HandlersJoined
      <4>1. e \in Event /\ e # 0 BY <4>0 DEF OnceInv, HeldPart, TypeOK
      <4>2. /\ s \in pending[p] /\ \A q \in Proc : pending'[q] = IF q = p THEN pending[q] \ {s} ELSE pending[q]
            /\ \A q \in Proc : q # p => running'[q] = running[q]
            /\ UNCHANGED <<emitted, queue, current, proc, subs, cache>>
        BY <3>5 DEF HandlerStarts, TypeOK
      <4>3. \A x \in Event, t \in Sub : calls'[x][t] = IF x = e /\ t = s THEN calls[x][t] + 1 ELSE calls[x][t]
        BY <3>5, <4>1 DEF HandlerStarts, TypeOK
      <4>4. calls[e][s] = 0 BY <4>1, <4>2 DEF OnceInv, CallsPart
      <4>5. ~Waits(e) /\ e <= emitted BY DEF OnceInv, QueuePart, HeldPart
      <4>6. QueuePart' BY <4>2 DEF OnceInv, QueuePart, Waits
      <4>7. HeldPart' BY <4>2 DEF OnceInv, HeldPart
      <4>8. CallsPart'
        <5> SUFFICES ASSUME NEW x \in Event, NEW t \in Sub
                     PROVE  /\ emitted < x \/ Waits(x) => calls'[x][t] = 0
                            /\ \A q \in Proc : current[q] = x /\ (proc[q] = "taken" \/ t \in pending'[q]) => calls'[x][t] = 0
          BY <4>2 DEF CallsPart, Waits
        <5>1. CASE ~(x = e /\ t = s)
          <6>1. calls'[x][t] = calls[x][t] BY <4>3, <5>1
          <6>2. \A q \in Proc : pending'[q] \subseteq pending[q] BY <4>2
          <6> HIDE DEF e
          <6> QED BY <6>1, <6>2 DEF OnceInv, CallsPart
        <5>2. CASE x = e /\ t = s
          <6>1. ~(emitted < e) BY <4>1, <4>5 DEF TypeOK, Event
          <6>2. \A q \in Proc : current[q] = e => q = p BY <4>1 DEF OnceInv, HeldPart
          <6> QED BY <4>0, <4>2, <4>5, <5>2, <6>1, <6>2
        <5> QED BY <5>1, <5>2
      <4>9. DeliveryInv'
        <5>1. AtMostOnce' BY <4>3, <4>4 DEF OnceInv, DeliveryInv, AtMostOnce
        <5>2. HandlersJoined' BY <4>0, <4>2 DEF OnceInv, DeliveryInv, HandlersJoined
        <5>3. OnlySubscribed' BY <4>2 DEF OnceInv, DeliveryInv, OnlySubscribed
        <5> QED BY <5>1, <5>2, <5>3 DEF DeliveryInv
      <4> QED BY <4>6, <4>7, <4>8, <4>9 DEF OnceInv
    <3>6. ASSUME NEW s \in Sub, HandlerEnds(p, s) PROVE OnceInv'
      <4>1. \A q \in Proc : proc'[q] # "dispatching" => pending'[q] = {} /\ running'[q] = {}
        BY <3>6 DEF HandlerEnds, OnceInv, DeliveryInv, HandlersJoined, TypeOK
      <4> QED BY <3>6, <4>1, BusRests DEF HandlerEnds
    <3>7. CASE DispatchRaises(p)
      BY <3>7, BusRests DEF DispatchRaises, OnceInv, DeliveryInv, HandlersJoined, TypeOK
    <3> QED BY <2>3, <3>1, <3>2, <3>3, <3>4, <3>5, <3>6, <3>7 DEF Step
  <2>4. ASSUME NEW p \in Proc, IdleOut(p) PROVE OnceInv'
    BY <2>4, BusRests DEF IdleOut, OnceInv, DeliveryInv, HandlersJoined, TypeOK
  <2>5. CASE BeginShutdown
    <3>1. UNCHANGED <<emitted, queue, current, calls>> BY <2>5 DEF BeginShutdown
    <3>2. (cache' = cache /\ subs' = subs) \/ cache' = <<>> BY <2>5 DEF BeginShutdown, Clear
    <3>3. \A p \in Proc : /\ proc'[p] = proc[p] \/ (proc[p] # "none" /\ proc'[p] \in {"waiting", "ended"})
                          /\ pending'[p] \subseteq pending[p]
                          /\ proc'[p] # "dispatching" => pending'[p] = {} /\ running'[p] = {}
      BY <2>5 DEF BeginShutdown, OnceInv, DeliveryInv, HandlersJoined, TypeOK, Live
    <3> QED BY <3>1, <3>2, <3>3, BusRests
  <2>6. CASE EndShutdown
    BY <2>6, BusRests DEF EndShutdown, Clear, OnceInv, DeliveryInv, HandlersJoined
  <2>7. CASE UNCHANGED vars
    BY <2>7, BusRests DEF vars, OnceInv, DeliveryInv, HandlersJoined
  <2> QED BY <2>1, <2>2, <2>3, <2>4, <2>5, <2>6, <2>7 DEF Next
<1>3. OnceInv => DeliveryInv BY DEF OnceInv
<1> QED BY <1>1, <1>2, <1>3, TypeCorrect, PTL DEF Spec
=============================================================================
