------------------------- MODULE Services_proofs -------------------------
(***************************************************************************)
(* What holds of the services that must answer: of the hooks for all       *)
(* hooks, triggers, callers, limits and numbers of retries, and of the     *)
(* agent manager for all agents, capabilities, callers and messages.       *)
(***************************************************************************)
EXTENDS HookEngine, AgentManager, SequenceTheorems, TLAPS

USE HookAssumption

-----------------------------------------------------------------------------
(* The inductive invariant, part by part *)

Run == [hook : Hook, pc : {"created", "acting", "sleeping"}, attempt : Nat, succeeded : BOOLEAN]

Call == [pc : {"idle", "looping", "awaiting", "gathering"}, todo : SUBSET Hook, tasks : SUBSET Execution,
         on : Execution \cup {NoExecution}]

RegistryPart ==
    /\ hooks \in [Hook -> SUBSET Trigger] /\ disabled \subseteq Hook
    /\ index \in [Trigger -> SUBSET Hook]
    /\ \A t \in Trigger : index[t] = {h \in Hook : t \in hooks[h]}

RatePart == recent \in [Hook -> Nat] /\ cooling \subseteq Cools /\ \A h \in Hook : recent[h] <= Limit[h]

\* The executions, and the names of the hooks that run.
ExecPart ==
    /\ runningHooks \subseteq Hook
    /\ exec \in [Execution -> {NoRun} \cup Run]
    /\ \A x \in Execution : exec[x] # NoRun => exec[x].attempt <= Retries[exec[x].hook]
    /\ \A x, y \in Running : x # y => exec[x].hook # exec[y].hook
    /\ \A h \in Hook : h \in runningHooks <=> \E x \in Running : exec[x].hook = h

\* Who waits for an execution waits for one that is there, and alone.
CallPart ==
    /\ hookCall \in [HookCaller -> Call]
    /\ \A c \in HookCaller : \A x \in hookCall[c].tasks : exec[x] # NoRun
    /\ \A c \in HookCaller : hookCall[c].pc = "awaiting" => hookCall[c].on \in Running
    /\ \A c \in HookCaller : hookCall[c].pc # "awaiting" => hookCall[c].on = NoExecution
    /\ \A c, d \in HookCaller : c # d => hookCall[c].tasks \cap hookCall[d].tasks = {}
    /\ \A c, d \in HookCaller : hookCall[c].on \notin hookCall[d].tasks
    /\ \A c, d \in HookCaller : c # d /\ hookCall[c].on # NoExecution => hookCall[c].on # hookCall[d].on

HookIInv == RegistryPart /\ RatePart /\ ExecPart /\ CallPart

LEMMA HookImplied == HookIInv => HookInv
  <1> SUFFICES ASSUME HookIInv PROVE HookInv
    OBVIOUS
  <1>1. HookTypeOK
    BY DEF HookIInv, RegistryPart, RatePart, ExecPart, CallPart, HookTypeOK, Run, Call
  <1>2. runningHooks = {exec[x].hook : x \in Running}
    <2>1. \A x \in Running : exec[x].hook \in Hook
      BY DEF HookIInv, ExecPart, Running, Run, NoRun
    <2> QED BY <2>1 DEF HookIInv, ExecPart
  <1> QED BY <1>1, <1>2 DEF HookIInv, RegistryPart, RatePart, ExecPart, CallPart, HookInv

LEMMA HookInitially == HookInit => HookIInv
  BY DEF HookInit, HookIInv, RegistryPart, RatePart, ExecPart, CallPart, Call, Running, NoRun, Quiet

-----------------------------------------------------------------------------
(* The registry and the rates *)

LEMMA RegistryStep == RegistryPart /\ [HookNext]_hookVars => RegistryPart'
  <1> SUFFICES ASSUME RegistryPart, [HookNext]_hookVars PROVE RegistryPart'
    OBVIOUS
  <1> USE DEF RegistryPart
  <1>1. ASSUME NEW h \in Hook, NEW triggers \in SUBSET Trigger, RegisterHook(h, triggers) PROVE RegistryPart'
    BY <1>1 DEF RegisterHook
  <1>2. ASSUME NEW h \in Hook, UnregisterHook(h) PROVE RegistryPart'
    BY <1>2 DEF UnregisterHook
  <1>3. ASSUME NEW h \in Hook, NEW triggers \in SUBSET Trigger, Reload(h, triggers) PROVE RegistryPart'
    BY <1>3 DEF Reload, Indexed
  <1>4. ASSUME NEW h \in Hook, Toggle(h) \/ MinutePasses(h) \/ CooldownEnds(h) PROVE RegistryPart'
    BY <1>4 DEF Toggle, MinutePasses, CooldownEnds
  <1>5. ASSUME NEW c \in HookCaller, (\E t \in Trigger : TriggerHooks(c, t)) \/ (\E h \in Hook : ExecuteHook(c, h)) \/ CancelCall(c) \/ Loops(c)
        PROVE  RegistryPart'
    <2>1. UNCHANGED <<hooks, disabled, index>>
      <3>1. CASE \E t \in Trigger : TriggerHooks(c, t)
        BY <3>1 DEF TriggerHooks
      <3>2. CASE \E h \in Hook : ExecuteHook(c, h)
        BY <3>2 DEF ExecuteHook
      <3>3. CASE CancelCall(c) \/ Gather(c)
        BY <3>3 DEF CancelCall, Gather
      <3>4. CASE \E h \in Hook : TakeHook(c, h)
        BY <3>4 DEF TakeHook
      <3> QED BY <1>5, <3>1, <3>2, <3>3, <3>4 DEF Loops
    <2> QED BY <2>1
  <1>6. ASSUME NEW x \in Execution, Executes(x) PROVE RegistryPart'
    BY <1>6 DEF Executes, StartTask, Acts, RetryHook
  <1>7. CASE UNCHANGED hookVars
    BY <1>7 DEF hookVars
  <1> QED BY <1>1, <1>2, <1>3, <1>4, <1>5, <1>6, <1>7 DEF HookNext

LEMMA RateStep == RatePart /\ [HookNext]_hookVars => RatePart'
  <1> SUFFICES ASSUME RatePart, [HookNext]_hookVars PROVE RatePart'
    OBVIOUS
  <1> USE DEF RatePart
  <1>1. ASSUME NEW h \in Hook, MinutePasses(h) \/ CooldownEnds(h) PROVE RatePart'
    BY <1>1 DEF MinutePasses, CooldownEnds
  <1>2. ASSUME NEW c \in HookCaller, NEW h \in Hook, TakeHook(c, h) PROVE RatePart'
    <2>0. cooling' \subseteq Cools
      BY <1>2 DEF TakeHook, Recorded
    <2>1. CASE UNCHANGED recent
      BY <2>0, <2>1
    <2>2. CASE UnderLimit(h) /\ Limit[h] # 0 /\ recent' = [recent EXCEPT ![h] = @ + 1]
      <3>1. recent[h] \in Nat /\ Limit[h] \in Nat /\ recent[h] < Limit[h]
        BY <2>2 DEF UnderLimit
      <3>2. recent[h] + 1 \in Nat /\ recent[h] + 1 <= Limit[h]
        BY <3>1
      <3> QED BY <2>0, <2>2, <3>2
    <2> QED BY <1>2, <2>1, <2>2 DEF TakeHook, Recorded
  <1>3. ASSUME UNCHANGED <<recent, cooling>> PROVE RatePart'
    BY <1>3
  <1>4. ASSUME NEW h \in Hook, UnregisterHook(h) \/ Toggle(h) \/ \E triggers \in SUBSET Trigger : RegisterHook(h, triggers) \/ Reload(h, triggers)
        PROVE  RatePart'
    BY <1>3, <1>4 DEF UnregisterHook, Toggle, RegisterHook, Reload
  <1>5. ASSUME NEW c \in HookCaller, (\E t \in Trigger : TriggerHooks(c, t)) \/ (\E h \in Hook : ExecuteHook(c, h)) \/ CancelCall(c) \/ Gather(c)
        PROVE  RatePart'
    BY <1>3, <1>5 DEF TriggerHooks, ExecuteHook, CancelCall, Gather
  <1>6. ASSUME NEW x \in Execution, Executes(x) PROVE RatePart'
    BY <1>3, <1>6 DEF Executes, StartTask, Acts, RetryHook
  <1>7. CASE UNCHANGED hookVars
    BY <1>7 DEF hookVars
  <1> QED BY <1>1, <1>2, <1>4, <1>5, <1>6, <1>7 DEF HookNext, Loops

-----------------------------------------------------------------------------
(* What a step does to the executions *)

\* Executions under way are those of the hooks that run.
LEMMA RunningAre ==
    ASSUME ExecPart
    PROVE  \A x \in Execution : exec[x] # NoRun =>
               /\ exec[x] \in Run /\ exec[x].hook \in Hook
               /\ x \in Running <=> exec[x].pc # "created"
               /\ x \in Running => exec[x].hook \in runningHooks
  <1> USE DEF ExecPart
  <1>1. ASSUME NEW x \in Execution, exec[x] # NoRun PROVE exec[x] \in Run /\ exec[x].hook \in Hook
    BY <1>1 DEF Run
  <1>2. ASSUME NEW x \in Execution, exec[x] # NoRun PROVE x \in Running <=> exec[x].pc # "created"
    BY <1>1, <1>2 DEF Run, Running
  <1>3. ASSUME NEW x \in Execution, x \in Running, exec[x] # NoRun PROVE exec[x].hook \in runningHooks
    BY <1>1, <1>3
  <1> QED BY <1>1, <1>2, <1>3

LEMMA IdleAreNot == ASSUME NEW x \in Execution, exec[x] = NoRun PROVE x \notin Running
  BY DEF Running, NoRun

LEMMA ExecBegins ==
    ASSUME ExecPart, NEW x \in Unused, NEW h \in Hook \ runningHooks, Begins(x, h)
    PROVE  ExecPart' /\ Running' = Running \cup {x} /\ exec'[x] # NoRun /\ \A y \in Execution : y # x => exec'[y] = exec[y]
  <1> DEFINE run == [hook |-> h, pc |-> "acting", attempt |-> 0, succeeded |-> FALSE]
  <1>1. run \in Run /\ run # NoRun /\ run.hook = h /\ run.attempt = 0 /\ run.pc = "acting"
    BY DEF Run, NoRun
  <1>2. exec \in [Execution -> {NoRun} \cup Run] /\ x \in Execution /\ exec[x] = NoRun
    BY DEF ExecPart, Unused
  <1>3. exec' = [exec EXCEPT ![x] = run] /\ runningHooks' = runningHooks \cup {h}
    BY DEF Begins
  <1> HIDE DEF run
  <1>4. exec' \in [Execution -> {NoRun} \cup Run] /\ exec'[x] = run /\ \A y \in Execution : y # x => exec'[y] = exec[y]
    BY <1>1, <1>2, <1>3
  <1>5. Running' = Running \cup {x}
    BY <1>1, <1>2, <1>4 DEF Running
  <1>6. x \notin Running
    BY <1>2, IdleAreNot
  <1>7. \A y \in Running : y # x /\ exec'[y] = exec[y] /\ exec[y].hook # h
    <2>1. \A y \in Running : exec[y] # NoRun /\ y \in Execution
      BY IdleAreNot DEF Running
    <2> QED BY <1>4, <1>6, <2>1, RunningAre
  <1>8. \A y, z \in Running' : y # z => exec'[y].hook # exec'[z].hook
    BY <1>1, <1>4, <1>5, <1>7 DEF ExecPart
  <1>9. \A g \in Hook : g \in runningHooks' <=> \E y \in Running' : exec'[y].hook = g
    BY <1>1, <1>3, <1>4, <1>5, <1>7 DEF ExecPart
  <1>10. \A y \in Execution : exec'[y] # NoRun => exec'[y].attempt <= Retries[exec'[y].hook]
    BY <1>1, <1>4 DEF ExecPart
  <1>11. runningHooks' \subseteq Hook
    BY <1>3 DEF ExecPart
  <1>12. ExecPart'
    BY <1>4, <1>8, <1>9, <1>10, <1>11 DEF ExecPart
  <1> QED BY <1>1, <1>4, <1>5, <1>12

LEMMA ExecCreated ==
    ASSUME ExecPart, NEW x \in Unused, NEW h \in Hook, UNCHANGED runningHooks,
           exec' = [exec EXCEPT ![x] = [NoRun EXCEPT !.hook = h, !.pc = "created"]]
    PROVE  ExecPart' /\ Running' = Running /\ exec'[x] # NoRun /\ \A y \in Execution : y # x => exec'[y] = exec[y]
  <1> DEFINE run == [NoRun EXCEPT !.hook = h, !.pc = "created"]
  <1>1. run \in Run /\ run # NoRun /\ run.hook = h /\ run.attempt = 0 /\ run.pc = "created"
    BY DEF Run, NoRun
  <1>2. exec \in [Execution -> {NoRun} \cup Run] /\ x \in Execution /\ exec[x] = NoRun
    BY DEF ExecPart, Unused
  <1>3. exec' = [exec EXCEPT ![x] = run]
    OBVIOUS
  <1> HIDE DEF run
  <1>4. exec' \in [Execution -> {NoRun} \cup Run] /\ exec'[x] = run /\ \A y \in Execution : y # x => exec'[y] = exec[y]
    BY <1>1, <1>2, <1>3
  <1>5. x \notin Running
    BY <1>2, IdleAreNot
  <1>6. Running' = Running
    BY <1>1, <1>4, <1>5 DEF Running
  <1>7. \A y \in Running : exec'[y] = exec[y]
    BY <1>4, <1>5 DEF Running
  <1>8. \A y \in Execution : exec'[y] # NoRun => exec'[y].attempt <= Retries[exec'[y].hook]
    <2>1. run.attempt <= Retries[run.hook]
      BY <1>1
    <2> QED BY <1>4, <2>1 DEF ExecPart
  <1>9. \A y, z \in Running' : y # z => exec'[y].hook # exec'[z].hook
    <2>1. \A y, z \in Running : y # z => exec[y].hook # exec[z].hook
      BY DEF ExecPart
    <2>2. \A y, z \in Running : y # z => exec'[y].hook # exec'[z].hook
      BY ONLY <1>7, <2>1
    <2> QED BY ONLY <1>6, <2>2
  <1>10. \A g \in Hook : g \in runningHooks' <=> \E y \in Running' : exec'[y].hook = g
    <2>1. \A g \in Hook : g \in runningHooks' <=> \E y \in Running : exec[y].hook = g
      BY DEF ExecPart
    <2> QED BY ONLY <1>6, <1>7, <2>1
  <1>11. ExecPart'
    BY <1>4, <1>8, <1>9, <1>10 DEF ExecPart
  <1> QED BY <1>1, <1>4, <1>6, <1>11

\* A step of an execution that goes on, or begins to run.
LEMMA ExecGoesOn ==
    ASSUME ExecPart, NEW x \in Execution, exec[x] # NoRun, NEW run \in Run,
           exec' = [exec EXCEPT ![x] = run], run.hook = exec[x].hook, run.pc # "created",
           run.attempt <= Retries[exec[x].hook],
           \/ exec[x].pc # "created" /\ UNCHANGED runningHooks
           \/ exec[x].hook \notin runningHooks /\ runningHooks' = runningHooks \cup {exec[x].hook}
    PROVE  ExecPart' /\ Running' = Running \cup {x} /\ exec'[x] # NoRun /\ \A y \in Execution : y # x => exec'[y] = exec[y]
  <1>1. run # NoRun /\ exec[x].hook \in Hook
    <2>1. NoRun \notin Run
      BY DEF Run, NoRun
    <2> QED BY <2>1, RunningAre
  <1>2. exec' \in [Execution -> {NoRun} \cup Run] /\ exec'[x] = run /\ \A y \in Execution : y # x => exec'[y] = exec[y]
    BY DEF ExecPart
  <1>3. Running' = Running \cup {x}
    <2>1. run.pc \in {"acting", "sleeping"}
      BY DEF Run
    <2> QED BY <1>2, <2>1 DEF Running
  <1>4. \A y \in Running : y \in Execution /\ exec[y] # NoRun /\ exec'[y].hook = exec[y].hook /\ exec[y].hook \in runningHooks
    <2>1. \A y \in Running : y \in Execution /\ exec[y] # NoRun
      BY IdleAreNot DEF Running
    <2> QED BY <1>2, <2>1, RunningAre
  <1>5. \A y \in Running : y # x => exec[y].hook # exec[x].hook
    <2>1. CASE exec[x].pc # "created"
      BY <2>1, RunningAre DEF ExecPart
    <2>2. CASE exec[x].hook \notin runningHooks
      BY <1>4, <2>2
    <2> QED BY <2>1, <2>2
  <1>6. \A y, z \in Running' : y # z => exec'[y].hook # exec'[z].hook
    BY <1>2, <1>3, <1>4, <1>5 DEF ExecPart
  <1>7. runningHooks' = runningHooks \cup {exec[x].hook}
    <2>1. exec[x].pc # "created" => exec[x].hook \in runningHooks
      BY RunningAre
    <2> QED BY <2>1
  <1>8. \A h \in Hook : h \in runningHooks' <=> \E y \in Running' : exec'[y].hook = h
    BY <1>2, <1>3, <1>4, <1>7 DEF ExecPart
  <1>9. \A y \in Execution : exec'[y] # NoRun => exec'[y].attempt <= Retries[exec'[y].hook]
    BY <1>2 DEF ExecPart
  <1>10. ExecPart'
    BY <1>1, <1>2, <1>6, <1>7, <1>8, <1>9 DEF ExecPart
  <1> QED BY <1>1, <1>2, <1>3, <1>10

\* Executions that are over take their hooks out of the names that run.
LEMMA ExecOver ==
    ASSUME ExecPart, NEW gone \in SUBSET Execution, \A x \in gone : exec[x] # NoRun,
           exec' = [x \in Execution |-> IF x \in gone THEN NoRun ELSE exec[x]],
           runningHooks' = runningHooks \ {exec[x].hook : x \in {y \in gone : exec[y].pc # "created"}}
    PROVE  ExecPart' /\ Running' = Running \ gone /\ \A y \in Execution \ gone : exec'[y] = exec[y]
  <1>1. /\ exec' \in [Execution -> {NoRun} \cup Run]
        /\ \A y \in Execution \ gone : exec'[y] = exec[y]
        /\ \A y \in gone : exec'[y] = NoRun
    BY DEF ExecPart
  <1>2. Running' = Running \ gone
    <2>1. \A y \in gone : y \notin Running'
      BY <1>1 DEF Running, NoRun
    <2> QED BY <1>1, <2>1 DEF Running
  <1>3. {y \in gone : exec[y].pc # "created"} = gone \cap Running
    BY RunningAre
  <1>4. \A y \in Running' : y \in Running /\ y \notin gone /\ exec'[y] = exec[y]
    BY <1>1, <1>2 DEF Running
  <1>5. \A y, z \in Running' : y # z => exec'[y].hook # exec'[z].hook
    <2>1. \A y, z \in Running : y # z => exec[y].hook # exec[z].hook
      BY DEF ExecPart
    <2> QED BY <1>4, <2>1
  <1>6. runningHooks' = runningHooks \ {exec[x].hook : x \in gone \cap Running}
    BY <1>3
  <1>7. ASSUME NEW h \in Hook PROVE h \in runningHooks' <=> \E y \in Running' : exec'[y].hook = h
    <2>1. h \in runningHooks' <=> h \in runningHooks /\ ~ \E y \in gone \cap Running : exec[y].hook = h
      BY <1>6
    <2>2. h \in runningHooks <=> \E y \in Running : exec[y].hook = h
      BY DEF ExecPart
    <2>3. \A y, z \in Running : exec[y].hook = exec[z].hook => y = z
      BY DEF ExecPart
    <2>4. h \in runningHooks' <=> \E y \in Running \ gone : exec[y].hook = h
      <3> HIDE DEF Running
      <3> QED BY <2>1, <2>2, <2>3
    <2> QED BY <1>2, <1>4, <2>4
  <1>8. runningHooks' \subseteq Hook
    BY DEF ExecPart
  <1>9. \A y \in Execution : exec'[y] # NoRun => exec'[y].attempt <= Retries[exec'[y].hook]
    BY <1>1 DEF ExecPart
  <1>10. ExecPart'
    BY <1>1, <1>5, <1>7, <1>8, <1>9 DEF ExecPart
  <1> QED BY <1>1, <1>2, <1>10

-----------------------------------------------------------------------------
(* What a step does to the calls *)

\* Some executions come or go on, and one theCall changes.
LEMMA CallChanges ==
    ASSUME CallPart, NEW c \in HookCaller, NEW theCall \in Call, hookCall' = [hookCall EXCEPT ![c] = theCall],
           Running \subseteq Running', \A x \in Execution : exec[x] # NoRun => exec'[x] # NoRun,
           \A x \in theCall.tasks : exec'[x] # NoRun,
           theCall.pc = "awaiting" => theCall.on \in Running', theCall.pc # "awaiting" => theCall.on = NoExecution,
           theCall.on \notin theCall.tasks,
           \A d \in HookCaller \ {c} :
               /\ theCall.tasks \cap hookCall[d].tasks = {}
               /\ theCall.on \notin hookCall[d].tasks /\ hookCall[d].on \notin theCall.tasks
               /\ theCall.on # NoExecution => theCall.on # hookCall[d].on
    PROVE  CallPart'
  <1>1. hookCall' \in [HookCaller -> Call] /\ hookCall'[c] = theCall /\ \A d \in HookCaller : d # c => hookCall'[d] = hookCall[d]
    BY DEF CallPart
  <1>2. \A d \in HookCaller : \A x \in hookCall'[d].tasks : exec'[x] # NoRun
    <2>1. \A d \in HookCaller : \A x \in hookCall[d].tasks : x \in Execution /\ exec[x] # NoRun
      BY DEF CallPart, Call
    <2> QED BY <1>1, <2>1
  <1>3. \A d \in HookCaller : hookCall'[d].pc = "awaiting" => hookCall'[d].on \in Running'
    BY <1>1 DEF CallPart
  <1>4. \A d \in HookCaller : hookCall'[d].pc # "awaiting" => hookCall'[d].on = NoExecution
    BY <1>1 DEF CallPart
  <1>5. \A d, e \in HookCaller : d # e => hookCall'[d].tasks \cap hookCall'[e].tasks = {}
    <2>1. \A d, e \in HookCaller : d # e => hookCall[d].tasks \cap hookCall[e].tasks = {}
      BY DEF CallPart
    <2> QED BY <1>1, <2>1
  <1>6. \A d, e \in HookCaller : hookCall'[d].on \notin hookCall'[e].tasks
    <2>1. \A d, e \in HookCaller : hookCall[d].on \notin hookCall[e].tasks
      BY DEF CallPart
    <2> QED BY <1>1, <2>1
  <1>7. \A d, e \in HookCaller : d # e /\ hookCall'[d].on # NoExecution => hookCall'[d].on # hookCall'[e].on
    <2>1. \A d, e \in HookCaller : d # e /\ hookCall[d].on # NoExecution => hookCall[d].on # hookCall[e].on
      BY DEF CallPart
    <2> QED BY <1>1, <2>1
  <1> QED BY <1>1, <1>2, <1>3, <1>4, <1>5, <1>6, <1>7 DEF CallPart

LEMMA CallsKept ==
    ASSUME CallPart, UNCHANGED hookCall,
           Running \subseteq Running', \A x \in Execution : exec[x] # NoRun => exec'[x] # NoRun
    PROVE  CallPart'
  <1>1. \A d \in HookCaller : \A x \in hookCall'[d].tasks : exec'[x] # NoRun
    BY DEF CallPart, Call
  <1> QED BY <1>1 DEF CallPart

\* Some executions are over, and nobody waits for them any more.
LEMMA CallsShed ==
    ASSUME CallPart, NEW gone \in SUBSET Execution, Running' = Running \ gone,
           \A y \in Execution \ gone : exec'[y] = exec[y],
           hookCall' \in [HookCaller -> Call],
           \A d \in HookCaller :
               \/ hookCall'[d] = Quiet
               \/ /\ hookCall'[d].pc = hookCall[d].pc /\ hookCall'[d].on = hookCall[d].on
                  /\ hookCall[d].on \notin gone /\ hookCall'[d].tasks = hookCall[d].tasks \ gone
    PROVE  CallPart'
  <1>1. Quiet.tasks = {} /\ Quiet.on = NoExecution /\ Quiet.pc = "idle"
    BY DEF Quiet
  <1>2. \A d \in HookCaller : hookCall'[d].tasks \subseteq hookCall[d].tasks \ gone
    BY <1>1
  <1>3. \A d \in HookCaller : hookCall'[d].on \in {NoExecution, hookCall[d].on}
    BY <1>1
  <1>4. \A d \in HookCaller : \A x \in hookCall'[d].tasks : exec'[x] # NoRun
    <2>1. \A d \in HookCaller : \A x \in hookCall[d].tasks : x \in Execution /\ exec[x] # NoRun
      BY DEF CallPart, Call
    <2> QED BY <1>2, <2>1
  <1>5. \A d \in HookCaller : hookCall'[d].pc = "awaiting" => hookCall'[d].on \in Running'
    BY <1>1 DEF CallPart
  <1>6. \A d \in HookCaller : hookCall'[d].pc # "awaiting" => hookCall'[d].on = NoExecution
    BY <1>1 DEF CallPart
  <1>7. \A d, e \in HookCaller : d # e => hookCall'[d].tasks \cap hookCall'[e].tasks = {}
    <2>1. \A d, e \in HookCaller : d # e => hookCall[d].tasks \cap hookCall[e].tasks = {}
      BY DEF CallPart
    <2> QED BY <1>2, <2>1
  <1>8. \A d, e \in HookCaller : hookCall'[d].on \notin hookCall'[e].tasks
    <2>1. \A d, e \in HookCaller : hookCall[d].on \notin hookCall[e].tasks
      BY DEF CallPart
    <2>2. \A e \in HookCaller : NoExecution \notin hookCall[e].tasks
      BY DEF CallPart, Call
    <2> QED BY <1>2, <1>3, <2>1, <2>2
  <1>9. \A d, e \in HookCaller : d # e /\ hookCall'[d].on # NoExecution => hookCall'[d].on # hookCall'[e].on
    <2>1. \A d, e \in HookCaller : d # e /\ hookCall[d].on # NoExecution => hookCall[d].on # hookCall[e].on
      BY DEF CallPart
    <2> QED BY <1>3, <2>1
  <1> QED BY <1>4, <1>5, <1>6, <1>7, <1>8, <1>9 DEF CallPart

\* Nobody waits for an execution that is not there.
LEMMA FreshForAll ==
    ASSUME CallPart, NEW x \in Unused
    PROVE  x \in Execution /\ x # NoExecution /\ \A d \in HookCaller : x \notin hookCall[d].tasks /\ x # hookCall[d].on
  <1>1. x \in Execution /\ exec[x] = NoRun /\ x # NoExecution
    BY DEF Unused
  <1>2. x \notin Running
    BY <1>1, IdleAreNot
  <1> QED BY <1>1, <1>2 DEF CallPart

-----------------------------------------------------------------------------
(* The steps *)

Both == ExecPart /\ CallPart

LEMMA TakeStep ==
    ASSUME Both, NEW c \in HookCaller, NEW h \in Hook, TakeHook(c, h)
    PROVE  Both'
  <1> DEFINE left == [hookCall[c] EXCEPT !.todo = @ \ {h}]
  <1>1. /\ left \in Call /\ left.tasks = hookCall[c].tasks /\ left.on = NoExecution /\ left.pc = "looping"
        /\ left.tasks \subseteq Execution
    <2>1. hookCall[c] \in Call /\ hookCall[c].pc = "looping" /\ hookCall[c].on = NoExecution
      BY DEF Both, CallPart, TakeHook
    <2> QED BY <2>1 DEF Call
  <1>2. \A d \in HookCaller \ {c} :
            /\ left.tasks \cap hookCall[d].tasks = {} /\ NoExecution \notin hookCall[d].tasks
            /\ hookCall[d].on \notin left.tasks
    BY <1>1 DEF Both, CallPart, Call
  <1>3. NoExecution \notin left.tasks /\ \A x \in left.tasks : exec[x] # NoRun
    BY <1>1 DEF Both, CallPart
  <1>4. Spare \subseteq Unused
    BY DEF Spare
  <1>5. CASE hookCall' = [hookCall EXCEPT ![c] = left] /\ UNCHANGED <<runningHooks, exec>>
    <2> HIDE DEF left
    <2>1. ExecPart' /\ Running' = Running
      BY <1>5 DEF Both, ExecPart, Running
    <2>2. CallPart'
      BY <1>1, <1>2, <1>3, <1>5, <2>1, CallChanges DEF Both
    <2> QED BY <2>1, <2>2 DEF Both
  <1>6. ASSUME NEW x \in Spare, exec' = [exec EXCEPT ![x] = [NoRun EXCEPT !.hook = h, !.pc = "created"]],
               hookCall' = [hookCall EXCEPT ![c] = [left EXCEPT !.tasks = @ \cup {x}]], UNCHANGED runningHooks
        PROVE  Both'
    <2>1. x \in Unused
      BY <1>4
    <2>2. ExecPart' /\ Running' = Running /\ exec'[x] # NoRun /\ \A y \in Execution : y # x => exec'[y] = exec[y]
      BY <1>6, <2>1, ExecCreated DEF Both
    <2>3. x \in Execution /\ x # NoExecution /\ \A d \in HookCaller : x \notin hookCall[d].tasks /\ x # hookCall[d].on
      BY <2>1, FreshForAll DEF Both
    <2> DEFINE theCall == [left EXCEPT !.tasks = @ \cup {x}]
    <2>4. theCall \in Call /\ theCall.tasks = left.tasks \cup {x} /\ theCall.on = NoExecution /\ theCall.pc = "looping"
      <3> HIDE DEF left
      <3> QED BY <1>1, <2>3 DEF Call
    <2>5. hookCall' = [hookCall EXCEPT ![c] = theCall]
      BY <1>6
    <2> HIDE DEF theCall, left
    <2>6. \A y \in Execution : exec[y] # NoRun => exec'[y] # NoRun
      BY <2>2
    <2>7. \A y \in theCall.tasks : exec'[y] # NoRun
      BY <1>1, <1>3, <2>2, <2>4
    <2>8. \A d \in HookCaller \ {c} :
               /\ theCall.tasks \cap hookCall[d].tasks = {}
               /\ theCall.on \notin hookCall[d].tasks /\ hookCall[d].on \notin theCall.tasks
      BY <1>2, <2>3, <2>4
    <2>9. CallPart'
      BY <1>3, <2>2, <2>3, <2>4, <2>5, <2>6, <2>7, <2>8, CallChanges DEF Both
    <2> QED BY <2>2, <2>9 DEF Both
  <1>7. ASSUME NEW x \in Spare, h \notin runningHooks, Begins(x, h),
               hookCall' = [hookCall EXCEPT ![c] = [left EXCEPT !.pc = "awaiting", !.on = x]]
        PROVE  Both'
    <2>1. x \in Unused
      BY <1>4
    <2>2. ExecPart' /\ Running' = Running \cup {x} /\ exec'[x] # NoRun /\ \A y \in Execution : y # x => exec'[y] = exec[y]
      BY <1>7, <2>1, ExecBegins DEF Both
    <2>3. x \in Execution /\ x # NoExecution /\ \A d \in HookCaller : x \notin hookCall[d].tasks /\ x # hookCall[d].on
      BY <2>1, FreshForAll DEF Both
    <2> DEFINE theCall == [left EXCEPT !.pc = "awaiting", !.on = x]
    <2>4. theCall \in Call /\ theCall.tasks = left.tasks /\ theCall.on = x /\ theCall.pc = "awaiting"
      <3> HIDE DEF left
      <3> QED BY <1>1, <2>3 DEF Call
    <2>5. hookCall' = [hookCall EXCEPT ![c] = theCall]
      BY <1>7
    <2>6. x \notin left.tasks
      BY <1>1, <2>3
    <2> HIDE DEF theCall, left
    <2>7. \A y \in Execution : exec[y] # NoRun => exec'[y] # NoRun
      BY <2>2
    <2>8. \A y \in theCall.tasks : exec'[y] # NoRun
      BY <1>1, <1>3, <2>2, <2>4
    <2>9. \A d \in HookCaller \ {c} :
               /\ theCall.tasks \cap hookCall[d].tasks = {}
               /\ theCall.on \notin hookCall[d].tasks /\ hookCall[d].on \notin theCall.tasks
               /\ theCall.on # NoExecution => theCall.on # hookCall[d].on
      BY <1>2, <2>3, <2>4
    <2>10. /\ theCall.pc = "awaiting" => theCall.on \in Running'
           /\ theCall.pc # "awaiting" => theCall.on = NoExecution
           /\ theCall.on \notin theCall.tasks /\ Running \subseteq Running'
      BY <2>2, <2>4, <2>6
    <2>11. theCall \in Call /\ CallPart
      BY <2>4 DEF Both
    <2>12. CallPart'
      BY ONLY <2>5, <2>7, <2>8, <2>9, <2>10, <2>11, CallChanges
    <2> QED BY <2>2, <2>12 DEF Both
  <1> QED BY <1>5, <1>6, <1>7 DEF TakeHook

\* execute_hook(), trigger() and its gather.
LEMMA CallStep ==
    ASSUME Both, index \in [Trigger -> SUBSET Hook],
           NEW c \in HookCaller, (\E t \in Trigger : TriggerHooks(c, t)) \/ (\E h \in Hook : ExecuteHook(c, h)) \/ Gather(c)
    PROVE  Both'
  <1>1. Spare \subseteq Unused
    BY DEF Spare
  <1>2. hookCall[c] \in Call /\ hookCall \in [HookCaller -> Call]
    BY DEF Both, CallPart
  <1>3. \A d \in HookCaller : NoExecution \notin hookCall[d].tasks
    BY DEF Both, CallPart, Call
  <1>4. ASSUME UNCHANGED <<exec, runningHooks>>, NEW theCall \in Call, hookCall' = [hookCall EXCEPT ![c] = theCall],
               theCall.tasks \in {{}, hookCall[c].tasks}, theCall.on = NoExecution, theCall.pc # "awaiting"
        PROVE  Both'
    <2>1. ExecPart' /\ Running' = Running
      BY <1>4 DEF Both, ExecPart, Running
    <2>2. \A x \in theCall.tasks : exec'[x] # NoRun
      BY <1>4 DEF Both, CallPart
    <2>3. \A d \in HookCaller \ {c} : theCall.tasks \cap hookCall[d].tasks = {} /\ hookCall[d].on \notin theCall.tasks
      BY <1>4 DEF Both, CallPart
    <2>4. CallPart'
      BY <1>3, <1>4, <2>1, <2>2, <2>3, CallChanges DEF Both
    <2> QED BY <2>1, <2>4 DEF Both
  <1>5. ASSUME NEW t \in Trigger, TriggerHooks(c, t) PROVE Both'
    <2>1. PICK met \in SUBSET Selected(t) : hookCall' = [hookCall EXCEPT ![c] = [Quiet EXCEPT !.pc = "looping", !.todo = met]]
      BY <1>5 DEF TriggerHooks
    <2> DEFINE theCall == [Quiet EXCEPT !.pc = "looping", !.todo = met]
    <2>2. theCall \in Call /\ theCall.tasks = {} /\ theCall.on = NoExecution /\ theCall.pc # "awaiting"
      <3>1. met \in SUBSET Hook
        BY DEF Selected
      <3> QED BY <3>1 DEF Quiet, Call
    <2>3. UNCHANGED <<exec, runningHooks>>
      BY <1>5 DEF TriggerHooks
    <2> HIDE DEF theCall
    <2> QED BY <1>4, <2>1, <2>2, <2>3 DEF theCall
  <1>6. ASSUME Gather(c) PROVE Both'
    <2>1. hookCall[c].on = NoExecution
      BY <1>6 DEF Gather, Both, CallPart
    <2> DEFINE theCall == IF hookCall[c].tasks = {} THEN Quiet ELSE [hookCall[c] EXCEPT !.pc = "gathering"]
    <2>2. theCall \in Call /\ theCall.tasks = hookCall[c].tasks /\ theCall.on = NoExecution /\ theCall.pc # "awaiting"
      BY <1>2, <2>1 DEF Quiet, Call
    <2>3. UNCHANGED <<exec, runningHooks>> /\ hookCall' = [hookCall EXCEPT ![c] = theCall]
      BY <1>2, <1>6 DEF Gather
    <2> HIDE DEF theCall
    <2> QED BY <1>4, <2>2, <2>3
  <1>7. ASSUME NEW h \in Hook, ExecuteHook(c, h) PROVE Both'
    <2>1. PICK x \in Spare : Begins(x, h) /\ hookCall' = [hookCall EXCEPT ![c] = [Quiet EXCEPT !.pc = "awaiting", !.on = x]]
      BY <1>7 DEF ExecuteHook
    <2>2. x \in Unused /\ h \in Hook \ runningHooks
      BY <1>1, <1>7 DEF ExecuteHook
    <2>3. ExecPart' /\ Running' = Running \cup {x} /\ exec'[x] # NoRun /\ \A y \in Execution : y # x => exec'[y] = exec[y]
      BY <2>1, <2>2, ExecBegins DEF Both
    <2>4. x \in Execution /\ x # NoExecution /\ \A d \in HookCaller : x \notin hookCall[d].tasks /\ x # hookCall[d].on
      BY <2>2, FreshForAll DEF Both
    <2> DEFINE theCall == [Quiet EXCEPT !.pc = "awaiting", !.on = x]
    <2>5. theCall \in Call /\ theCall.tasks = {} /\ theCall.on = x /\ theCall.pc = "awaiting"
      BY <2>4 DEF Quiet, Call
    <2>6. hookCall' = [hookCall EXCEPT ![c] = theCall]
      BY <2>1
    <2> HIDE DEF theCall
    <2>7. \A y \in Execution : exec[y] # NoRun => exec'[y] # NoRun
      BY <2>3
    <2>8. \A d \in HookCaller \ {c} :
               /\ theCall.tasks \cap hookCall[d].tasks = {}
               /\ theCall.on \notin hookCall[d].tasks /\ hookCall[d].on \notin theCall.tasks
               /\ theCall.on # NoExecution => theCall.on # hookCall[d].on
      BY <2>4, <2>5
    <2>9. /\ theCall.pc = "awaiting" => theCall.on \in Running'
          /\ theCall.pc # "awaiting" => theCall.on = NoExecution
          /\ theCall.on \notin theCall.tasks /\ Running \subseteq Running'
          /\ \A y \in theCall.tasks : exec'[y] # NoRun
      BY <2>3, <2>5
    <2>10. theCall \in Call /\ CallPart
      BY <2>5 DEF Both
    <2>11. CallPart'
      BY ONLY <2>6, <2>7, <2>8, <2>9, <2>10, CallChanges
    <2> QED BY <2>3, <2>11 DEF Both
  <1> QED BY <1>5, <1>6, <1>7

\* An execution is over: refused, or after its last attempt.
LEMMA OverStep ==
    ASSUME Both, NEW x \in Execution, exec[x] # NoRun, CallEnds(x),
           \/ exec[x].pc = "created" /\ UNCHANGED runningHooks
           \/ exec[x].pc # "created" /\ runningHooks' = runningHooks \ {exec[x].hook}
    PROVE  Both'
  <1>1. exec' = [y \in Execution |-> IF y \in {x} THEN NoRun ELSE exec[y]]
    BY DEF CallEnds, Both, ExecPart
  <1>2. runningHooks' = runningHooks \ {exec[y].hook : y \in {z \in {x} : exec[z].pc # "created"}}
    OBVIOUS
  <1>3. ExecPart' /\ Running' = Running \ {x} /\ \A y \in Execution \ {x} : exec'[y] = exec[y]
    <2>1. {x} \in SUBSET Execution /\ \A y \in {x} : exec[y] # NoRun
      OBVIOUS
    <2> QED BY ONLY Both, <1>1, <1>2, <2>1, ExecOver DEF Both
  <1>4. \A d \in HookCaller : hookCall[d] \in Call
    BY DEF Both, CallPart
  <1>5. ASSUME NEW d \in HookCaller
        PROVE  /\ hookCall'[d] \in Call
               /\ \/ hookCall'[d] = Quiet
                  \/ /\ hookCall'[d].pc = hookCall[d].pc /\ hookCall'[d].on = hookCall[d].on
                     /\ hookCall[d].on \notin {x} /\ hookCall'[d].tasks = hookCall[d].tasks \ {x}
    <2> DEFINE left == [hookCall[d] EXCEPT !.tasks = @ \ {x}]
    <2>1. left \in Call /\ left.pc = hookCall[d].pc /\ left.on = hookCall[d].on /\ left.tasks = hookCall[d].tasks \ {x}
      BY <1>4 DEF Call
    <2>2. Quiet \in Call
      BY DEF Quiet, Call
    <2>3. hookCall'[d] = IF hookCall[d].on = x \/ (hookCall[d].pc = "gathering" /\ left.tasks = {}) THEN Quiet ELSE left
      BY DEF CallEnds
    <2> HIDE DEF left
    <2> QED BY <2>1, <2>2, <2>3
  <1>6. hookCall' \in [HookCaller -> Call]
    BY <1>5 DEF CallEnds
  <1>7. CallPart'
    BY <1>3, <1>5, <1>6, CallsShed DEF Both
  <1> QED BY <1>3, <1>7 DEF Both

LEMMA CancelStep ==
    ASSUME Both, NEW c \in HookCaller, CancelCall(c)
    PROVE  Both'
  <1> DEFINE gone == IF hookCall[c].pc = "gathering" THEN hookCall[c].tasks ELSE {hookCall[c].on}
  <1>1. hookCall[c] \in Call /\ hookCall[c].pc \in {"awaiting", "gathering"} /\ hookCall \in [HookCaller -> Call]
    BY DEF Both, CallPart, CancelCall
  <1>2. hookCall[c].pc = "awaiting" => hookCall[c].on \in Running /\ exec[hookCall[c].on] # NoRun
    <2>1. hookCall[c].pc = "awaiting" => hookCall[c].on \in Running
      BY DEF Both, CallPart
    <2>2. Running \subseteq Execution
      BY DEF Running
    <2> QED BY <2>1, <2>2, IdleAreNot
  <1>3. gone \in SUBSET Execution /\ \A x \in gone : exec[x] # NoRun
    <2>1. \A x \in hookCall[c].tasks : x \in Execution /\ exec[x] # NoRun
      BY <1>1 DEF Both, CallPart, Call
    <2> QED BY <1>1, <1>2, <2>1 DEF Running
  <1>4. /\ exec' = [x \in Execution |-> IF x \in gone THEN NoRun ELSE exec[x]]
        /\ runningHooks' = runningHooks \ {exec[x].hook : x \in {y \in gone : exec[y].pc # "created"}}
        /\ hookCall' = [hookCall EXCEPT ![c] = Quiet]
    BY DEF CancelCall
  <1>5. \A d \in HookCaller \ {c} : hookCall[d].on \notin gone /\ hookCall[d].tasks \cap gone = {}
    <2>1. CASE hookCall[c].pc = "gathering"
      BY <2>1 DEF Both, CallPart
    <2>2. CASE hookCall[c].pc = "awaiting"
      <3>1. hookCall[c].on # NoExecution
        BY <1>2, <2>2 DEF Running
      <3> QED BY <2>2, <3>1 DEF Both, CallPart
    <2> QED BY <1>1, <2>1, <2>2
  <1> HIDE DEF gone
  <1>6. ExecPart' /\ Running' = Running \ gone /\ \A y \in Execution \ gone : exec'[y] = exec[y]
    BY <1>3, <1>4, ExecOver DEF Both
  <1>7. hookCall' \in [HookCaller -> Call] /\ hookCall'[c] = Quiet /\ \A d \in HookCaller \ {c} : hookCall'[d] = hookCall[d]
    <2>1. Quiet \in Call
      BY DEF Quiet, Call
    <2> QED BY <1>1, <1>4, <2>1
  <1>8. \A d \in HookCaller \ {c} : hookCall[d].tasks = hookCall[d].tasks \ gone
    BY <1>5
  <1>9. CallPart'
    BY <1>3, <1>5, <1>6, <1>7, <1>8, CallsShed DEF Both
  <1> QED BY <1>6, <1>9 DEF Both

LEMMA TriedAgain ==
    ASSUME NEW run \in Run, NEW ok \in BOOLEAN
    PROVE  /\ Again(run, ok) \in Run /\ Again(run, ok).hook = run.hook
           /\ Again(run, ok).pc = "sleeping" /\ Again(run, ok).attempt = run.attempt + 1
  <1>1. run.attempt + 1 \in Nat /\ run.hook \in Hook
    BY DEF Run
  <1>2. (run.succeeded \/ ok) \in BOOLEAN
    BY Zenon
  <1>3. Again(run, ok) \in Run
    BY <1>1, <1>2, Zenon DEF Run, Again
  <1> QED BY <1>3 DEF Again

LEMMA ExecuteStep ==
    ASSUME Both, NEW x \in Execution, Executes(x)
    PROVE  Both'
  <1>1. exec[x] # NoRun /\ exec[x] \in Run /\ exec[x].hook \in Hook /\ exec[x].attempt <= Retries[exec[x].hook]
    <2>1. exec[x] # NoRun
      BY DEF Executes, StartTask, Acts, RetryHook, NoRun
    <2> QED BY <2>1, RunningAre DEF Both, ExecPart
  <1>2. ASSUME NEW run \in Run, exec' = [exec EXCEPT ![x] = run], run.hook = exec[x].hook, run.pc # "created",
               run.attempt <= Retries[exec[x].hook], UNCHANGED hookCall,
               \/ exec[x].pc # "created" /\ UNCHANGED runningHooks
               \/ exec[x].hook \notin runningHooks /\ runningHooks' = runningHooks \cup {exec[x].hook}
        PROVE  Both'
    <2>1. ExecPart' /\ Running' = Running \cup {x} /\ exec'[x] # NoRun /\ \A y \in Execution : y # x => exec'[y] = exec[y]
      BY <1>1, <1>2, ExecGoesOn DEF Both
    <2>2. CallPart'
      BY <1>2, <2>1, CallsKept DEF Both
    <2> QED BY <2>1, <2>2 DEF Both
  <1>3. CASE StartTask(x)
    <2>1. CASE CallEnds(x) /\ UNCHANGED runningHooks
      BY <1>1, <1>3, <2>1, OverStep DEF StartTask
    <2>2. CASE /\ exec[x].hook \notin runningHooks /\ runningHooks' = runningHooks \cup {exec[x].hook}
               /\ exec' = [exec EXCEPT ![x].pc = "acting"] /\ UNCHANGED hookCall
      <3> DEFINE run == [exec[x] EXCEPT !.pc = "acting"]
      <3>1. run \in Run /\ run.hook = exec[x].hook /\ run.pc # "created" /\ run.attempt = exec[x].attempt
        BY <1>1 DEF Run
      <3>2. exec' = [exec EXCEPT ![x] = run]
        BY <2>2
      <3> HIDE DEF run
      <3> QED BY <1>1, <1>2, <2>2, <3>1, <3>2
    <2> QED BY <1>3, <2>1, <2>2 DEF StartTask
  <1>4. CASE Acts(x)
    <2>1. CASE CallEnds(x) /\ runningHooks' = runningHooks \ {exec[x].hook}
      BY <1>1, <1>4, <2>1, OverStep DEF Acts
    <2>2. ASSUME exec[x].attempt < Retries[exec[x].hook], UNCHANGED <<runningHooks, hookCall>>, NEW ok \in BOOLEAN,
                 exec' = [exec EXCEPT ![x] = Again(@, ok)]
          PROVE  Both'
      <3> DEFINE run == Again(exec[x], ok)
      <3>1. run \in Run /\ run.hook = exec[x].hook /\ run.pc # "created" /\ run.attempt = exec[x].attempt + 1
        BY <1>1, TriedAgain
      <3>2. exec' = [exec EXCEPT ![x] = run]
        BY <2>2 DEF Both, ExecPart
      <3>3. exec[x].attempt + 1 <= Retries[exec[x].hook] /\ exec[x].pc # "created"
        <4>1. exec[x].attempt \in Nat /\ Retries[exec[x].hook] \in Nat
          BY <1>1 DEF Run
        <4> QED BY <1>4, <2>2, <4>1 DEF Acts
      <3> HIDE DEF run
      <3> QED BY <1>1, <1>2, <2>2, <3>1, <3>2, <3>3
    <2> QED BY <1>4, <2>1, <2>2 DEF Acts
  <1>5. CASE RetryHook(x)
    <2> DEFINE run == [exec[x] EXCEPT !.pc = "acting"]
    <2>1. run \in Run /\ run.hook = exec[x].hook /\ run.pc # "created" /\ run.attempt = exec[x].attempt
      BY <1>1 DEF Run
    <2>2. exec' = [exec EXCEPT ![x] = run] /\ UNCHANGED <<hookCall, runningHooks>> /\ exec[x].pc # "created"
      BY <1>5 DEF RetryHook
    <2> HIDE DEF run
    <2> QED BY <1>1, <1>2, <2>1, <2>2
  <1> QED BY <1>3, <1>4, <1>5 DEF Executes

LEMMA HookInductive == HookIInv /\ [HookNext]_hookVars => HookIInv'
  <1> SUFFICES ASSUME HookIInv, [HookNext]_hookVars PROVE HookIInv'
    OBVIOUS
  <1>1. RegistryPart' /\ RatePart'
    BY RegistryStep, RateStep DEF HookIInv
  <1>2. Both
    BY DEF HookIInv, Both
  <1>3. ASSUME exec' = exec, runningHooks' = runningHooks, hookCall' = hookCall PROVE Both'
    BY <1>2, <1>3 DEF Both, ExecPart, CallPart, Running
  <1>4. ASSUME NEW h \in Hook, UnregisterHook(h) \/ Toggle(h) \/ MinutePasses(h) \/ CooldownEnds(h) \/ \E triggers \in SUBSET Trigger : RegisterHook(h, triggers) \/ Reload(h, triggers)
        PROVE  Both'
    BY <1>3, <1>4 DEF UnregisterHook, Toggle, MinutePasses, CooldownEnds, RegisterHook, Reload
  <1>5. ASSUME NEW c \in HookCaller, (\E t \in Trigger : TriggerHooks(c, t)) \/ (\E h \in Hook : ExecuteHook(c, h)) \/ CancelCall(c) \/ Loops(c)
        PROVE  Both'
    BY <1>2, <1>5, CallStep, CancelStep, TakeStep DEF Loops, HookIInv, RegistryPart
  <1>6. ASSUME NEW x \in Execution, Executes(x) PROVE Both'
    BY <1>2, <1>6, ExecuteStep
  <1>7. ASSUME UNCHANGED hookVars PROVE Both'
    <2>1. exec' = exec /\ runningHooks' = runningHooks /\ hookCall' = hookCall
      BY <1>7 DEF hookVars
    <2> QED BY <1>3, <2>1
  <1>8. Both'
    <2>1. ASSUME NEW h \in Hook, NEW triggers \in SUBSET Trigger, RegisterHook(h, triggers) \/ Reload(h, triggers) PROVE Both'
      BY <1>4, <2>1
    <2>2. ASSUME NEW h \in Hook, UnregisterHook(h) \/ Toggle(h) \/ MinutePasses(h) \/ CooldownEnds(h) PROVE Both'
      BY <1>4, <2>2
    <2>3. CASE HookNext
      BY <1>5, <1>6, <2>1, <2>2, <2>3 DEF HookNext
    <2> QED BY <1>7, <2>3
  <1> QED BY <1>1, <1>8 DEF HookIInv, Both

\* The registry and its index agree, no hook runs twice at once, and the names
\* that run are those of executions under way (HookManager.trigger,
\* HookManager.execute_hook, HookManager._execute_hook), however many hooks,
\* callers and retries there are.
THEOREM HookSafe == HookSpec => []HookInv
  <1>1. HookInit => HookIInv
    BY HookInitially
  <1>2. HookIInv /\ [HookNext]_hookVars => HookIInv'
    BY HookInductive
  <1>3. HookIInv => HookInv
    BY HookImplied
  <1> QED BY <1>1, <1>2, <1>3, PTL DEF HookSpec

-----------------------------------------------------------------------------
(* The agents *)

USE AgentAssumption

\* An agent is chosen only while its row is being saved, under the lock, and
\* the message that is worked on is no longer queued.
AgentIInv ==
    /\ AgentInv
    /\ \A c \in AgentCaller : assigner[c].agent # Nobody => assigner[c].pc = "saving"
    /\ \A c \in AgentCaller : assigner[c].pc = "saving" => assigner[c].agent # Nobody
    /\ handling # NoMail => ~ Queued(handling.message)

Assignments ==
    /\ agentStatus \in [Agent -> AgentStatuses] /\ agentRow \in [Agent -> AgentStatuses]
    /\ agentLock \in AgentCaller \cup {Nobody} /\ assigned \subseteq Agent
    /\ assigner \in [AgentCaller -> [pc : {"idle", "waiting", "saving"}, needs : SUBSET Capability, agent : Agent \cup {Nobody}]]
    /\ manager \in {"starting", "running", "stopping", "stopped", "failed"}
    /\ \A c, d \in AgentCaller : c # d /\ assigner[c].agent # Nobody => assigner[c].agent # assigner[d].agent
    /\ \A c \in AgentCaller : assigner[c].pc = "saving" => agentLock = c /\ assigner[c].needs \subseteq Skills[assigner[c].agent]
    /\ \A c \in AgentCaller : assigner[c].agent # Nobody <=> assigner[c].pc = "saving"
    /\ \A a \in Agent : agentStatus[a] = "busy" => a \in assigned
    /\ \A a \in Agent : agentRow[a] = agentStatus[a] \/ (agentRow[a] = "available" /\ agentStatus[a] = "busy") \/ manager = "failed"
    /\ manager = "stopped" => \A a \in Agent : agentStatus[a] = "offline" /\ agentRow[a] = "offline"

Mails ==
    /\ queue \in Seq([message : Message, kind : Kinds])
    /\ handling \in {NoMail} \cup [message : Message, kind : Kinds, step : {"taken", "marking"}]
    /\ mail \in [Message -> {"unsent", "saving", "saved", "processed", "failed"}]
    /\ \A m \in Message : mail[m] = "saved" <=> Queued(m) \/ (handling # NoMail /\ handling.message = m)
    /\ \A i, j \in DOMAIN queue : queue[i].message = queue[j].message => i = j
    /\ handling # NoMail => ~ Queued(handling.message)

LEMMA Parts == AgentIInv <=> Assignments /\ Mails
  BY DEF AgentIInv, AgentInv, AgentTypeOK, Assignments, Mails

LEMMA AgentInitially == AgentInit => Assignments /\ Mails
  <1> SUFFICES ASSUME AgentInit PROVE Assignments /\ Mails
    OBVIOUS
  <1>1. Assignments
    BY DEF AgentInit, Assignments, AgentResting, AgentStatuses
  <1>2. Mails
    BY EmptySeq DEF AgentInit, Mails, Queued, NoMail
  <1> QED BY <1>1, <1>2

\* A step of the assignments.
LEMMA AssignmentsStep == Assignments /\ [AgentNext]_agentVars => Assignments'
  <1> SUFFICES ASSUME Assignments, [AgentNext]_agentVars PROVE Assignments'
    OBVIOUS
  <1> USE DEF Assignments, AgentStatuses, AgentResting, SetAgentStatus, SetUnsaved
  <1>1. ASSUME NEW a \in Agent, RegisterAgent(a) PROVE Assignments'
    BY <1>1 DEF RegisterAgent
  <1>2. ASSUME NEW c \in AgentCaller, Assign(c) PROVE Assignments'
    <2>1. CASE assigner' = [assigner EXCEPT ![c] = AgentResting] /\ UNCHANGED <<agentStatus, agentRow, agentLock, assigned, manager>>
      BY <1>2, <2>1 DEF Assign
    <2>2. CASE \E a \in Candidates(assigner[c].needs) :
                 /\ SetAgentStatus(a, "busy") \/ SetUnsaved(a, "busy")
                 /\ assigned' = assigned \cup {a} /\ agentLock' = c
                 /\ assigner' = [assigner EXCEPT ![c].pc = "saving", ![c].agent = a]
      <3>1. PICK a \in Candidates(assigner[c].needs) :
                 /\ SetAgentStatus(a, "busy") \/ SetUnsaved(a, "busy")
                 /\ assigned' = assigned \cup {a} /\ agentLock' = c
                 /\ assigner' = [assigner EXCEPT ![c].pc = "saving", ![c].agent = a]
        BY <2>2
      <3>2. a \in Agent /\ agentStatus[a] = "available" /\ assigner[c].needs \subseteq Skills[a]
        BY DEF Candidates
      <3>3. \A d \in AgentCaller : assigner[d].pc # "saving" /\ assigner[d].agent = Nobody
        BY <1>2 DEF Assign
      <3>4. UNCHANGED manager
        BY <1>2 DEF Assign
      <3> QED BY <3>1, <3>2, <3>3, <3>4
    <2> QED BY <1>2, <2>1, <2>2 DEF Assign
  <1>3. ASSUME NEW c \in AgentCaller, AssignRaises(c) PROVE Assignments'
    BY <1>3 DEF AssignRaises
  <1>4. ASSUME NEW c \in AgentCaller, NEW needs \in SUBSET Capability, AskFor(c, needs) PROVE Assignments'
    BY <1>4 DEF AskFor
  <1>5. ASSUME NEW a \in Agent, TakeOffline(a) PROVE Assignments'
    BY <1>5 DEF TakeOffline
  <1>6. CASE Started \/ StopAgents \/ Stopped
    BY <1>6 DEF Started, StopAgents, Stopped
  <1>7. CASE UNCHANGED <<agentStatus, agentRow, agentLock, assigner, assigned, manager>>
    BY <1>7
  <1>8. ASSUME NEW m \in Message, SendMessage(m) \/ MessageUnsaved(m) \/ \E kind \in Kinds : QueueMessage(m, kind)
        PROVE  Assignments'
    BY <1>7, <1>8 DEF SendMessage, MessageUnsaved, QueueMessage
  <1>9. CASE Processes
    BY <1>7, <1>9 DEF Processes, TakeMessage, HandleAgentMessage, MarkProcessed
  <1>10. CASE UNCHANGED agentVars
    BY <1>7, <1>10 DEF agentVars
  <1> QED BY <1>1, <1>2, <1>3, <1>4, <1>5, <1>6, <1>8, <1>9, <1>10 DEF AgentNext, Assigns, Stops

\* A step of the messages.
LEMMA MailsStep == Mails /\ [AgentNext]_agentVars => Mails'
  <1> SUFFICES ASSUME Mails, [AgentNext]_agentVars PROVE Mails'
    OBVIOUS
  <1> DEFINE Mail == [message : Message, kind : Kinds]
  <1>0. CASE UNCHANGED mailVars
    BY <1>0 DEF mailVars, Mails, Queued
  <1>1. CASE StopAgents
    BY <1>1 DEF StopAgents, Mails, Queued, NoMail
  <1>10. ASSUME NEW m \in Message, SendMessage(m) \/ MessageUnsaved(m) PROVE Mails'
    <2>1. UNCHANGED <<queue, handling>> /\ mail[m] # "saved"
      BY <1>10 DEF SendMessage, MessageUnsaved
    <2>2. PICK s \in {"unsent", "saving"} : mail' = [mail EXCEPT ![m] = s]
      BY <1>10 DEF SendMessage, MessageUnsaved
    <2> QED BY <2>1, <2>2 DEF Mails, Queued
  <1>2. ASSUME NEW m \in Message, NEW kind \in Kinds, QueueMessage(m, kind) PROVE Mails'
    <2> DEFINE new == [message |-> m, kind |-> kind]
    <2>1. /\ queue' \in Seq(Mail) /\ DOMAIN queue' = 1 .. Len(queue) + 1 /\ Len(queue) \in Nat
          /\ DOMAIN queue = 1 .. Len(queue)
          /\ \A i \in 1 .. Len(queue) : queue'[i] = queue[i]
          /\ queue'[Len(queue) + 1] = new
      BY <1>2 DEF QueueMessage, Mails
    <2>2. ~ Queued(m) /\ ~ (handling # NoMail /\ handling.message = m) /\ mail[m] = "saving"
      BY <1>2 DEF QueueMessage, Mails
    <2>3. ASSUME NEW n \in Message PROVE Queued(n)' <=> Queued(n) \/ n = m
      <3>1. new.message = m OBVIOUS
      <3>2. ASSUME Queued(n) PROVE Queued(n)'
        <4>1. PICK i \in 1 .. Len(queue) : queue[i].message = n BY <2>1, <3>2 DEF Queued
        <4>2. queue'[i].message = n /\ i \in DOMAIN queue' BY <2>1, <4>1
        <4> QED BY <4>2 DEF Queued
      <3>3. ASSUME n = m PROVE Queued(n)'
        <4>1. Len(queue) + 1 \in DOMAIN queue' /\ queue'[Len(queue) + 1].message = n BY <2>1, <3>1, <3>3
        <4> QED BY <4>1 DEF Queued
      <3>4. ASSUME Queued(n)', n # m PROVE Queued(n)
        <4>1. PICK i \in DOMAIN queue' : queue'[i].message = n BY <3>4 DEF Queued
        <4>2. i # Len(queue) + 1 BY <2>1, <3>1, <3>4, <4>1
        <4>3. i \in 1 .. Len(queue) /\ queue[i].message = n BY <2>1, <4>1, <4>2
        <4> QED BY <2>1, <4>3 DEF Queued
      <3> QED BY <3>2, <3>3, <3>4
    <2>4. ASSUME NEW i \in DOMAIN queue', NEW j \in DOMAIN queue', queue'[i].message = queue'[j].message PROVE i = j
      <3>1. \A k \in 1 .. Len(queue) : queue[k].message # m BY <2>1, <2>2 DEF Queued
      <3>2. \A k \in 1 .. Len(queue) : queue'[k].message = queue[k].message BY <2>1
      <3>3. queue'[Len(queue) + 1].message = m BY <2>1
      <3>4. \A x, y \in 1 .. Len(queue) : queue[x].message = queue[y].message => x = y BY <2>1 DEF Mails
      <3>5. \A k \in DOMAIN queue' : k \in 1 .. Len(queue) \/ k = Len(queue) + 1 BY <2>1
      <3> HIDE DEF new
      <3> QED BY <2>4, <3>1, <3>2, <3>3, <3>4, <3>5
    <2>5. UNCHANGED handling /\ mail' = [mail EXCEPT ![m] = "saved"]
      BY <1>2 DEF QueueMessage
    <2> QED BY <2>1, <2>2, <2>3, <2>4, <2>5 DEF Mails, NoMail
  <1>3. CASE TakeMessage
    <2>1. /\ queue' \in Seq(Mail) /\ Len(queue) \in Nat \ {0} /\ DOMAIN queue = 1 .. Len(queue)
          /\ DOMAIN queue' = 1 .. Len(queue) - 1
          /\ \A i \in 1 .. Len(queue) - 1 : queue'[i] = queue[i + 1]
          /\ Head(queue) = queue[1] /\ queue[1] \in Mail
      <3> HIDE DEF Mail
      <3>1. queue \in Seq(Mail) /\ queue # <<>> /\ queue' = Tail(queue)
        BY <1>3 DEF TakeMessage, Mails, Mail
      <3>2. Len(queue) \in Nat \ {0} /\ Head(queue) = queue[1] /\ queue[1] \in Mail
        BY <3>1
      <3>3. /\ Tail(queue) \in Seq(Mail) /\ Len(Tail(queue)) = Len(queue) - 1
            /\ \A i \in 1 .. Len(queue) - 1 : Tail(queue)[i] = queue[i + 1]
        BY <3>1, <3>2
      <3> QED BY <3>1, <3>2, <3>3
    <2>2. /\ handling' = [message |-> queue[1].message, kind |-> queue[1].kind, step |-> "taken"]
          /\ handling = NoMail /\ UNCHANGED mail
      BY <1>3, <2>1 DEF TakeMessage
    <2>3. handling' # NoMail /\ handling'.message = queue[1].message
      BY <2>2 DEF NoMail
    <2>4. \A n \in Message : Queued(n) <=> Queued(n)' \/ n = queue[1].message
      <3> SUFFICES ASSUME NEW n \in Message PROVE Queued(n) <=> Queued(n)' \/ n = queue[1].message
        OBVIOUS
      <3>1. ASSUME Queued(n), n # queue[1].message PROVE Queued(n)'
        <4>1. PICK i \in 1 .. Len(queue) : queue[i].message = n
          BY <2>1, <3>1 DEF Queued
        <4>2. i - 1 \in 1 .. Len(queue) - 1 /\ queue'[i - 1] = queue[i]
          BY <2>1, <3>1, <4>1
        <4> QED BY <2>1, <4>1, <4>2 DEF Queued
      <3>2. ASSUME Queued(n)' PROVE Queued(n)
        <4>1. PICK i \in 1 .. Len(queue) - 1 : queue'[i].message = n
          BY <2>1, <3>2 DEF Queued
        <4>2. i + 1 \in 1 .. Len(queue) /\ queue[i + 1].message = n
          BY <2>1, <4>1
        <4> QED BY <2>1, <4>2 DEF Queued
      <3>3. ASSUME n = queue[1].message PROVE Queued(n)
        <4>1. 1 \in DOMAIN queue
          BY <2>1
        <4> QED BY <3>3, <4>1 DEF Queued
      <3> QED BY <3>1, <3>2, <3>3
    <2>5. \A i \in DOMAIN queue' : queue'[i].message # queue[1].message
      <3>1. ASSUME NEW i \in 1 .. Len(queue) - 1 PROVE queue'[i].message # queue[1].message
        <4>1. i + 1 \in DOMAIN queue /\ 1 \in DOMAIN queue /\ i + 1 # 1
          BY <2>1
        <4> QED BY <2>1, <4>1 DEF Mails
      <3> QED BY <2>1, <3>1
    <2>6. \A i, j \in DOMAIN queue' : queue'[i].message = queue'[j].message => i = j
      <3> SUFFICES ASSUME NEW i \in 1 .. Len(queue) - 1, NEW j \in 1 .. Len(queue) - 1,
                          queue'[i].message = queue'[j].message
                   PROVE  i = j
        BY <2>1
      <3>1. i + 1 \in DOMAIN queue /\ j + 1 \in DOMAIN queue
        BY <2>1
      <3>2. queue[i + 1].message = queue[j + 1].message
        BY <2>1
      <3>3. i + 1 = j + 1
        BY <3>1, <3>2 DEF Mails
      <3> QED BY <3>3
    <2>7. handling' \in [message : Message, kind : Kinds, step : {"taken", "marking"}]
      BY <2>1, <2>2
    <2>8. ~ Queued(handling.message)'
      BY <2>3, <2>5 DEF Queued
    <2>9. \A n \in Message : mail'[n] = "saved" <=> Queued(n)' \/ (handling' # NoMail /\ handling'.message = n)
      BY <2>2, <2>3, <2>4 DEF Mails
    <2> QED BY <2>1, <2>2, <2>6, <2>7, <2>8, <2>9 DEF Mails
  <1>4. CASE HandleAgentMessage
    <2>1. UNCHANGED queue /\ handling # NoMail /\ handling \in [message : Message, kind : Kinds, step : {"taken", "marking"}]
      BY <1>4 DEF HandleAgentMessage, Mails, NoMail
    <2>2. CASE handling' = NoMail /\ mail' = [mail EXCEPT ![handling.message] = "failed"]
      BY <2>1, <2>2 DEF Mails, Queued
    <2>3. CASE handling' = [handling EXCEPT !.step = "marking"] /\ UNCHANGED mail
      <3>1. /\ handling' \in [message : Message, kind : Kinds, step : {"taken", "marking"}]
            /\ handling'.message = handling.message /\ handling' # NoMail
        BY <2>1, <2>3 DEF NoMail
      <3> QED BY <2>1, <2>3, <3>1 DEF Mails, Queued
    <2> QED BY <1>4, <2>2, <2>3 DEF HandleAgentMessage
  <1>5. CASE MarkProcessed
    <2>1. UNCHANGED queue /\ handling # NoMail /\ handling \in [message : Message, kind : Kinds, step : {"taken", "marking"}]
      BY <1>5 DEF MarkProcessed, Mails, NoMail
    <2> QED BY <1>5, <2>1 DEF MarkProcessed, Mails, Queued
  <1>6. CASE \E a \in Agent : RegisterAgent(a) \/ TakeOffline(a)
    BY <1>0, <1>6 DEF RegisterAgent, TakeOffline
  <1>7. CASE \E c \in AgentCaller : Assign(c) \/ AssignRaises(c) \/ \E needs \in SUBSET Capability : AskFor(c, needs)
    BY <1>0, <1>7 DEF Assign, AssignRaises, AskFor
  <1>8. CASE Started \/ Stopped
    BY <1>0, <1>8 DEF Started, Stopped
  <1>9. CASE UNCHANGED agentVars
    BY <1>0, <1>9 DEF agentVars, mailVars
  <1> QED BY <1>1, <1>2, <1>3, <1>4, <1>5, <1>6, <1>7, <1>8, <1>9, <1>10 DEF AgentNext, Assigns, Stops, Processes

\* For all agents, callers and messages: a task goes to an agent that can do it
\* and that no other task went to, memory and table differ only where a save
\* failed, a stop that ends leaves every agent offline, and a message is in one place at a time (assign_task, stop,
\* send_message, _process_messages).
THEOREM AgentSafe == AgentSpec => []AgentInv
  <1>1. AgentInit => AgentIInv
    BY AgentInitially, Parts
  <1>2. AgentIInv /\ [AgentNext]_agentVars => AgentIInv'
    <2>1. (AgentIInv <=> Assignments /\ Mails)'
      BY Parts, PTL
    <2> QED BY Parts, <2>1, AssignmentsStep, MailsStep
  <1>3. AgentIInv => AgentInv
    BY DEF AgentIInv
  <1> QED BY <1>1, <1>2, <1>3, PTL DEF AgentSpec
=============================================================================
