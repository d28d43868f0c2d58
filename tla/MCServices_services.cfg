SPECIFICATION Spec
CONSTANTS
    Hook = {h1, h2}
    h1 = h1
    h2 = h2
    Trigger = {t1, custom}
    Custom = custom
    HookCaller = {c1, c2}
    Execution = {x1, x2}
    NoExecution = NoExecution
    AsyncHook <- AsyncHooks
    Priority <- Priorities
    Retries <- RetryCounts
    Limit <- RateLimits
    Cools <- CoolingHooks
    Bounded <- BoundedHooks
    Agent = {a1, a2}
    a1 = a1
    a2 = a2
    Capability = {p, q}
    p = p
    q = q
    Skills <- SkillsOf
    AgentCaller = {c1, c2}
    Nobody = Nobody
    Message = {m1, m2}
    Request = {r1, r2}
    Timed = {r1}
    ServerCall = ServerCall
    MaxAttempts = 1
    MaxQueue = 1
INVARIANTS
    HookInv
    AgentInv
PROPERTIES
    HooksReturn
    AgentCallsReturn
    RequestsEnd
CHECK_DEADLOCK FALSE
