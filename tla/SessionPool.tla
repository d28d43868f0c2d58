----------------------------- MODULE SessionPool -----------------------------
(***************************************************************************)
(* What SessionManager promises about its table of sessions, without the   *)
(* lock, the awaits, the subprocesses and the monitor: a pool of at most   *)
(* MaxConcurrent sessions; a session is admitted once, stays for a while   *)
(* and leaves for good.                                                    *)
(***************************************************************************)
EXTENDS Naturals, FiniteSets

CONSTANTS Session,        \* the session ids create_session may hand out
          MaxConcurrent   \* session_config.max_concurrent_sessions

VARIABLES active,         \* the sessions in the pool
          gone            \* the sessions that were in it and left

poolVars == <<active, gone>>

PoolInit == active = {} /\ gone = {}

Admit(s) ==
    /\ s \notin active \cup gone
    /\ Cardinality(active) < MaxConcurrent
    /\ active' = active \cup {s}
    /\ UNCHANGED gone

Release(s) ==
    /\ s \in active
    /\ active' = active \ {s}
    /\ gone' = gone \cup {s}

PoolNext == \E s \in Session : Admit(s) \/ Release(s)

PoolSpec == PoolInit /\ [][PoolNext]_poolVars
==============================================================================
