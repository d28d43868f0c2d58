-------------------------- MODULE MCSessionManager --------------------------
(* SessionManager on small sets of calls. *)
EXTENDS SessionManager, TLC

Symmetry == Permutations(Session)

\* Two creators contend, or two cancellers do, never all four.  The guard holds
\* back callers only, who owe no call: fairness means what it does without it.
OneContest ==
    \/ Cardinality({s \in Session : creator[s] # "idle"}) <= 1
    \/ shutdown = "idle" /\ \A k \in Canceller, s \in Session : canceller[k][s] = "idle"

ContestSpec == Init /\ [][Next /\ OneContest']_vars /\ Fairness
=============================================================================
