-------------------------- MODULE CheckpointHistory --------------------------
(***************************************************************************)
(* What CheckpointManager promises about the checkpoints, without the      *)
(* storage, its index and files, the suspensions and the collector: a      *)
(* checkpoint appears whole in one step, keeps its content until it is     *)
(* deleted and does not come back; a restore returns the content of the    *)
(* checkpoint it moves HEAD to; a crash costs nothing but answers that     *)
(* were not yet used.                                                      *)
(***************************************************************************)
CONSTANTS
    Worker,     \* the callers
    Id,         \* the checkpoint ids
    NoId,
    Hash,       \* the contents
    Empty       \* those of length 0, which a restore leaves out

VARIABLES
    kept,       \* the checkpoints, and the contents of each
    gone,       \* the ids of the deleted ones
    current,    \* HEAD
    answer      \* what each caller's restore has returned, if it did

historyVars == <<kept, gone, current, answer>>

Known == DOMAIN kept \cup gone

HistoryInit ==
    /\ kept = [i \in {} |-> {}]
    /\ gone = {}
    /\ current = NoId
    /\ answer = [w \in {} |-> {}]

Save(i, S) ==
    /\ i \notin Known
    /\ kept' = [j \in DOMAIN kept \cup {i} |-> IF j = i THEN S ELSE kept[j]]
    /\ current' = i
    /\ UNCHANGED <<gone, answer>>

\* Of a checkpoint deleted during the restore, any part may have been read.
Restore(w, i) ==
    /\ i \in Known
    /\ current' = i
    /\ \E S \in SUBSET Hash :
          /\ i \in DOMAIN kept => S = kept[i] \ Empty
          /\ answer' = [v \in DOMAIN answer \cup {w} |-> IF v = w THEN S ELSE answer[v]]
    /\ UNCHANGED <<kept, gone>>

Drop(i) ==
    /\ i \in DOMAIN kept
    /\ kept' = [j \in DOMAIN kept \ {i} |-> kept[j]]
    /\ gone' = gone \cup {i}
    /\ \/ current # i /\ UNCHANGED current
       \/ current = i /\ current' \in Known \ {i}
       \/ current = i /\ current' = NoId /\ DOMAIN kept' = {}
    /\ UNCHANGED answer

Forget(W) ==
    /\ answer' = [w \in DOMAIN answer \ W |-> answer[w]]
    /\ UNCHANGED <<kept, gone, current>>

HistoryNext ==
    \/ \E i \in Id, S \in SUBSET Hash : Save(i, S)
    \/ \E w \in Worker, i \in Id : Restore(w, i)
    \/ \E i \in Id : Drop(i)
    \/ \E W \in SUBSET Worker : Forget(W)

HistorySpec == HistoryInit /\ [][HistoryNext]_historyVars
==============================================================================
