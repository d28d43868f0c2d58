------------------------------- MODULE Timeline -------------------------------
(***************************************************************************)
(* The history of checkpoints and their branches (checkpoint/timeline.py). *)
(*                                                                         *)
(* No call waits for anything, so a call is one step, unless the program   *)
(* stops in it: a call writes two files one after the other, each over the *)
(* previous one, and can leave the second old or either one torn.  A file  *)
(* that cannot be read is taken for an empty one.                          *)
(***************************************************************************)
EXTENDS Naturals, Sequences, FiniteSets

CONSTANTS
    Revision,       \* the ids of checkpoints
    NoRevision,     \* no parent
    Branch,         \* the names of branches
    NoBranch,       \* a checkpoint on no branch
    MaxEvents,      \* a bound on the entries added
    MaxStops        \* a bound on the stops of the program

ASSUME TimelineAssumption == NoRevision \notin Revision /\ NoBranch \notin Branch /\ {MaxEvents, MaxStops} \subseteq Nat

VARIABLES
    entries,        \* _entries
    heads,          \* _branches
    tags,           \* _checkpoint_branches, empty for what it does not hold
    eventFile,      \* timeline.json
    headFile,       \* branches.json
    open,           \* the timeline is loaded
    added,          \* the entries added so far
    stops,          \* the stops so far
    tears           \* history: the stops that tore a file

timelineVars == <<entries, heads, tags, eventFile, headFile, open, added, stops, tears>>

TimelineEntry == [id : Revision, kind : {"checkpoint", "restore", "branch"}, parent : Revision \cup {NoRevision},
                  branch : Branch \cup {NoBranch}]

Heads == UNION {[B -> Revision] : B \in SUBSET Branch}
NoTags == [c \in Revision |-> {}]
NoHeads == [b \in {} |-> NoRevision]

\* What a file holds, or nothing that can be read.
Whole(x) == [torn |-> FALSE, has |-> x]
Torn(x) == [torn |-> TRUE, has |-> x]

TimelineTypeOK ==
    /\ \A k \in DOMAIN entries : entries[k] \in TimelineEntry
    /\ heads \in Heads
    /\ tags \in [Revision -> SUBSET Branch]
    /\ \A k \in DOMAIN eventFile.has : eventFile.has[k] \in TimelineEntry
    /\ headFile.has \in Heads
    /\ open \in BOOLEAN
    /\ added \in 0 .. MaxEvents /\ tears \in 0 .. stops /\ stops \in 0 .. MaxStops

TimelineInit ==
    /\ entries = <<>> /\ heads = NoHeads /\ tags = NoTags
    /\ eventFile = Whole(<<>>) /\ headFile = Whole(NoHeads)
    /\ open = TRUE /\ added = 0 /\ stops = 0 /\ tears = 0

-----------------------------------------------------------------------------
(* Saving *)

HeadsMoved(b, c) == [x \in DOMAIN heads \cup {b} |-> IF x = b THEN c ELSE heads[x]]
Tagged(c, b) == [tags EXCEPT ![c] = @ \cup {b}]

\* A call runs to its end.
CallEnds(es, hs, ts) ==
    /\ entries' = es /\ heads' = hs /\ tags' = ts
    /\ UNCHANGED <<open, stops, tears>>

\* The program stops: what was in memory is gone.
Stops(tearing) ==
    /\ stops < MaxStops /\ stops' = stops + 1 /\ tears' = IF tearing THEN tears + 1 ELSE tears
    /\ entries' = <<>> /\ heads' = NoHeads /\ tags' = NoTags /\ open' = FALSE

\* Mutant: the branches are saved before the entries.
SavesBranchesFirst(es, hs, ts) ==
    \/ CallEnds(es, hs, ts) /\ eventFile' = Whole(es) /\ headFile' = Whole(hs)
    \/ Stops(FALSE) /\ headFile' = Whole(hs) /\ UNCHANGED eventFile

\* _save_timeline() and then _save_branches().
Saves(es, hs, ts) ==
    \/ CallEnds(es, hs, ts) /\ eventFile' = Whole(es) /\ headFile' = Whole(hs)
    \/ Stops(TRUE) /\ eventFile' = Torn(<<>>) /\ UNCHANGED headFile
    \/ Stops(FALSE) /\ eventFile' = Whole(es) /\ UNCHANGED headFile
    \/ Stops(TRUE) /\ eventFile' = Whole(es) /\ headFile' = Torn(NoHeads)

\* _save_timeline() alone.
SavesTimeline(es) ==
    /\ \/ CallEnds(es, heads, tags) /\ eventFile' = Whole(es)
       \/ Stops(TRUE) /\ eventFile' = Torn(<<>>)
    /\ UNCHANGED headFile

\* _save_branches() alone.
SavesBranches(hs, ts) ==
    /\ \/ CallEnds(entries, hs, ts) /\ headFile' = Whole(hs)
       \/ Stops(TRUE) /\ headFile' = Torn(NoHeads)
    /\ UNCHANGED eventFile

-----------------------------------------------------------------------------
(* The calls *)

NewEntry(c, kind, p, b) == [id |-> c, kind |-> kind, parent |-> p, branch |-> b]

Adds == open /\ added < MaxEvents /\ added' = added + 1

Known == {entries[k].id : k \in DOMAIN entries}

\* add_checkpoint(): of a new checkpoint whose parent is one recorded before.
AddCheckpoint(c, p, b) ==
    /\ Adds /\ c \notin Known /\ p \in Known \cup {NoRevision}
    /\ LET es == Append(entries, NewEntry(c, "checkpoint", p, b))
       IN IF b = NoBranch THEN Saves(es, heads, tags) ELSE Saves(es, HeadsMoved(b, c), Tagged(c, b))

\* add_restore().
AddRestore(c) ==
    /\ Adds /\ c \in Known
    /\ SavesTimeline(Append(entries, NewEntry(c, "restore", NoRevision, NoBranch)))

\* create_branch(): a branch that exists is refused.
CreateBranch(b, c) ==
    /\ Adds /\ c \in Known /\ b \notin DOMAIN heads
    /\ Saves(Append(entries, NewEntry(c, "branch", NoRevision, b)), HeadsMoved(b, c), Tagged(c, b))

\* Mutant: the checkpoint forgets all its branches when one is deleted.
DeletesTags(b) ==
    /\ open /\ b \in DOMAIN heads
    /\ SavesBranches([x \in DOMAIN heads \ {b} |-> heads[x]], [tags EXCEPT ![heads[b]] = {}])
    /\ UNCHANGED added

\* delete_branch().
DeleteBranch(b) ==
    /\ open /\ b \in DOMAIN heads
    /\ SavesBranches([x \in DOMAIN heads \ {b} |-> heads[x]], [tags EXCEPT ![heads[b]] = @ \ {b}])
    /\ UNCHANGED added

\* initialize(): _load_timeline() and _load_branches().
LoadTimeline ==
    /\ ~open /\ open' = TRUE
    /\ entries' = eventFile.has
    /\ heads' = headFile.has
    /\ tags' = [c \in Revision |-> {b \in DOMAIN headFile.has : headFile.has[b] = c}]
    /\ UNCHANGED <<eventFile, headFile, added, stops, tears>>

TimelineNext ==
    \/ \E c \in Revision, p \in Revision \cup {NoRevision}, b \in Branch \cup {NoBranch} : AddCheckpoint(c, p, b)
    \/ \E c \in Revision : AddRestore(c)
    \/ \E b \in Branch, c \in Revision : CreateBranch(b, c)
    \/ \E b \in Branch : DeleteBranch(b)
    \/ LoadTimeline

-----------------------------------------------------------------------------
(* The questions *)

\* The parent of a checkpoint: of the first entry that added it.
ParentOf(c) ==
    LET makes(k) == entries[k].id = c /\ entries[k].kind = "checkpoint"
    IN IF \E k \in DOMAIN entries : makes(k)
       THEN entries[CHOOSE k \in DOMAIN entries : makes(k) /\ \A j \in 1 .. k - 1 : ~makes(j)].parent
       ELSE NoRevision

\* _get_ancestors(): the parents, the nearest first, NoRevision when there are no more.
AncestorLine(c) ==
    LET up[n \in 0 .. Len(entries)] ==
            IF n = 0 THEN c ELSE IF up[n - 1] = NoRevision THEN NoRevision ELSE ParentOf(up[n - 1])
    IN [n \in 1 .. Len(entries) |-> up[n]]

AncestorSet(c) == {AncestorLine(c)[n] : n \in 1 .. Len(entries)} \ {NoRevision}

\* Mutant: the farthest common ancestor.
FarthestCommon(c, d) ==
    LET line == AncestorLine(c)
        both == {n \in DOMAIN line : line[n] \in AncestorSet(d)}
    IN IF both = {} THEN NoRevision ELSE line[CHOOSE n \in both : \A m \in both : m <= n]

\* find_common_ancestor().
CommonAncestor(c, d) ==
    LET line == AncestorLine(c)
        both == {n \in DOMAIN line : line[n] \in AncestorSet(d)}
    IN IF both = {} THEN NoRevision ELSE line[CHOOSE n \in both : \A m \in both : n <= m]

\* _get_branch_checkpoints(): whose entries get_timeline() gives for a branch.
BranchCommits(b) == IF b \in DOMAIN heads THEN {heads[b]} \cup AncestorSet(heads[b]) ELSE {}

\* get_checkpoint_history(): every entry before it counts as of an ancestor.
History(c) ==
    LET makes == {k \in DOMAIN entries : entries[k].id = c /\ entries[k].kind = "checkpoint"}
    IN {entries[k] : k \in {j \in DOMAIN entries : \E m \in makes : j <= m}}

-----------------------------------------------------------------------------
(* Properties *)

\* The two directions of the branches agree one way: the checkpoint a branch
\* points to lists it, also after restarts and deletions (get_checkpoint_branches
\* reads one, get_branch the other).
HeadsAreTagged == \A b \in DOMAIN heads : b \in tags[heads[b]]

\* While the timeline is loaded a restart would find what memory holds.
FilesAreCurrent ==
    open => /\ eventFile.has = entries /\ headFile.has = heads

\* A branch that a restart finds has in the other file the entry that put it
\* where it is, whatever call the program stopped in, until a stop tears a file:
\* the entries are saved first (_save_timeline, _save_branches).
HeadsHaveEvents ==
    tears = 0 =>
        \A b \in DOMAIN headFile.has :
            \E k \in DOMAIN eventFile.has :
                eventFile.has[k].branch = b /\ eventFile.has[k].id = headFile.has[b]

\* The common ancestor is one, and every other one is an ancestor of it
\* (find_common_ancestor(), which no test calls).
CommonIsNearest ==
    \A c, d \in Known :
        LET both == AncestorSet(c) \cap AncestorSet(d)
        IN IF both = {} THEN CommonAncestor(c, d) = NoRevision
           ELSE /\ CommonAncestor(c, d) \in both
                /\ both \subseteq AncestorSet(CommonAncestor(c, d)) \cup {CommonAncestor(c, d)}

TimelineInv == HeadsAreTagged /\ FilesAreCurrent /\ HeadsHaveEvents /\ CommonIsNearest

\* get_checkpoint_branches() lists the branches of a checkpoint.  Not so: a
\* branch that a new checkpoint moved is listed at both until the next start.
TagsAreHeads == \A c \in Revision : \A b \in tags[c] : b \in DOMAIN heads /\ heads[b] = c

\* get_checkpoint_history() leads up to the checkpoint.  Not so: _is_ancestor
\* is a placeholder, and entries of other lines are in it.
HistoryIsOfAncestors ==
    \A c \in Known : \A e \in History(c) : e.id \in AncestorSet(c) \cup {c}

\* A timeline with entries never comes back empty.  Not so: a file torn by a
\* stop is read as an empty one, and the next call overwrites it.
EntriesSurvive == added > 0 /\ open => stops = added \/ entries # <<>>
==============================================================================
