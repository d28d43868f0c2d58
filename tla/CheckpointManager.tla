------------------------- MODULE CheckpointManager -------------------------
(***************************************************************************)
(* The checkpoint manager (checkpoint/checkpoint.py) on top of the         *)
(* content-addressable storage: a checkpoint is a set of content hashes,   *)
(* HEAD names the current one.  Checkpoints and HEAD are written           *)
(* synchronously, so memory and disk agree between two steps; the storage  *)
(* suspends inside every call that touches a file.  What create and        *)
(* restore do after the last call of the storage happens in the step in    *)
(* which that call returns.  Then both call notify(), which EventBus does  *)
(* not have, and raise: `result` is what they did before that.             *)
(***************************************************************************)
EXTENDS ContentStore

CONSTANTS
    Id,         \* the checkpoint ids
    NoId

ASSUME CheckpointAssumption == NoId \notin Id

VARIABLES
    live,       \* the keys of _checkpoints
    dead,       \* the ids of deleted checkpoints
    files,      \* the content hashes of a live checkpoint
    parent,     \* its parent_id
    head,       \* _head and the file HEAD
    call,       \* the call each worker is in
    base,       \* the parent_id of a create, the checkpoint of a restore
    want,       \* the hashes of the call's files; of gc(), those to keep
    todo,       \* the hashes it has not yet stored or retrieved
    got,        \* the files a restore has read
    result      \* what the worker's last call did

callVars == <<call, base, want, todo, got, result>>
tableVars == <<live, dead, files, parent, head>>
vars == <<storeVars, callVars, tableVars>>

\* What the tables of checkpoints and the calls may hold.
TypeOK ==
    /\ StoreTypeOK
    /\ live \subseteq Id /\ dead \subseteq Id \ live
    /\ files \in [Id -> SUBSET Hash] /\ parent \in [Id -> Id \cup {NoId}]
    /\ head \in Id \cup {NoId}
    /\ call \in [Worker -> {"none", "create", "restore", "gc"}]
    /\ base \in [Worker -> Id \cup {NoId}]
    /\ want \in [Worker -> SUBSET Hash]
    /\ \A w \in Worker : todo[w] \subseteq want[w] /\ got[w] \subseteq want[w]
    /\ result \in [Worker -> {"none", "created", "restored", "failed"}]

CallInit ==
    /\ call = [w \in Worker |-> "none"]
    /\ base = [w \in Worker |-> NoId]
    /\ want = [w \in Worker |-> {}]
    /\ todo = [w \in Worker |-> {}]
    /\ got = [w \in Worker |-> {}]
    /\ result = [w \in Worker |-> "none"]

Init ==
    /\ StoreInit /\ CallInit
    /\ live = {} /\ dead = {}
    /\ files = [i \in Id |-> {}] /\ parent = [i \in Id |-> NoId]
    /\ head = NoId

Fresh == Id \ (live \cup dead)
InCall(c) == {w \in Worker : call[w] = c}

Enter(w, c, b, W, T) ==
    /\ call[w] = "none" /\ At(w, "idle")
    /\ QuietGC => InCall("gc") = {}
    /\ call' = [call EXCEPT ![w] = c]
    /\ base' = [base EXCEPT ![w] = b]
    /\ want' = [want EXCEPT ![w] = W]
    /\ todo' = [todo EXCEPT ![w] = T]
    /\ got' = [got EXCEPT ![w] = {}]
    /\ result' = [result EXCEPT ![w] = "none"]

Leave(w, r) ==
    /\ call' = [call EXCEPT ![w] = "none"]
    /\ result' = [result EXCEPT ![w] = r]

\* The call goes on with its next file.
GoOn == UNCHANGED <<call, result, tableVars>>

-----------------------------------------------------------------------------
(* create_checkpoint() *)

\* The parent is HEAD as it is before the files are stored.
CallCreate(w, S) ==
    /\ S # {}
    /\ Cardinality(InCall("create")) < Cardinality(Fresh)
    /\ Enter(w, "create", head, S, S)
    /\ UNCHANGED <<storeVars, tableVars>>

\* _save_checkpoint() and update_head().
Commit(w) ==
    \E i \in Fresh :
        /\ live' = live \cup {i}
        /\ files' = [files EXCEPT ![i] = want[w]]
        /\ parent' = [parent EXCEPT ![i] = base[w]]
        /\ head' = i
        /\ Leave(w, "created")
        /\ UNCHANGED dead

StoreReturned(w) ==
    /\ todo' = [todo EXCEPT ![w] = @ \ {arg'[w]}]
    /\ \/ outcome'[w] = "raised" /\ Leave(w, "failed") /\ UNCHANGED tableVars
       \/ outcome'[w] = "stored" /\ todo'[w] # {} /\ GoOn
       \/ outcome'[w] = "stored" /\ todo'[w] = {} /\ Commit(w)
    /\ UNCHANGED <<base, want, got>>

CreateStep(w) ==
    /\ call[w] = "create"
    /\ \/ \E h \in todo[w] : StoreMiss(w, h) /\ UNCHANGED <<callVars, tableVars>>
       \/ \E h \in todo[w] : StoreHit(w, h) /\ StoreReturned(w)
       \/ (StoreOpen(w) \/ StoreWrite(w) \/ StoreIndex(w)) /\ UNCHANGED <<callVars, tableVars>>
       \/ StoreSaved(w) /\ StoreReturned(w)

-----------------------------------------------------------------------------
(* restore_checkpoint() *)

\* Mutant: HEAD moves before the files are read.
CallRestoreMovesHead(w, i) ==
    /\ i \in live
    /\ Enter(w, "restore", i, files[i], files[i])
    /\ head' = i
    /\ UNCHANGED <<storeVars, live, dead, files, parent>>

CallRestore(w, i) ==
    /\ i \in live
    /\ Enter(w, "restore", i, files[i], files[i])
    /\ UNCHANGED <<storeVars, tableVars>>

\* update_head(), whatever has become of the checkpoint meanwhile.
Restored(w) ==
    /\ head' = base[w]
    /\ Leave(w, "restored")
    /\ UNCHANGED <<live, dead, files, parent>>

\* Mutant: the last file is not waited for.
RetrieveReturnedEarly(w) ==
    /\ todo' = [todo EXCEPT ![w] = @ \ {arg'[w]}]
    /\ got' = IF outcome'[w] = "found" /\ arg'[w] \notin Empty
              THEN [got EXCEPT ![w] = @ \cup {arg'[w]}] ELSE got
    /\ \/ outcome'[w] = "raised" /\ Leave(w, "failed") /\ UNCHANGED tableVars
       \/ outcome'[w] # "raised" /\ Cardinality(todo'[w]) > 1 /\ GoOn
       \/ outcome'[w] # "raised" /\ Cardinality(todo'[w]) <= 1 /\ Restored(w)
    /\ UNCHANGED <<base, want>>

\* `if content:` skips what is missing, and content of length 0.
RetrieveReturned(w) ==
    /\ todo' = [todo EXCEPT ![w] = @ \ {arg'[w]}]
    /\ got' = IF outcome'[w] = "found" /\ arg'[w] \notin Empty
              THEN [got EXCEPT ![w] = @ \cup {arg'[w]}] ELSE got
    /\ \/ outcome'[w] = "raised" /\ Leave(w, "failed") /\ UNCHANGED tableVars
       \/ outcome'[w] # "raised" /\ todo'[w] # {} /\ GoOn
       \/ outcome'[w] # "raised" /\ todo'[w] = {} /\ Restored(w)
    /\ UNCHANGED <<base, want>>

RestoreStep(w) ==
    /\ call[w] = "restore"
    /\ \/ \E h \in todo[w] :
            /\ RetrieveCheck(w, h)
            /\ IF h \in index THEN UNCHANGED <<callVars, tableVars>> ELSE RetrieveReturned(w)
       \/ (RetrieveProbe(w) \/ RetrieveHeal(w)) /\ UNCHANGED <<callVars, tableVars>>
       \/ (RetrieveRead(w) \/ RetrieveHealed(w)) /\ RetrieveReturned(w)

-----------------------------------------------------------------------------
(* gc() and delete_checkpoint() *)

\* Mutant: only the content of HEAD is kept.
ReferencedByHead == IF head \in live THEN files[head] ELSE {}

Referenced == UNION {files[i] : i \in live}

\* The hashes to keep are collected before the storage lock is acquired.
CallGC(w) ==
    /\ QuietGC => InCall("none") = Worker
    /\ Enter(w, "gc", NoId, Referenced, Referenced)
    /\ UNCHANGED <<storeVars, tableVars>>

GCStep(w) ==
    /\ call[w] = "gc"
    /\ \/ /\ todo[w] = want[w]
          /\ SweepStart(w, want[w])
          /\ todo' = [todo EXCEPT ![w] = {}]
          /\ UNCHANGED <<call, base, want, got, result, tableVars>>
       \/ /\ (\E h \in Hash : DeletePop(w, h)) \/ DeleteFile(w) \/ DeleteSave(w) \/ DeleteSaved(w)
          /\ UNCHANGED <<callVars, tableVars>>
       \/ /\ SweepEnd(w)
          /\ Leave(w, "none")
          /\ UNCHANGED <<base, want, todo, got, tableVars>>

\* Mutant: the checkpoint stays in the table.
DeleteKeepsEntry(i) ==
    /\ i \in live
    /\ dead' = dead \cup {i}
    /\ head' = IF head = i THEN parent[i] ELSE head
    /\ UNCHANGED <<live, files, parent, storeVars, callVars>>

\* Mutant: HEAD moves to the parent, or nowhere.
DeleteParentOnly(i) ==
    /\ i \in live
    /\ live' = live \ {i} /\ dead' = dead \cup {i}
    /\ files' = [files EXCEPT ![i] = {}] /\ parent' = [parent EXCEPT ![i] = NoId]
    /\ head' = IF head = i THEN parent[i] ELSE head
    /\ UNCHANGED <<storeVars, callVars>>

\* HEAD moves to the parent, or to the first of the other checkpoints (their
\* order after a restart is that of the directory).
Delete(i) ==
    /\ i \in live
    /\ live' = live \ {i} /\ dead' = dead \cup {i}
    /\ files' = [files EXCEPT ![i] = {}] /\ parent' = [parent EXCEPT ![i] = NoId]
    /\ \/ head # i /\ UNCHANGED head
       \/ head = i /\ parent[i] # NoId /\ head' = parent[i]
       \/ head = i /\ parent[i] = NoId /\ live' # {} /\ head' \in live'
       \/ head = i /\ parent[i] = NoId /\ live' = {} /\ head' = NoId
    /\ UNCHANGED <<storeVars, callVars>>

-----------------------------------------------------------------------------
\* The process dies and initialize() loads checkpoints and HEAD again.
Crash ==
    /\ StoreCrash
    /\ QuietGC => InCall("gc") = {}
    /\ call' = [w \in Worker |-> "none"]
    /\ base' = [w \in Worker |-> NoId]
    /\ want' = [w \in Worker |-> {}]
    /\ todo' = [w \in Worker |-> {}]
    /\ got' = [w \in Worker |-> {}]
    /\ result' = [w \in Worker |-> "none"]
    /\ UNCHANGED tableVars

Next ==
    \/ \E w \in Worker :
          \/ \E S \in SUBSET Hash : CallCreate(w, S)
          \/ \E i \in Id : CallRestore(w, i)
          \/ CallGC(w)
          \/ CreateStep(w) \/ RestoreStep(w) \/ GCStep(w)
    \/ \E i \in Id : Delete(i)
    \/ Crash

Spec == Init /\ [][Next]_vars

-----------------------------------------------------------------------------
\* Every file of every checkpoint is in the storage, intact and indexed.
CheckpointComplete ==
    \A i \in live : \A h \in files[i] : h \in index /\ file[h] = "full"

\* A restore that moved HEAD to a checkpoint that is still there has read every
\* file of it that has content.
RestoredIsIntact ==
    \A w \in Worker : result[w] = "restored" /\ base[w] \in live => want[w] \ Empty \subseteq got[w]

\* HEAD is unset only when there is no checkpoint.
HeadUnlessEmpty == head = NoId => live = {}

\* The checkpoints every file of which can be read back, and their contents.
Whole == {i \in live : \A h \in files[i] : h \in index /\ file[h] = "full"}

\* What the restores that succeeded have returned.
Returned == [w \in {v \in Worker : result[v] = "restored"} |-> got[w]]

Contents == [i \in Whole |-> files[i]]

History == INSTANCE CheckpointHistory
             WITH kept <- Contents, gone <- dead, current <- head, answer <- Returned

\* To its callers the manager is a history of checkpoints: each appears whole in
\* one step, keeps its content until delete_checkpoint() and is gone for good;
\* a restore returns that content; whatever the storage, the collector and a
\* crash do in between changes nothing.
ImplementsHistory == History!HistorySpec

\* restore_checkpoint returns "All files from the checkpoint".
RestoreIsWhole ==
    \A w \in Worker : result[w] = "restored" /\ base[w] \in live => got[w] = want[w]

\* delete_checkpoint: "Find a new HEAD (parent or any other checkpoint)".
HeadIsLive == head # NoId => head \in live
=============================================================================
