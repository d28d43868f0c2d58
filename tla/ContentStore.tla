---------------------------- MODULE ContentStore ----------------------------
(***************************************************************************)
(* The content-addressable storage (checkpoint/cas.py): an index in memory *)
(* that is saved as one JSON file by write-and-rename, and one file per    *)
(* object.  The index lock is held while the index is saved, but not while *)
(* object files are written, read and removed.  A step is a coroutine's    *)
(* stretch between two file operations (aiofiles runs each in a thread).   *)
(* delete() is modelled as gc() uses it, its only caller.                  *)
(***************************************************************************)
EXTENDS Naturals, FiniteSets

CONSTANTS
    Worker,         \* the coroutines that use the storage
    Hash,           \* the content hashes
    Empty,          \* the hashes of content of length 0
    SharedContent,  \* may two workers store the same content at a time?
    QuietGC,        \* does gc() run with no other call and no crash beside it?
    MaxCrashes,     \* bound on the crashes
    NoWorker

ASSUME StoreAssumption ==
    /\ NoWorker \notin Worker
    /\ Hash # {} /\ Empty \subseteq Hash
    /\ SharedContent \in BOOLEAN /\ QuietGC \in BOOLEAN
    /\ MaxCrashes \in Nat

VARIABLES
    index,     \* the keys of _index
    diskIndex, \* the keys of index.json
    file,      \* the object files: "absent", "partial" (truncated), "full"
    lock,      \* _index_lock
    pc,        \* where each worker is suspended
    arg,       \* the hash it works on
    sweep,     \* to_remove of a worker's gc()
    outcome,   \* how its last call of store() or retrieve() ended
    crashes

storeVars == <<index, diskIndex, file, lock, pc, arg, sweep, outcome, crashes>>

Storing == {"opening", "writing", "indexing", "storeSaving"}
Retrieving == {"probing", "reading", "healing", "healSaving"}
Sweeping == {"sweeping", "removing", "deleteSave", "deleteSaving"}
Busy == Storing \cup Retrieving \cup Sweeping

StoreTypeOK ==
    /\ index \subseteq Hash /\ diskIndex \subseteq Hash
    /\ file \in [Hash -> {"absent", "partial", "full"}]
    /\ lock \in Worker \cup {NoWorker}
    /\ pc \in [Worker -> Busy \cup {"idle"}]
    /\ arg \in [Worker -> Hash]
    /\ sweep \in [Worker -> SUBSET Hash]
    /\ outcome \in [Worker -> {"none", "stored", "found", "missing", "raised"}]
    /\ crashes \in 0 .. MaxCrashes

StoreInit ==
    /\ index = {} /\ diskIndex = {}
    /\ file = [h \in Hash |-> "absent"]
    /\ lock = NoWorker
    /\ pc = [w \in Worker |-> "idle"]
    /\ arg = [w \in Worker |-> CHOOSE h \in Hash : TRUE]
    /\ sweep = [w \in Worker |-> {}]
    /\ outcome = [w \in Worker |-> "none"]
    /\ crashes = 0

At(w, p) == pc[w] = p
Goto(w, p) == pc' = [pc EXCEPT ![w] = p]
Return(w, r) == outcome' = [outcome EXCEPT ![w] = r]
NoneAt(P) == \A w \in Worker : pc[w] \notin P

-----------------------------------------------------------------------------
(* store() *)

\* A hash in the index is returned at once (`dedup_hits`).
StoreHit(w, h) ==
    /\ At(w, "idle") /\ lock = NoWorker
    /\ h \in index
    /\ arg' = [arg EXCEPT ![w] = h]
    /\ Return(w, "stored")
    /\ UNCHANGED <<index, diskIndex, file, lock, pc, sweep, crashes>>

\* Mutant: the hash is entered in the index when the store begins.
StoreMissIndexes(w, h) ==
    /\ At(w, "idle") /\ lock = NoWorker
    /\ h \notin index
    /\ SharedContent \/ \A v \in Worker : pc[v] \in Storing => arg[v] # h
    /\ QuietGC => NoneAt(Sweeping)
    /\ index' = index \cup {h}
    /\ arg' = [arg EXCEPT ![w] = h]
    /\ Goto(w, "opening")
    /\ UNCHANGED <<diskIndex, file, lock, sweep, outcome, crashes>>

StoreMiss(w, h) ==
    /\ At(w, "idle") /\ lock = NoWorker
    /\ h \notin index
    /\ SharedContent \/ \A v \in Worker : pc[v] \in Storing => arg[v] # h
    /\ QuietGC => NoneAt(Sweeping)
    /\ arg' = [arg EXCEPT ![w] = h]
    /\ Goto(w, "opening")
    /\ UNCHANGED <<index, diskIndex, file, lock, sweep, outcome, crashes>>

\* open(object_path, 'wb') truncates.
StoreOpen(w) ==
    /\ At(w, "opening")
    /\ file' = [file EXCEPT ![arg[w]] = "partial"]
    /\ Goto(w, "writing")
    /\ UNCHANGED <<index, diskIndex, lock, arg, sweep, outcome, crashes>>

StoreWrite(w) ==
    /\ At(w, "writing")
    /\ file' = [file EXCEPT ![arg[w]] = "full"]
    /\ Goto(w, "indexing")
    /\ UNCHANGED <<index, diskIndex, lock, arg, sweep, outcome, crashes>>

\* Mutant: the index is saved after the lock was released.
StoreIndexUnlocked(w) ==
    /\ At(w, "indexing") /\ lock = NoWorker
    /\ index' = index \cup {arg[w]}
    /\ Goto(w, "storeSaving")
    /\ UNCHANGED <<diskIndex, file, lock, arg, sweep, outcome, crashes>>

\* The temporary index file is written with the lock held ...
StoreIndex(w) ==
    /\ At(w, "indexing") /\ lock = NoWorker
    /\ index' = index \cup {arg[w]}
    /\ lock' = w
    /\ Goto(w, "storeSaving")
    /\ UNCHANGED <<diskIndex, file, arg, sweep, outcome, crashes>>

\* ... and renamed.  store() returns the hash, except that the compression
\* ratio it logs divides by the length of the content.
StoreSaved(w) ==
    /\ At(w, "storeSaving")
    /\ diskIndex' = index
    /\ lock' = NoWorker
    /\ Return(w, IF arg[w] \in Empty THEN "raised" ELSE "stored")
    /\ Goto(w, "idle")
    /\ UNCHANGED <<index, file, arg, sweep, crashes>>

-----------------------------------------------------------------------------
(* gc() and delete() *)

SweepStart(w, keep) ==
    /\ At(w, "idle") /\ lock = NoWorker
    /\ QuietGC => NoneAt(Busy)
    /\ sweep' = [sweep EXCEPT ![w] = index \ keep]
    /\ Goto(w, "sweeping")
    /\ UNCHANGED <<index, diskIndex, file, lock, arg, outcome, crashes>>

SweepEnd(w) ==
    /\ At(w, "sweeping") /\ sweep[w] = {}
    /\ Goto(w, "idle")
    /\ UNCHANGED <<index, diskIndex, file, lock, arg, sweep, outcome, crashes>>

\* get_object() and the first part of delete(): out of the index.
DeletePop(w, h) ==
    /\ At(w, "sweeping") /\ lock = NoWorker
    /\ h \in sweep[w]
    /\ sweep' = [sweep EXCEPT ![w] = @ \ {h}]
    /\ IF h \in index THEN Goto(w, "removing") ELSE UNCHANGED pc
    /\ index' = index \ {h}
    /\ arg' = [arg EXCEPT ![w] = h]
    /\ UNCHANGED <<diskIndex, file, lock, outcome, crashes>>

DeleteFile(w) ==
    /\ At(w, "removing")
    /\ file' = [file EXCEPT ![arg[w]] = "absent"]
    /\ Goto(w, "deleteSave")
    /\ UNCHANGED <<index, diskIndex, lock, arg, sweep, outcome, crashes>>

DeleteSave(w) ==
    /\ At(w, "deleteSave") /\ lock = NoWorker
    /\ lock' = w
    /\ Goto(w, "deleteSaving")
    /\ UNCHANGED <<index, diskIndex, file, arg, sweep, outcome, crashes>>

DeleteSaved(w) ==
    /\ At(w, "deleteSaving")
    /\ diskIndex' = index
    /\ lock' = NoWorker
    /\ Goto(w, "sweeping")
    /\ UNCHANGED <<index, file, arg, sweep, outcome, crashes>>

-----------------------------------------------------------------------------
(* retrieve() *)

RetrieveCheck(w, h) ==
    /\ At(w, "idle") /\ lock = NoWorker
    /\ QuietGC => NoneAt(Sweeping)
    /\ arg' = [arg EXCEPT ![w] = h]
    /\ \/ h \in index /\ Goto(w, "probing") /\ UNCHANGED outcome
       \/ h \notin index /\ Return(w, "missing") /\ UNCHANGED pc
    /\ UNCHANGED <<index, diskIndex, file, lock, sweep, crashes>>

\* os.path.exists
RetrieveProbe(w) ==
    /\ At(w, "probing")
    /\ Goto(w, IF file[arg[w]] = "absent" THEN "healing" ELSE "reading")
    /\ UNCHANGED <<index, diskIndex, file, lock, arg, sweep, outcome, crashes>>

\* A truncated file fails to decompress, one removed since the probe to open.
RetrieveRead(w) ==
    /\ At(w, "reading")
    /\ Return(w, IF file[arg[w]] = "full" THEN "found" ELSE "raised")
    /\ Goto(w, "idle")
    /\ UNCHANGED <<index, diskIndex, file, lock, arg, sweep, crashes>>

\* The object file is missing: the hash is dropped from the index.
RetrieveHeal(w) ==
    /\ At(w, "healing") /\ lock = NoWorker
    /\ index' = index \ {arg[w]}
    /\ lock' = w
    /\ Goto(w, "healSaving")
    /\ UNCHANGED <<diskIndex, file, arg, sweep, outcome, crashes>>

RetrieveHealed(w) ==
    /\ At(w, "healSaving")
    /\ diskIndex' = index
    /\ lock' = NoWorker
    /\ Return(w, "missing")
    /\ Goto(w, "idle")
    /\ UNCHANGED <<index, file, arg, sweep, crashes>>

-----------------------------------------------------------------------------
\* The process dies and is restarted: _load_index.
StoreCrash ==
    /\ crashes < MaxCrashes
    /\ QuietGC => NoneAt(Sweeping)
    /\ crashes' = crashes + 1
    /\ index' = diskIndex
    /\ lock' = NoWorker
    /\ pc' = [w \in Worker |-> "idle"]
    /\ sweep' = [w \in Worker |-> {}]
    /\ outcome' = [w \in Worker |-> "none"]
    /\ UNCHANGED <<diskIndex, file, arg>>

StoreStep(w) == StoreOpen(w) \/ StoreWrite(w) \/ StoreIndex(w) \/ StoreSaved(w)
SweepStep(w) == \/ SweepEnd(w) \/ (\E h \in Hash : DeletePop(w, h))
                \/ DeleteFile(w) \/ DeleteSave(w) \/ DeleteSaved(w)

RetrieveStep(w) == RetrieveProbe(w) \/ RetrieveRead(w) \/ RetrieveHeal(w) \/ RetrieveHealed(w)

StoreNext ==
    \/ \E w \in Worker :
          \/ StoreStep(w) \/ SweepStep(w) \/ RetrieveStep(w)
          \/ \E h \in Hash : StoreHit(w, h) \/ StoreMiss(w, h) \/ RetrieveCheck(w, h)
          \/ \E keep \in SUBSET Hash : SweepStart(w, keep)
    \/ StoreCrash

StoreSpec == StoreInit /\ [][StoreNext]_storeVars

-----------------------------------------------------------------------------
\* What a caller may rely on when store() returns: with the lock free, every
\* indexed hash is in index.json, so a dedup hit on an entry another worker has
\* just added is durable too.
IndexIsDurable == lock = NoWorker => index \subseteq diskIndex

\* The lock is held by the worker that is saving the index, by nobody else.
LockIsSaving ==
    \A w \in Worker : lock = w <=> pc[w] \in {"storeSaving", "deleteSaving", "healSaving"}

\* "automatic deduplication": content that is in the index is neither written
\* again nor lost, in this life of the process and the next.
StoredStaysIntact == \A h \in index : file[h] = "full"

\* retrieve() logs "CAS object file missing" of what it drops from the index:
\* the file is missing when the entry is dropped.
HealedIsMissing ==
    [][\A w \in Worker : RetrieveHeal(w) /\ arg[w] \in index => file[arg[w]] # "full"]_storeVars
=============================================================================
