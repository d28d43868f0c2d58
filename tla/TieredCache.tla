----------------------------- MODULE TieredCache -----------------------------
(***************************************************************************)
(* The session cache of the storage package (storage/cache.py): an LRU     *)
(* cache in memory, and a directory that evicted sessions are written to   *)
(* and read back from.                                                     *)
(*                                                                         *)
(* The cache's own calls hold its lock and wait for nothing, so each is    *)
(* one step; the files are read and written by other threads, and the      *)
(* write of an evicted session is a task that nobody waits for.  All the   *)
(* writes of a session open the same temporary file, which an open()       *)
(* empties and a rename() moves under the hands of those that have it      *)
(* open.  Expiry, and how many entries the limit on bytes evicts, are      *)
(* choices.                                                                *)
(***************************************************************************)
EXTENDS Naturals, Sequences, SequencesExt, Sublists

CONSTANTS
    TKey,           \* the session ids
    TCaller,        \* the coroutines that use the cache
    MaxSize,        \* max_size
    MaxPuts,        \* bound: how many values are put in a behaviour
    MaxWrites,      \* bound: how many evictions are being written at a time
    Garbled         \* what a file has that is no session: nothing yet, a part, a mixture

ASSUME TieredAssumption ==
    /\ TKey # {} /\ MaxSize \in Nat \ {0} /\ MaxPuts \in Nat /\ MaxWrites \in Nat
    /\ Garbled \notin 0 .. MaxPuts

VARIABLES
    memory,     \* _cache: pairs of a key and its value, the least recently used first
    inFile,       \* the file <key>.json, 0 when there is none
    tmp,        \* the file <key>.tmp
    writes,     \* the running _persist_session() calls
    diskReader,     \* what each caller of get_session() has read from a file
    puts,       \* how many values were put
    persisted,  \* the keys that were put, and not removed since
    spoiled     \* the keys with two writes at a time in the file, or one that failed

tieredVars == <<memory, inFile, tmp, writes, diskReader, puts, persisted, spoiled>>

Value == 1 .. MaxPuts
NotOnDisk == 0
OnDisk == Value \cup {NotOnDisk, Garbled}

\* A write knows its text, where the file it has opened is now, and whether
\* another has written to that file.  What is evicted together has a number;
\* put_session() writes as number 0, one at a time.
WriteBack ==
    [key : TKey, value : Value, slot : 0 .. MaxWrites,
     pc : {"ready", "opened", "written", "closed"}, on : {"none", "tmp", "file", "unlinked"}, shared : BOOLEAN]
Away == [pc |-> "idle", key |-> CHOOSE k \in TKey : TRUE, value |-> NotOnDisk]

TieredTypeOK ==
    /\ memory \in Seq(TKey \X Value) /\ Len(memory) <= MaxSize
    /\ inFile \in [TKey -> OnDisk] /\ tmp \in [TKey -> OnDisk]
    /\ writes \subseteq WriteBack
    /\ diskReader \in [TCaller -> [pc : {"idle", "opening", "filling"}, key : TKey, value : Value \cup {NotOnDisk}]]
    /\ puts \in 0 .. MaxPuts /\ persisted \subseteq TKey /\ spoiled \subseteq TKey

TieredInit ==
    /\ memory = <<>> /\ inFile = [k \in TKey |-> NotOnDisk] /\ tmp = inFile
    /\ writes = {} /\ diskReader = [c \in TCaller |-> Away]
    /\ puts = 0 /\ persisted = {} /\ spoiled = {}

Place(k) == {i \in DOMAIN memory : memory[i][1] = k}
Cached(k) == Place(k) # {}
Others(k) == OnlyIn(memory, (TKey \ {k}) \X Value)

\* Mutant: an evicted entry is dropped.
EvictionsDropped(gone) == writes

\* A _persist_session() that has not begun.
NewWrite(k, v, s) == [key |-> k, value |-> v, slot |-> s, pc |-> "ready", on |-> "none", shared |-> FALSE]
FreeSlots == {s \in 1 .. MaxWrites : \A w \in writes : w.slot # s}

\* _remove_entry() calls _on_eviction() for every entry that goes, whatever
\* the reason: each becomes a task that writes it.
Evictions(gone) == writes \cup {NewWrite(m[1], m[2], CHOOSE s \in FreeSlots : TRUE) : m \in gone}
Room(gone) == gone = {} \/ FreeSlots # {}

\* put(): room is made before it is looked whether the key is there already.
TieredPut(k, v, more) ==
    \E n \in 0 .. Len(memory) :      \* the limit on bytes may evict more than the other
        /\ Len(memory) - n < MaxSize
        /\ LET left == SubSeq(memory, n + 1, Len(memory))
           IN memory' = Append(OnlyIn(left, (TKey \ {k}) \X Value), <<k, v>>)
        /\ Room({memory[i] : i \in 1 .. n})
        /\ writes' = Evictions({memory[i] : i \in 1 .. n}) \cup more

\* _on_eviction() for one entry, removed because it is expired or asked for.
Drop(k) ==
    /\ Cached(k)
    /\ memory' = Others(k)
    /\ Room({memory[i] : i \in Place(k)})
    /\ writes' = Evictions({memory[i] : i \in Place(k)})

-----------------------------------------------------------------------------
(* The callers *)

\* get_session(), found in memory.
GetCached(k) ==
    /\ Cached(k)
    /\ memory' = Others(k) \o <<memory[CHOOSE i \in Place(k) : TRUE]>>
    /\ UNCHANGED <<inFile, tmp, writes, diskReader, puts, persisted, spoiled>>

\* ... not there, or expired: the file is looked for.
GetMisses(c, k) ==
    /\ diskReader[c] = Away
    /\ \/ ~ Cached(k) /\ UNCHANGED <<memory, writes>>
       \/ Drop(k)
    /\ diskReader' = [diskReader EXCEPT ![c] = IF inFile[k] # NotOnDisk THEN [Away EXCEPT !.pc = "opening", !.key = k] ELSE Away]
    /\ UNCHANGED <<inFile, tmp, puts, persisted, spoiled>>

\* The thread reads the file, if it is still there; what is no session raises
\* and is logged.
ReadFile(c) ==
    /\ diskReader[c].pc = "opening"
    /\ LET there == inFile[diskReader[c].key]
       IN diskReader' = [diskReader EXCEPT ![c] = IF there \notin Value THEN Away
                                          ELSE [pc |-> "filling", key |-> @.key, value |-> there]]
    /\ UNCHANGED <<memory, inFile, tmp, writes, puts, persisted, spoiled>>

\* What was read is put in the cache, over what was put there meanwhile.
Fill(c) ==
    /\ diskReader[c].pc = "filling"
    /\ TieredPut(diskReader[c].key, diskReader[c].value, {})
    /\ diskReader' = [diskReader EXCEPT ![c] = Away]
    /\ UNCHANGED <<inFile, tmp, puts, persisted, spoiled>>

\* cache_session() and put_session(), which may write the file itself.
PutSession(k, persist) ==
    /\ puts < MaxPuts /\ puts' = puts + 1
    /\ persist => \A w \in writes : w.slot # 0
    /\ TieredPut(k, puts + 1, IF persist THEN {NewWrite(k, puts + 1, 0)} ELSE {})
    /\ persisted' = persisted \cup {k}
    /\ UNCHANGED <<inFile, tmp, diskReader, spoiled>>

\* clear() and shutdown(); a put() of a value larger than the cache evicts
\* everything before it raises.
EvictAll ==
    /\ memory # <<>> /\ memory' = <<>> /\ Room(ToSet(memory))
    /\ writes' = Evictions(ToSet(memory))
    /\ UNCHANGED <<inFile, tmp, diskReader, puts, persisted, spoiled>>

\* The file of a key is unlinked, under the hands of those that have it open.
Unlinks(k, tasks) ==
    /\ inFile' = [inFile EXCEPT ![k] = NotOnDisk]
    /\ writes' = {IF w.key = k /\ w.on = "file" THEN [w EXCEPT !.on = "unlinked"] ELSE w : w \in tasks}
    /\ persisted' = persisted \ {k}

\* remove_session(): the file goes, and the eviction task will write it again.
RemoveSession(k) ==
    /\ \/ Cached(k) /\ Room({memory[i] : i \in Place(k)})
          /\ Unlinks(k, Evictions({memory[i] : i \in Place(k)}))
       \/ ~ Cached(k) /\ inFile[k] # NotOnDisk /\ Unlinks(k, writes)
    /\ memory' = Others(k)
    /\ UNCHANGED <<tmp, diskReader, puts, spoiled>>

\* cleanup() of files older than seven days.
CleanupFiles(k) ==
    /\ inFile[k] # NotOnDisk /\ Unlinks(k, writes)
    /\ UNCHANGED <<memory, tmp, diskReader, puts, spoiled>>

-----------------------------------------------------------------------------
(* The tasks *)

CleanupExpired(k) == Drop(k) /\ UNCHANGED <<inFile, tmp, diskReader, puts, persisted, spoiled>>

\* The other writes of the key that have the file open.
Beside(w) == {v \in writes \ {w} : v.key = w.key /\ v.pc # "ready"}

\* ... and write to what is now the temporary file.
Sharing(w) == {v \in Beside(w) : v.on = "tmp" /\ v.pc # "closed"}

\* The text t gets into the file that w has open.
Receives(w, t) ==
    /\ tmp' = IF w.on = "tmp" THEN [tmp EXCEPT ![w.key] = t] ELSE tmp
    /\ inFile' = IF w.on = "file" THEN [inFile EXCEPT ![w.key] = t] ELSE inFile

\* _persist_session(): open(temp_file, 'w') empties the temporary file, whoever
\* else has it open;
OpenTmp(w) ==
    /\ w.pc = "ready"
    /\ tmp' = [tmp EXCEPT ![w.key] = Garbled]
    /\ writes' = (writes \ ({w} \cup Sharing(w)))
                   \cup {[w EXCEPT !.pc = "opened", !.on = "tmp", !.shared = Sharing(w) # {}]}
                   \cup {[v EXCEPT !.shared = TRUE] : v \in Sharing(w)}
    /\ spoiled' = IF Beside(w) = {} THEN spoiled ELSE spoiled \cup {w.key}
    /\ UNCHANGED <<memory, inFile, diskReader, puts, persisted>>

\* ... write() leaves the text in a buffer, or a part of it when it is long;
WriteText(w) ==
    /\ w.pc = "opened"
    /\ UNCHANGED <<tmp, inFile>> \/ Receives(w, Garbled)
    /\ writes' = (writes \ {w}) \cup {[w EXCEPT !.pc = "written"]}
    /\ UNCHANGED <<memory, diskReader, puts, persisted, spoiled>>

\* ... close() flushes the rest;
CloseTmp(w) ==
    /\ w.pc = "written"
    /\ Receives(w, w.value) \/ (w.shared /\ Receives(w, Garbled))
    /\ writes' = (writes \ {w}) \cup {[w EXCEPT !.pc = "closed"]}
    /\ UNCHANGED <<memory, diskReader, puts, persisted, spoiled>>

\* ... and what has the name of the temporary file then is renamed; another may
\* have renamed it before, and then this raises.
Rename(w) ==
    /\ w.pc = "closed"
    /\ \/ /\ tmp[w.key] # NotOnDisk
          /\ inFile' = [inFile EXCEPT ![w.key] = tmp[w.key]]
          /\ tmp' = [tmp EXCEPT ![w.key] = NotOnDisk]
          /\ writes' =
               {IF v \in Beside(w) THEN [v EXCEPT !.on = IF @ = "tmp" THEN "file" ELSE "unlinked"] ELSE v :
                v \in writes \ {w}}
       \/ tmp[w.key] = NotOnDisk /\ writes' = writes \ {w} /\ UNCHANGED <<inFile, tmp>>
    /\ UNCHANGED <<memory, diskReader, puts, persisted, spoiled>>

\* The disk is full, the file cannot be opened or renamed: the call raises.  The
\* temporary file stays as it is, and nobody hears of a task that fails.
WriteFails(w) ==
    /\ UNCHANGED <<tmp, inFile>> \/ (w.pc \in {"opened", "written"} /\ Receives(w, Garbled))
    /\ writes' = writes \ {w} /\ spoiled' = spoiled \cup {w.key}
    /\ UNCHANGED <<memory, diskReader, puts, persisted>>

TieredNext ==
    \/ \E k \in TKey : GetCached(k) \/ RemoveSession(k) \/ CleanupFiles(k) \/ CleanupExpired(k)
    \/ \E k \in TKey, persist \in BOOLEAN : PutSession(k, persist)
    \/ \E c \in TCaller : (\E k \in TKey : GetMisses(c, k)) \/ ReadFile(c) \/ Fill(c)
    \/ \E w \in writes : OpenTmp(w) \/ WriteText(w) \/ CloseTmp(w) \/ Rename(w) \/ WriteFails(w)
    \/ EvictAll

-----------------------------------------------------------------------------
\* A session has a copy: in memory, in a file that can be read, or with a task
\* that has yet to bring it there.
Kept(k) == Cached(k) \/ inFile[k] \in Value \/ \E w \in writes : w.key = k

\* No key is in memory twice.  Unless two writes of a session have had the
\* temporary file open at a time, or one has failed: a session that was put, and
\* neither removed nor cleaned since, has a copy through every eviction, expiry
\* and reading (put_session, _on_eviction, _persist_session); its file, once
\* there, is one session as it was put; and what a write renames is what it has
\* written.
TieredInv ==
    /\ \A i, j \in DOMAIN memory : memory[i][1] = memory[j][1] => i = j
    /\ \A k \in persisted \ spoiled : Kept(k)
    /\ \A k \in TKey \ spoiled : inFile[k] # Garbled
    /\ \A w \in writes : w.pc = "closed" /\ w.key \notin spoiled => tmp[w.key] = w.value

\* The same without the exception: a write that fails is nobody's to repeat, and
\* with two at a time one renames what the other has emptied.
CopySurvives == \A k \in persisted : Kept(k)
=============================================================================
