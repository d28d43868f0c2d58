---------------------------- MODULE SessionCache ----------------------------
(***************************************************************************)
(* The session cache of the session manager (managers/cache.py): LRUCache  *)
(* with limits on entries and bytes, expiry, and a file that the entries   *)
(* are saved to from time to time and loaded from at the start.            *)
(*                                                                         *)
(* No section that holds the cache's lock waits for anything, so each call *)
(* is one step.  A value is known by the number of the set() that stored   *)
(* it; it is a plain one, a failed session, or one pickle refuses, and     *)
(* takes 1 or 2 bytes.  Whether the ttl of an entry has run out is a       *)
(* choice made when the code looks.                                        *)
(***************************************************************************)
EXTENDS Integers, Sequences, SequencesExt, Sublists

CONSTANTS
    Key,            \* the session ids
    MaxEntries,     \* max_entries
    MaxBytes,       \* max_size_bytes
    MaxSets,        \* bound: how many values are stored in a behaviour
    Storable        \* what the callers store: sizes with kinds of value

EntryKinds == {"plain", "failed", "unpicklable"}

ASSUME CacheAssumption ==
    /\ MaxEntries \in Nat \ {0} /\ MaxBytes \in Nat \ {0} /\ MaxSets \in Nat
    /\ Storable \subseteq [bytes : 1 .. 2, kind : EntryKinds]

VARIABLES
    order,      \* the keys of _cache, the least recently used first
    entry,      \* the entry of each key
    stats,      \* total_entries and total_size_bytes
    file,       \* the persisted entries, in the order they were saved
    serving,    \* initialize() was called in this process
    sets,       \* how many values were stored
    newest,     \* the last value stored for each key, 0 after a delete
    behind,     \* the keys whose entry in the file may be one of an older value
    revived     \* those that had such an entry when the file was loaded, unchanged since

cacheVars == <<order, entry, stats, file, serving, sets, newest, behind, revived>>

Gone == [value |-> 0, bytes |-> 0, kind |-> "plain"]
Entry == [value : 0 .. MaxSets, bytes : 0 .. 2, kind : EntryKinds]

\* The bytes that the entries of a set of keys take, counted one by one.
BytesOf(keys, e) == Cardinality({b \in keys \X (1 .. 2) : b[2] <= e[b[1]].bytes})

CacheTypeOK ==
    /\ order \in Seq(Key) /\ entry \in [Key -> Entry]
    /\ stats \in [entries : Int, bytes : Int]
    /\ file \in Seq(Key \X Entry)
    /\ serving \in BOOLEAN /\ sets \in 0 .. MaxSets
    /\ newest \in [Key -> 0 .. MaxSets] /\ behind \subseteq Key /\ revived \subseteq Key

CacheInit ==
    /\ order = <<>> /\ entry = [k \in Key |-> Gone]
    /\ stats = [entries |-> 0, bytes |-> 0]
    /\ file = <<>> /\ serving = FALSE
    /\ sets = 0 /\ newest = [k \in Key |-> 0] /\ behind = {} /\ revived = {}

\* `del self._cache[key]` for each key of a set.
Removes(keys) ==
    /\ order' = OnlyIn(order, Key \ keys)
    /\ entry' = [k \in Key |-> IF k \in keys THEN Gone ELSE entry[k]]

\* ... with what the callers below do to the statistics.
Drops(keys) ==
    /\ Removes(keys)
    /\ stats' = [entries |-> stats.entries - Cardinality(keys),
                 bytes |-> stats.bytes - BytesOf(keys, entry)]

-----------------------------------------------------------------------------
(* The calls *)

Get(k) ==
    /\ serving /\ k \in ToSet(order)
    /\ \/ Drops({k})      \* it is expired
       \/ /\ order' = Append(OnlyIn(order, Key \ {k}), k)
          /\ UNCHANGED <<entry, stats>>
    /\ UNCHANGED <<file, serving, sets, newest, behind, revived>>

\* _evict_if_needed(): the number of entries that go, from the front.
Evicted(keys, e, bytes) ==
    CHOOSE n \in 0 .. Len(keys) :
        LET fits(m) == /\ Len(keys) - m <= MaxEntries
                       /\ bytes - BytesOf(ToSet(SubSeq(keys, 1, m)), e) <= MaxBytes \/ m = Len(keys)
        IN fits(n) /\ \A m \in 0 .. n - 1 : ~ fits(m)

\* Mutant: an entry that is replaced keeps its place.
SetInPlace(k) ==
    /\ serving /\ sets < MaxSets
    /\ \E v \in Storable :
        LET e == [entry EXCEPT ![k] = [value |-> sets + 1, bytes |-> v.bytes, kind |-> v.kind]]
            keys == IF k \in ToSet(order) THEN order ELSE Append(order, k)
            bytes == stats.bytes - entry[k].bytes + v.bytes
            n == Evicted(keys, e, bytes)
            out == ToSet(SubSeq(keys, 1, n))
        IN /\ order' = SubSeq(keys, n + 1, Len(keys))
           /\ entry' = [x \in Key |-> IF x \in out THEN Gone ELSE e[x]]
           /\ stats' = [entries |-> Len(keys) - n, bytes |-> bytes - BytesOf(out, e)]
    /\ sets' = sets + 1 /\ newest' = [newest EXCEPT ![k] = sets + 1]
    /\ behind' = behind \cup {k} /\ revived' = revived \ {k}
    /\ UNCHANGED <<file, serving>>

Set(k) ==
    /\ serving /\ sets < MaxSets
    /\ \E v \in Storable :
        LET e == [entry EXCEPT ![k] = [value |-> sets + 1, bytes |-> v.bytes, kind |-> v.kind]]
            keys == Append(OnlyIn(order, Key \ {k}), k)
            bytes == stats.bytes - entry[k].bytes + v.bytes
            n == Evicted(keys, e, bytes)
            out == ToSet(SubSeq(keys, 1, n))
        IN /\ order' = SubSeq(keys, n + 1, Len(keys))
           /\ entry' = [x \in Key |-> IF x \in out THEN Gone ELSE e[x]]
           /\ stats' = [entries |-> Len(keys) - n, bytes |-> bytes - BytesOf(out, e)]
    /\ sets' = sets + 1 /\ newest' = [newest EXCEPT ![k] = sets + 1]
    /\ behind' = behind \cup {k} /\ revived' = revived \ {k}
    /\ UNCHANGED <<file, serving>>

CacheDelete(k) ==
    /\ serving /\ k \in ToSet(order)
    /\ Drops({k})
    /\ newest' = [newest EXCEPT ![k] = 0]
    /\ behind' = behind \cup {k} /\ revived' = revived \ {k}
    /\ UNCHANGED <<file, serving, sets>>

Clear ==
    /\ serving /\ order # <<>>
    /\ order' = <<>> /\ entry' = [k \in Key |-> Gone]
    /\ stats' = [entries |-> 0, bytes |-> 0]
    /\ newest' = [k \in Key |-> 0] /\ behind' = Key /\ revived' = {}
    /\ UNCHANGED <<file, serving, sets>>

\* cleanup_stale_sessions(): the total of the bytes keeps the entries that go.
CleanupStale ==
    /\ serving
    /\ \E stale \in SUBSET {k \in ToSet(order) : entry[k].kind = "failed"} :
        stale # {} /\ Removes(stale) /\ stats' = [stats EXCEPT !.entries = Len(order')]
    /\ UNCHANGED <<file, serving, sets, newest, behind, revived>>

-----------------------------------------------------------------------------
(* The two background tasks, the start and the end of a process *)

SweepExpired ==
    /\ serving
    /\ \E expired \in SUBSET ToSet(order) : expired # {} /\ Drops(expired)
    /\ UNCHANGED <<file, serving, sets, newest, behind, revived>>

\* _save_persisted(): the file is replaced at once.
SavePersisted ==
    \E expired \in SUBSET ToSet(order) :
        LET kept == OnlyIn(order, {k \in Key \ expired : entry[k].kind # "unpicklable"})
        IN file' = [i \in DOMAIN kept |-> <<kept[i], entry[kept[i]]>>]

Persist ==
    /\ serving /\ SavePersisted /\ behind' = revived
    /\ UNCHANGED <<order, entry, stats, serving, sets, newest, revived>>

\* _load_persisted(): nothing is evicted.
Initialize ==
    /\ ~ serving /\ serving' = TRUE /\ revived' = behind
    /\ \E expired \in SUBSET DOMAIN file :
        LET keys == [i \in DOMAIN file |-> file[i][1]]
            fresh == [i \in DOMAIN file \ expired |-> file[i][1]]
            e == [k \in Key |-> IF \E i \in DOMAIN fresh : fresh[i] = k
                                 THEN file[CHOOSE i \in DOMAIN fresh : fresh[i] = k][2] ELSE Gone]
        IN /\ order' = OnlyIn(keys, {k \in Key : e[k] # Gone}) /\ entry' = e
           /\ stats' = [entries |-> Len(order'), bytes |-> BytesOf(ToSet(order'), e)]
    /\ UNCHANGED <<file, sets, newest, behind>>

\* The memory of a process that ends.
Vanishes ==
    /\ order' = <<>> /\ entry' = [k \in Key |-> Gone]
    /\ stats' = [entries |-> 0, bytes |-> 0] /\ revived' = {}

\* Mutant: shutdown() stops the tasks and saves nothing.
ShutdownUnsaved ==
    /\ serving /\ serving' = FALSE
    /\ Vanishes /\ behind' = revived
    /\ UNCHANGED <<file, sets, newest>>

\* shutdown() stops the tasks, saves, and the process ends.
Shutdown ==
    /\ serving /\ serving' = FALSE
    /\ SavePersisted /\ behind' = revived /\ Vanishes
    /\ UNCHANGED <<sets, newest>>

\* The process dies.
CacheCrash ==
    /\ serving /\ serving' = FALSE
    /\ Vanishes
    /\ UNCHANGED <<file, sets, newest, behind>>

CacheNext ==
    \/ \E k \in Key : Get(k) \/ Set(k) \/ CacheDelete(k)
    \/ Clear \/ CleanupStale \/ SweepExpired \/ Persist \/ Initialize \/ Shutdown \/ CacheCrash

-----------------------------------------------------------------------------
\* The entries are as many as the statistics say and never more than the
\* limit, also after a start that loads the file without evicting; the bytes
\* they take are within theirs although cleanup_stale_sessions() leaves the
\* total too high.  What the cache answers for a key is the last value stored
\* under it, not one that was deleted or replaced, but for what a start has
\* loaded for keys that were stored or deleted between the last save and a
\* crash, and not since.
CacheInv ==
    /\ Len(order) = stats.entries /\ Len(order) <= MaxEntries
    /\ \A i, j \in DOMAIN order : order[i] = order[j] => i = j
    /\ \A k \in Key : (entry[k] # Gone) <=> (k \in ToSet(order))
    /\ BytesOf(ToSet(order), entry) <= stats.bytes /\ stats.bytes <= MaxBytes
    /\ \A k \in ToSet(order) : entry[k].value = newest[k] \/ k \in revived

\* x was used before y.
Before(x, y, keys) == \E i, j \in DOMAIN keys : i < j /\ keys[i] = x /\ keys[j] = y

\* Of two entries that stay, the one used earlier stays the earlier one unless
\* it is the one that is used.  When a set() evicts an entry, what was used
\* before it goes too, except for the entry that is being replaced, and that
\* is then the one used last.
OldestGoFirst ==
    LET left == ToSet(order')
        isLast(x) == x = order'[Len(order')]
        stored(x) == newest'[x] = sets'
    IN /\ \A x, y \in left : Before(x, y, order) => Before(x, y, order') \/ isLast(x)
       /\ sets' # sets =>
             /\ \A x \in left, y \in Key \ left : Before(x, y, order) => stored(x)
             /\ \A x \in left : stored(x) => isLast(x)
=============================================================================
