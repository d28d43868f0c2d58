---------------------------- MODULE BinaryManager ----------------------------
(***************************************************************************)
(* The search for the claude executable (managers/binary.py): one caller   *)
(* at a time, strategy after strategy, each of them a subprocess or a      *)
(* query; what is found is validated by running it, cached for a time and  *)
(* saved.  Executables come, break and go while the callers wait.          *)
(***************************************************************************)
EXTENDS Naturals, Sequences

CONSTANTS
    Binary,         \* the paths an executable may be found at
    Reached,        \* the paths each strategy but the database looks at
    Saveable,       \* executables whose --build-info names no build date
    NvmCheck,       \* binary_config.nvm_check
    BinCaller,
    NoBinary,
    NoCaller

ASSUME BinaryAssumption ==
    /\ Reached \in [{"which", "nvm", "path"} -> SUBSET Binary]
    /\ Saveable \subseteq Binary /\ NvmCheck \in BOOLEAN
    /\ NoBinary \notin Binary /\ NoCaller \notin BinCaller

VARIABLES
    exe,            \* what is at each path
    cached, fresh,  \* _binary_cache; _cache_expires lies ahead
    savedBinaries,          \* the rows of `binaries`
    discovery,      \* _discovery_lock
    search          \* the call of each caller; `steady`, nothing outside changed since it began

binaryVars == <<exe, cached, fresh, savedBinaries, discovery, search>>

Strategies == <<"which", "nvm", "path", "database">>
NoSearch == [pc |-> "idle", at |-> 1, bin |-> NoBinary, force |-> FALSE, steady |-> TRUE]
SearchEnded(pc, b) == [NoSearch EXCEPT !.pc = pc, !.bin = b]

BinaryTypeOK ==
    /\ exe \in [Binary -> {"absent", "good", "bad"}]
    /\ cached \in Binary \cup {NoBinary} /\ fresh \in BOOLEAN
    /\ savedBinaries \subseteq Binary /\ discovery \in BinCaller \cup {NoCaller}
    /\ search \in [BinCaller -> [pc : {"idle", "waiting", "trying", "validating", "saving", "noting", "found", "failed"},
                                 at : 1 .. 5, bin : Binary \cup {NoBinary}, force : BOOLEAN, steady : BOOLEAN]]

BinaryInit ==
    /\ exe \in [Binary -> {"absent", "good", "bad"}]
    /\ cached = NoBinary /\ fresh = FALSE /\ savedBinaries = {}
    /\ discovery = NoCaller /\ search = [c \in BinCaller |-> NoSearch]

Disturbed == search' = [c \in BinCaller |-> [search[c] EXCEPT !.steady = FALSE]]

\* An executable is installed, broken or removed.
Changes(b) ==
    /\ \E state \in {"absent", "good", "bad"} \ {exe[b]} : exe' = [exe EXCEPT ![b] = state]
    /\ Disturbed /\ UNCHANGED <<cached, fresh, savedBinaries, discovery>>

CacheExpires == fresh /\ fresh' = FALSE /\ UNCHANGED <<exe, cached, savedBinaries, discovery, search>>

\* invalidate_cache and the stop of the manager: the lock is not taken.
InvalidateCache ==
    /\ cached' = NoBinary /\ fresh' = FALSE
    /\ UNCHANGED <<exe, savedBinaries, discovery, search>>

-----------------------------------------------------------------------------
(* discover_binary; get_binary is the same call with the error swallowed *)

Continues(c, s) == search' = [search EXCEPT ![c] = s] /\ UNCHANGED discovery
Finishes(c, pc, b) == search' = [search EXCEPT ![c] = SearchEnded(pc, b)] /\ discovery' = NoCaller

DiscoverBinary(c, force) ==
    /\ search[c].pc \in {"idle", "found", "failed"}
    /\ search' = [search EXCEPT ![c] = [SearchEnded("waiting", NoBinary) EXCEPT !.force = force]]
    /\ UNCHANGED <<exe, cached, fresh, savedBinaries, discovery>>

Locked(c) ==
    /\ search[c].pc = "waiting" /\ discovery = NoCaller
    /\ IF ~search[c].force /\ fresh /\ cached # NoBinary
       THEN Finishes(c, "found", cached)
       ELSE discovery' = c /\ search' = [search EXCEPT ![c].pc = "trying"]
    /\ UNCHANGED <<exe, cached, fresh, savedBinaries>>

Present == {b \in Binary : exe[b] # "absent"}

NextStrategy(c) == [search[c] EXCEPT !.pc = "trying", !.at = @ + 1, !.bin = NoBinary]

\* What the strategy comes back with.  Only the database validates what it
\* finds before it chooses.
Tried(c) ==
    LET name == Strategies[search[c].at]
        found == IF name = "database" THEN {b \in savedBinaries : exe[b] = "good"}
                 ELSE Reached[name] \cap Present IN
    /\ search[c].pc = "trying" /\ search[c].at \in DOMAIN Strategies
    /\ name = "nvm" => NvmCheck
    /\ \/ found = {} /\ Continues(c, NextStrategy(c))
       \/ \E b \in found : Continues(c, [search[c] EXCEPT !.pc = "validating", !.bin = b])
    /\ UNCHANGED <<exe, cached, fresh, savedBinaries>>

\* Without the nvm check its place in the list is None, and unpacking it
\* raises; at the end of the list the search has failed.
GivesUp(c) ==
    /\ search[c].pc = "trying"
    /\ search[c].at \in DOMAIN Strategies => Strategies[search[c].at] = "nvm" /\ ~NvmCheck
    /\ Finishes(c, "failed", NoBinary)
    /\ UNCHANGED <<exe, cached, fresh, savedBinaries>>

\* Mutant: what was found is trusted.
ValidatedAlways(c) ==
    /\ search[c].pc = "validating"
    /\ cached' = search[c].bin /\ fresh' = TRUE
    /\ Continues(c, [search[c] EXCEPT !.pc = "saving"])
    /\ UNCHANGED <<exe, savedBinaries>>

Validated(c) ==
    /\ search[c].pc = "validating"
    /\ \/ /\ exe[search[c].bin] = "good"
          /\ cached' = search[c].bin /\ fresh' = TRUE
          /\ Continues(c, [search[c] EXCEPT !.pc = "saving"])
       \/ /\ exe[search[c].bin] # "good"
          /\ Continues(c, NextStrategy(c))
          /\ UNCHANGED <<cached, fresh>>
    /\ UNCHANGED <<exe, savedBinaries>>

\* The build date cannot be stored, whether it is a string or the date of the
\* file: the next strategy is tried, with the cache set.
SaveBinary(c) ==
    /\ search[c].pc = "saving"
    /\ \/ /\ search[c].bin \in Saveable
          /\ savedBinaries' = savedBinaries \cup {search[c].bin}
          /\ Finishes(c, "found", search[c].bin)
       \/ /\ search[c].bin \notin Saveable
          /\ Continues(c, [search[c] EXCEPT !.pc = "noting"])
          /\ UNCHANGED savedBinaries
    /\ UNCHANGED <<exe, cached, fresh>>

\* _record_discovery of the failure.
Noted(c) ==
    /\ search[c].pc = "noting"
    /\ Continues(c, NextStrategy(c))
    /\ UNCHANGED <<exe, cached, fresh, savedBinaries>>

\* The database fails: a save is a failed strategy, a note ends the search.
DatabaseFails(c) ==
    /\ \/ /\ search[c].pc = "saving"
          /\ search' = [search EXCEPT ![c].pc = "noting", ![c].steady = FALSE]
          /\ UNCHANGED discovery
       \/ search[c].pc = "noting" /\ Finishes(c, "failed", NoBinary)
    /\ UNCHANGED <<exe, cached, fresh, savedBinaries>>

BinaryNext ==
    \/ \E b \in Binary : Changes(b)
    \/ CacheExpires \/ InvalidateCache
    \/ \E c \in BinCaller : \E force \in BOOLEAN : DiscoverBinary(c, force)
    \/ \E c \in BinCaller :
          Locked(c) \/ Tried(c) \/ GivesUp(c) \/ Validated(c) \/ SaveBinary(c) \/ Noted(c) \/ DatabaseFails(c)

-----------------------------------------------------------------------------
(* Properties *)

\* A search that nothing disturbed and that has got as far as saving holds an
\* executable that works, whatever other callers, expiries and invalidations came
\* between (_validate_binary).  What a call returns from the cache is not meant.
FoundWorks ==
    \A c \in BinCaller :
        search[c].pc \in {"saving", "noting"} /\ search[c].steady => exe[search[c].bin] = "good"

\* A search goes past the strategies that look at files without a result only
\* if they found none, a broken one, or one that could not be saved.
PassedOver ==
    \A c \in BinCaller :
        LET s == search[c] IN
        s.pc = "trying" /\ s.steady =>
            \A i \in 1 .. s.at - 1 :
                Strategies[i] # "database" /\ Reached[Strategies[i]] \cap Present # {}
                    => \E b \in Reached[Strategies[i]] : exe[b] = "bad" \/ (exe[b] = "good" /\ b \notin Saveable)

BinaryInv == FoundWorks /\ PassedOver

\* "SystemError: If no binary found" (managers/binary.py:263).  False of the code:
\* the error is raised with a found, validated executable in the cache.
FailureMeansNone ==
    \A c \in BinCaller :
        search[c].pc = "trying" /\ search[c].at > Len(Strategies) /\ search[c].steady => ~(fresh /\ cached # NoBinary)
=============================================================================
