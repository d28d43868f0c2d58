------------------------------ MODULE MCStores ------------------------------
(***************************************************************************)
(* The stores and services whose properties are about safety, for TLC.     *)
(* They share no state, so a behaviour looks at one of them, chosen at the *)
(* start, and the others stand still.                                      *)
(***************************************************************************)
EXTENDS SessionCache, TieredCache, MetricsFiles, SlashCommands, LineStream, BinaryManager,
        Transport, ProcessMonitor, RingBuffer, Timeline, ConfigLoader, ProcessUpkeep, TLC

CONSTANTS b1, b2, i1, u1, u2

\* Small and large sessions; one that fails is large, and one that cannot be
\* pickled small.
Sessions ==
    [bytes : 1 .. 2, kind : {"plain"}] \cup {[bytes |-> 2, kind |-> "failed"], [bytes |-> 1, kind |-> "unpicklable"]}

\* `which` and the directories of nvm know one executable each, PATH both.
Directories == ("which" :> {b1}) @@ ("nvm" :> {b2}) @@ ("path" :> {b1, b2})

\* Everything of up to five bytes that a process may write, with the two bytes
\* of a character together.
Outputs ==
    {s \in UNION {[1 .. n -> Byte \ {"x"}] : n \in 1 .. 5} :
        \A i \in DOMAIN s :
            /\ s[i] = "h" <=> (i < Len(s) /\ s[i + 1] = "t")
            /\ s[i] = "t" => i > 1}

\* One pid, that both records are made for.
SamePid == [r \in Proc |-> i1]

\* Everything of up to three bytes.
Writings == UNION {[1 .. n -> Octet] : n \in 0 .. 3}

\* A file, and a dictionary that is critical; what they may say of one section,
\* and of the hot reload; variables of the environment in two orders.
Priorities == (u1 :> 20) @@ (u2 :> 101)
Held ==
    LET logging(node) == Parsed("logging" :> node)
    IN {Missing, Broken, logging(Dict("level" :> "1")), logging(Dict(("level" :> "2") @@ ("path" :> "2"))),
        logging(Leaf("x")), Parsed("hot" :> Leaf("off"))}

Environments ==
    LET section == [path |-> <<"logging">>, value |-> "4"]
        setting == [path |-> <<"logging", "path">>, value |-> "3"]
    IN {<<>>, <<setting>>, <<section, setting>>}

VARIABLE focus

storeVars == <<cacheVars, tieredVars, metricsVars, slashVars>>
toolVars == <<lineVars, binaryVars>>
processVars == <<transportVars, monitorVars, processUpkeepVars>>
dataVars == <<ringVars, timelineVars, configVars>>

Init ==
    /\ CacheInit /\ TieredInit /\ MetricsInit /\ SlashInit /\ MonitorInit /\ UpkeepInit
    /\ RingInit /\ TimelineInit
    /\ focus \in {"cache", "tiered", "metrics", "slash", "lines", "binary", "transport", "monitor",
                  "upkeep", "ring", "timeline", "config"}
    /\ LineInit /\ (focus # "lines" => unread = <<"nl">>)
    /\ BinaryInit /\ (focus # "binary" => exe = [b \in Binary |-> "good"])
    /\ TransportInit /\ (focus # "transport" => reader = "absent")
    /\ ConfigInit /\ (focus # "config" => environ = <<>> /\ \A s \in Source : holds[s] = Parsed("hot" :> Leaf("off")))

StoreNext ==
    /\ UNCHANGED <<toolVars, processVars, dataVars>>
    /\ \/ focus = "cache" /\ CacheNext /\ UNCHANGED <<tieredVars, metricsVars, slashVars>>
       \/ focus = "tiered" /\ TieredNext /\ UNCHANGED <<cacheVars, metricsVars, slashVars>>
       \/ focus = "metrics" /\ MetricsNext /\ UNCHANGED <<cacheVars, tieredVars, slashVars>>
       \/ focus = "slash" /\ SlashNext /\ UNCHANGED <<cacheVars, tieredVars, metricsVars>>

ToolNext ==
    /\ UNCHANGED <<storeVars, processVars, dataVars>>
    /\ \/ focus = "lines" /\ LineNext /\ UNCHANGED binaryVars
       \/ focus = "binary" /\ BinaryNext /\ UNCHANGED lineVars

ProcessNext ==
    /\ UNCHANGED <<storeVars, toolVars, dataVars>>
    /\ \/ focus = "transport" /\ TransportNext /\ UNCHANGED <<monitorVars, processUpkeepVars>>
       \/ focus = "monitor" /\ MonitorNext /\ UNCHANGED <<transportVars, processUpkeepVars>>
       \/ focus = "upkeep" /\ UpkeepNext /\ UNCHANGED <<transportVars, monitorVars>>

DataNext ==
    /\ UNCHANGED <<storeVars, toolVars, processVars>>
    /\ \/ focus = "ring" /\ RingNext /\ UNCHANGED <<timelineVars, configVars>>
       \/ focus = "timeline" /\ TimelineNext /\ UNCHANGED <<ringVars, configVars>>
       \/ focus = "config" /\ ConfigNext /\ UNCHANGED <<ringVars, timelineVars>>

Next == UNCHANGED focus /\ (StoreNext \/ ToolNext \/ ProcessNext \/ DataNext)

Spec == Init /\ [][Next]_<<storeVars, toolVars, processVars, dataVars, focus>>

-----------------------------------------------------------------------------
(* Properties: those of the modules, one for each kind of component *)

\* The caches of sessions and of results: managers/cache.py, storage/cache.py.
CachesInv ==
    /\ focus = "cache" => CacheTypeOK /\ CacheInv
    /\ focus = "tiered" => TieredTypeOK /\ TieredInv

\* What is written to files and read from them: the metrics, the timeline of
\* checkpoints, the configuration.
FilesInv ==
    /\ focus = "metrics" => MetricsTypeOK /\ MetricsInv
    /\ focus = "timeline" => TimelineTypeOK /\ TimelineInv
    /\ focus = "config" => ConfigTypeOK /\ LastOneWins

\* The bytes of a stream on their way into lines, and in a ring.
StreamsInv ==
    /\ focus = "lines" => LineTypeOK /\ LineInv
    /\ focus = "ring" => RingInv

\* The commands, and the executables they are about.
CommandsInv ==
    /\ focus = "slash" => SlashTypeOK /\ SlashInv
    /\ focus = "binary" => BinaryTypeOK /\ BinaryInv

\* The requests over a transport, and its connection.
RequestsInv == focus = "transport" => TransportTypeOK /\ TransportInv

\* The processes: their monitor, and the clean-up of their database.
ProcessesInv ==
    /\ focus = "monitor" => MonitorTypeOK /\ MonitorInv
    /\ focus = "upkeep" => UpkeepTypeOK /\ UpkeepInv

\* The session cache is one of the least recently used: managers/cache.py, set(),
\* get() and _evict_if_needed().
CacheEvictsOldest == [][focus = "cache" => OldestGoFirst]_cacheVars
=============================================================================
