--------------------------- MODULE ProcessMonitor ---------------------------
(***************************************************************************)
(* The two loops of the process manager (managers/process.py) over the     *)
(* records: _monitor_processes, which finds the dead, saves and announces  *)
(* them and drops the old ones, and _monitor_resources, which measures.    *)
(* Beside them run registration and withdrawal, which hold the registry    *)
(* lock the loops do not take, and terminations.  Every one stops at each  *)
(* write to the database, and any write may fail; ProcessTable has the     *)
(* same calls with commits and restarts, without the loops.                *)
(*                                                                         *)
(* A write is made in the order it is issued, with the status the record   *)
(* then has.  Pids are used again: PidFor gives records the same pid.      *)
(***************************************************************************)
EXTENDS Naturals

CONSTANTS
    Proc,
    MonitorPid,
    PidFor,          \* the pid each record is made for
    NoProc,
    MaxFaults       \* bound: writes to the database that fail

ASSUME MonitorAssumption == PidFor \in [Proc -> MonitorPid] /\ NoProc \notin Proc /\ MaxFaults \in Nat

VARIABLES
    livePids,        \* the pids that have a process
    recorded,         \* of the record object, in _processes or not
    held,        \* the keys of _processes
    byPid,          \* _pid_to_process_id
    saved,         \* the status in the row, in the order the writes are issued
    files,          \* the pid files
    orphanEvents,   \* records a process_orphaned event was emitted for
    registry,       \* the call that holds the registry lock, and its record
    killing,        \* records with a termination that has not signalled yet
    lost,           \* records with a call or a round that a failed write has ended
    round,          \* the rest of this round of _monitor_processes
    alerted,        \* the processes an alert was counted for within five minutes
    enforce,        \* _monitor_resources: "sleeping", or on its way to the validations
    due,            \* the interval between validations is over
    faults

sysVars == <<livePids, recorded, held, byPid, saved, files, registry, killing, lost, faults>>
roundVars == <<orphanEvents, round>>
usageVars == <<alerted, enforce, due>>
monitorVars == <<sysVars, roundVars, usageVars>>

NeverMade == "none"
Over == {"stopped", "orphaned"}
NoCall == [pc |-> "free", id |-> NoProc]
RoundOver == [pc |-> "sleeping", at |-> NoProc, dead |-> {}, orphaned |-> {}, stale |-> {}]
Rounds == [pc : {"sleeping", "dead", "orphan"}, at : Proc \cup {NoProc},
           dead : SUBSET Proc, orphaned : SUBSET Proc, stale : SUBSET Proc]

MonitorTypeOK ==
    /\ livePids \subseteq MonitorPid /\ held \subseteq Proc /\ files \subseteq Proc
    /\ orphanEvents \subseteq Proc /\ killing \subseteq Proc /\ lost \subseteq Proc /\ alerted \subseteq Proc
    /\ recorded \in [Proc -> {NeverMade, "running", "stopping"} \cup Over]
    /\ saved \in [Proc -> {NeverMade, "running", "stopping"} \cup Over]
    /\ byPid \in [MonitorPid -> Proc \cup {NoProc}]
    /\ \/ registry = NoCall
       \/ registry \in [pc : {"logging", "saving", "withdrawing"}, id : Proc]
    /\ round \in Rounds
    /\ enforce \in {"sleeping", "enforcing"} /\ due \in BOOLEAN
    /\ faults \in 0 .. MaxFaults

MonitorInit ==
    /\ livePids = {} /\ held = {} /\ files = {} /\ orphanEvents = {} /\ alerted = {}
    /\ registry = NoCall /\ killing = {} /\ lost = {}
    /\ recorded = [p \in Proc |-> NeverMade] /\ saved = recorded
    /\ byPid = [i \in MonitorPid |-> NoProc]
    /\ round = RoundOver
    /\ enforce = "sleeping" /\ due = FALSE
    /\ faults = 0

Exists(p) == PidFor[p] \in livePids

-----------------------------------------------------------------------------
(* Processes, and the calls beside the loops *)

PidTaken(i) == i \notin livePids /\ livePids' = livePids \cup {i}
    /\ UNCHANGED <<recorded, held, byPid, saved, files, registry, killing, lost, faults, roundVars, usageVars>>

PidFreed(i) == i \in livePids /\ livePids' = livePids \ {i}
    /\ UNCHANGED <<recorded, held, byPid, saved, files, registry, killing, lost, faults, roundVars, usageVars>>

\* _save_process(), as it is issued; and a statement or a commit that fails.
Writes(p, status) == saved' = [saved EXCEPT ![p] = status] /\ UNCHANGED <<lost, faults>>

Loses(ps) == faults < MaxFaults /\ faults' = faults + 1 /\ lost' = lost \cup ps /\ UNCHANGED saved

\* An owner of the pid that exists is returned instead.  The record is in the
\* table before the event of it is logged, its row written and its file made.
Enrol(p) ==
    /\ registry = NoCall
    /\ recorded[p] = NeverMade /\ Exists(p)
    /\ byPid[PidFor[p]] \notin held
    /\ recorded' = [recorded EXCEPT ![p] = "running"]
    /\ held' = held \cup {p} /\ byPid' = [byPid EXCEPT ![PidFor[p]] = p]
    /\ registry' = [pc |-> "logging", id |-> p]
    /\ UNCHANGED <<livePids, saved, files, killing, lost, faults, roundVars, usageVars>>

EnrolLogged ==
    LET p == registry.id
    IN /\ registry.pc = "logging"
       /\ \/ Writes(p, recorded[p]) /\ registry' = [pc |-> "saving", id |-> p]
          \/ Loses({p}) /\ registry' = NoCall
       /\ UNCHANGED <<livePids, recorded, held, byPid, files, killing, roundVars, usageVars>>

\* The file, whatever the loops have done with the record meanwhile; when it
\* cannot be written nobody is told.
EnrolSaved ==
    LET p == registry.id
    IN /\ registry.pc = "saving" /\ registry' = NoCall
       /\ \/ files' = files \cup {p} /\ UNCHANGED <<saved, lost, faults>>
          \/ Loses({p}) /\ UNCHANGED files
       /\ UNCHANGED <<livePids, recorded, held, byPid, killing, roundVars, usageVars>>

Withdraw(p) ==
    /\ registry = NoCall /\ p \in held
    /\ recorded' = [recorded EXCEPT ![p] = "stopped"]
    /\ held' = held \ {p} /\ byPid' = [byPid EXCEPT ![PidFor[p]] = NoProc]
    /\ \/ Writes(p, "stopped") /\ registry' = [pc |-> "withdrawing", id |-> p]
       \/ Loses({p}) /\ UNCHANGED registry
    /\ UNCHANGED <<livePids, files, killing, roundVars, usageVars>>

\* Mutant: the pid file is left where it is.
WithdrawnKeepsFile ==
    /\ registry.pc = "withdrawing" /\ registry' = NoCall
    /\ UNCHANGED <<livePids, recorded, held, byPid, saved, files, killing, lost, faults, roundVars, usageVars>>

Withdrawn ==
    /\ registry.pc = "withdrawing" /\ registry' = NoCall
    /\ \/ files' = files \ {registry.id} /\ UNCHANGED <<saved, lost, faults>>
       \/ Loses({registry.id}) /\ UNCHANGED files
    /\ UNCHANGED <<livePids, recorded, held, byPid, killing, roundVars, usageVars>>

\* terminate_process() of a process that is gone, or before the signal.
StopProcess(p) ==
    /\ p \in held \ killing
    /\ recorded' = [recorded EXCEPT ![p] = IF Exists(p) THEN "stopping" ELSE "stopped"]
    /\ \/ Writes(p, recorded'[p]) /\ killing' = IF Exists(p) THEN killing \cup {p} ELSE killing
       \/ Loses({p}) /\ UNCHANGED killing
    /\ UNCHANGED <<livePids, held, byPid, files, registry, roundVars, usageVars>>

\* It is killed, or has ended while it was waited for; or there was nothing left
\* to signal, and the call raises.  The record may have left the table.
Killed(p) ==
    /\ p \in killing /\ killing' = killing \ {p}
    /\ \/ /\ livePids' = livePids \ {PidFor[p]}
          /\ recorded' = [recorded EXCEPT ![p] = "stopped"]
          /\ Writes(p, "stopped") \/ Loses({p})
       \/ ~Exists(p) /\ UNCHANGED <<livePids, recorded, saved, lost, faults>>
       \/ Loses({p}) /\ UNCHANGED <<livePids, recorded>>
    /\ UNCHANGED <<held, byPid, files, registry, roundVars, usageVars>>

-----------------------------------------------------------------------------
(* _monitor_processes: one look at every record, then one list after the    *)
(* other, with a write for each record of the first two.                    *)

\* The next write, or, when there is none left, the old records go, without
\* another await.  Their pid is taken out of the pid table, whoever has it by now.
Proceed(r) ==
    \/ \E p \in r.dead :
          /\ Writes(p, recorded'[p])
          /\ round' = [r EXCEPT !.pc = "dead", !.at = p, !.dead = @ \ {p}]
          /\ UNCHANGED <<held, byPid, files>>
    \/ \E p \in r.orphaned :
          /\ r.dead = {}
          /\ Writes(p, recorded'[p])
          /\ round' = [r EXCEPT !.pc = "orphan", !.at = p, !.orphaned = @ \ {p}]
          /\ UNCHANGED <<held, byPid, files>>
    \/ /\ r.dead \cup r.orphaned = {}
       /\ round' = RoundOver
       /\ held' = held \ r.stale
       /\ byPid' = [i \in MonitorPid |-> IF \E p \in r.stale : PidFor[p] = i THEN NoProc ELSE byPid[i]]
       /\ files' = files \ r.stale
       /\ UNCHANGED <<saved, lost, faults>>
    \/ /\ r.dead \cup r.orphaned # {}
       /\ Loses(r.dead \cup r.orphaned)
       /\ round' = RoundOver /\ UNCHANGED <<held, byPid, files>>

FoundDead == [p \in Proc |->
    IF p \notin held \/ Exists(p) THEN recorded[p]
    ELSE IF recorded[p] = "stopping" THEN "stopped"
    ELSE IF recorded[p] = "running" THEN "orphaned"
    ELSE recorded[p]]

Seen(old) ==
    [pc |-> "sleeping", at |-> NoProc,
     dead |-> {p \in Proc : recorded[p] = "stopping" /\ recorded'[p] = "stopped"},
     orphaned |-> {p \in Proc : recorded[p] = "running" /\ recorded'[p] = "orphaned"},
     stale |-> old]

\* Mutant: the old records that are dropped are the orphaned ones too.
ScanDropsOrphans ==
    /\ round.pc = "sleeping"
    /\ recorded' = FoundDead
    /\ \E old \in SUBSET {p \in held : recorded'[p] \in Over} : Proceed(Seen(old))
    /\ UNCHANGED <<livePids, registry, killing, orphanEvents, usageVars>>

\* `updated_at` is as old as the registration for all these statuses: a stopped
\* record may be an hour old at once, if its registration is not under way.
Scan ==
    /\ round.pc = "sleeping"
    /\ recorded' = FoundDead
    /\ \E old \in SUBSET {p \in held \ {registry.id} : recorded'[p] = "stopped"} : Proceed(Seen(old))
    /\ UNCHANGED <<livePids, registry, killing, orphanEvents, usageVars>>

\* The write has ended; an orphan is announced.
SaveEnds ==
    /\ round.pc # "sleeping"
    /\ UNCHANGED <<livePids, recorded, registry, killing, usageVars>>
    /\ orphanEvents' = IF round.pc = "orphan" THEN orphanEvents \cup {round.at} ELSE orphanEvents
    /\ Proceed(round)

\* A write that fails ends the round: what was found is forgotten with it.
RoundFails ==
    /\ round.pc # "sleeping"
    /\ Loses({round.at} \cup round.dead \cup round.orphaned)
    /\ round' = RoundOver
    /\ UNCHANGED <<livePids, recorded, held, byPid, files, registry, killing, orphanEvents, usageVars>>

-----------------------------------------------------------------------------
(* _monitor_resources.  One batch is measured without an await: reporting a  *)
(* violation, and an alert after it was counted, raise for want of the event *)
(* category, before they could suspend or end a process.                     *)

Collect ==
    /\ enforce = "sleeping" /\ enforce' = "enforcing"
    /\ \E near \in SUBSET {p \in held : recorded[p] = "running" /\ Exists(p)} : alerted' = alerted \cup near
    /\ recorded' = [p \in Proc |->
                     IF p \in held /\ recorded[p] = "running" /\ ~Exists(p) THEN "orphaned" ELSE recorded[p]]
    /\ UNCHANGED <<livePids, held, byPid, saved, files, registry, killing, lost, faults, roundVars, due>>

\* With a running process the look for its last validation raises, and the
\* interval is not begun again.
Enforce ==
    /\ enforce = "enforcing" /\ enforce' = "sleeping"
    /\ due' = (due /\ \E p \in held : recorded[p] = "running")
    /\ UNCHANGED <<sysVars, roundVars, alerted>>

TimePasses ==
    /\ \/ due' = TRUE /\ UNCHANGED alerted
       \/ \E p \in alerted : alerted' = alerted \ {p} /\ UNCHANGED due
    /\ UNCHANGED <<sysVars, roundVars, enforce>>

-----------------------------------------------------------------------------
MonitorNext ==
    \/ \E i \in MonitorPid : PidTaken(i) \/ PidFreed(i)
    \/ \E p \in Proc : Enrol(p) \/ Withdraw(p) \/ StopProcess(p) \/ Killed(p)
    \/ EnrolLogged \/ EnrolSaved \/ Withdrawn
    \/ Scan \/ SaveEnds \/ RoundFails
    \/ Collect \/ Enforce \/ TimePasses

-----------------------------------------------------------------------------
(* Properties *)

\* Who hears of process_orphaned does not find the row of the process saying that
\* it runs, also when a registration, a termination or a withdrawal of the record
\* writes it at the same time, or fails to (_monitor_processes, _save_process).
AnnouncedIsSaved == \A p \in orphanEvents : saved[p] # "running"

\* Unless a write of its own failed, a record that has left the table has its
\* last status in the database, whether it was dropped in the round that found it
\* dead, or withdrawn, or was in the middle of a termination (_monitor_processes,
\* unregister_process, terminate_process).
DroppedIsRecorded == \A p \in Proc \ (held \cup lost) : saved[p] = recorded[p]

\* There is a pid file for each record of the table and for no other, unless the
\* call that makes or removes it is under way or its write failed, whatever the
\* loops do between its steps (_create_pid_file, _remove_pid_file).
FilesAreTracked == \A p \in Proc \ (lost \cup {registry.id}) : p \in files <=> p \in held

MonitorInv == AnnouncedIsSaved /\ DroppedIsRecorded /\ FilesAreTracked

\* "Emit orphaned process events" (managers/process.py:1456).  False of the code:
\* the resource loop marks the record first and the monitor passes it over.
OrphansAreAnnounced ==
    \A p \in held \ lost : recorded[p] = "orphaned" => p \in round.orphaned \cup {round.at} \cup orphanEvents

\* A registered process is found by its pid (get_process_by_pid).  False of the
\* code: an old record of the pid takes the entry with it when it is dropped.
FoundByItsPid == \A p \in held : recorded[p] = "running" /\ Exists(p) => byPid[PidFor[p]] \in held
=============================================================================
