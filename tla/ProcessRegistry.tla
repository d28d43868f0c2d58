--------------------------- MODULE ProcessRegistry ---------------------------
(***************************************************************************)
(* The registry of the claude processes (registry/): the rows of storage,  *)
(* and who acts on them: the tracker's loop, the cleaner's loop, callers   *)
(* of track and untrack, and a validation that applies its fixes.          *)
(*                                                                         *)
(* Each operation of the storage holds its lock from the first statement   *)
(* to the commit, so it is one step here.  What the actors do is not: they *)
(* read the rows, look at the processes, and act on pids later.            *)
(***************************************************************************)
EXTENDS Naturals

CONSTANTS
    RegPid,
    Session,
    Orphan,         \* the session of a process that the cleaner found
    None,           \* no row, no pid
    Caller,         \* callers of track_process and untrack_process
    MaxStarts       \* bound: processes that get the same pid, one after the other

ASSUME RegistryAssumption == MaxStarts \in Nat /\ Orphan \notin Session /\ None \notin RegPid

VARIABLES
    living,      \* the claude process that has the pid: the how-many-eth one, 0 for none
    starts,     \* how many have had it
    rows,       \* the table `processes`
    trackedPids,    \* _tracked_pids
    tracker,    \* the tracker's loop: where it is, the pids it has yet to do, the one it is on
    cleaner,    \* the cleaner's loop: where it is, and the verdicts or orphans left
    fixer,      \* validate_all_processes(fix_issues=True): the entries left, the fix it is at
    caller      \* what each caller is waiting for

regVars == <<living, starts, rows, trackedPids, tracker, cleaner, fixer, caller>>
procVars == <<living, starts>>

Birth == 1 .. MaxStarts
Row == [birth : Birth, session : Session \cup {Orphan}, status : {"running", "stopped"}, stale : BOOLEAN]
Asleep == [pc |-> "asleep", left |-> {}, on |-> None]
FixerAsleep == [pc |-> "asleep", left |-> {}, pid |-> None, birth |-> 0, session |-> Orphan]
CleanerAsleep == [pc |-> "asleep", gone |-> {}, quiet |-> {}, orphans |-> {}]

RegTypeOK ==
    /\ starts \in [RegPid -> 0 .. MaxStarts]
    /\ \A p \in RegPid : living[p] \in {0, starts[p]}
    /\ rows \in [RegPid -> Row \cup {None}]
    /\ trackedPids \subseteq RegPid
    /\ tracker \in [pc : {"asleep", "updating", "noting", "ending", "marking"}, left : SUBSET RegPid, on : RegPid \cup {None}]
    /\ cleaner \in [pc : {"asleep", "removing", "adopting"}, gone : SUBSET RegPid, quiet : SUBSET RegPid,
                    orphans : SUBSET (RegPid \X Birth)]
    /\ fixer \in [pc : {"asleep", "fixing", "removing", "watching", "refreshing", "storing", "adding"},
                  left : SUBSET (RegPid \X Birth \X BOOLEAN), pid : RegPid \cup {None},
                  birth : 0 .. MaxStarts, session : Session \cup {Orphan}]
    /\ caller \in [Caller -> [pc : {"idle", "storing", "adding", "removing"}, pid : RegPid \cup {None},
                              birth : 0 .. MaxStarts, session : Session \cup {Orphan}]]

Resting == [pc |-> "idle", pid |-> None, birth |-> 0, session |-> Orphan]

RegInit ==
    /\ starts = [p \in RegPid |-> 0] /\ living = starts
    /\ rows = [p \in RegPid |-> None] /\ trackedPids = {}
    /\ tracker = Asleep /\ cleaner = CleanerAsleep /\ fixer = FixerAsleep
    /\ caller = [c \in Caller |-> Resting]

HasRow(p) == rows[p] # None
Matches(p) == HasRow(p) /\ rows[p].birth = living[p]

-----------------------------------------------------------------------------
(* The operating system, and time *)

ProcessStarts(p) ==
    /\ living[p] = 0 /\ starts[p] < MaxStarts
    /\ starts' = [starts EXCEPT ![p] = @ + 1]
    /\ living' = [living EXCEPT ![p] = starts[p] + 1]
    /\ UNCHANGED <<rows, trackedPids, tracker, cleaner, fixer, caller>>

ProcessExits(p) ==
    /\ living[p] # 0
    /\ living' = [living EXCEPT ![p] = 0]
    /\ UNCHANGED <<starts, rows, trackedPids, tracker, cleaner, fixer, caller>>

\* last_seen falls behind the thresholds.
GrowsStale(p) ==
    /\ HasRow(p) /\ ~rows[p].stale
    /\ rows' = [rows EXCEPT ![p].stale = TRUE]
    /\ UNCHANGED <<procVars, trackedPids, tracker, cleaner, fixer, caller>>

-----------------------------------------------------------------------------
(* The operations of the storage *)

\* register_process: over an existing row started_at stays as it is.
Put(p, birth, session) ==
    rows' = [rows EXCEPT ![p] =
        [birth |-> IF HasRow(p) THEN rows[p].birth ELSE birth, session |-> session, status |-> "running", stale |-> FALSE]]

\* update_process_status and update_process_resources: no row, no effect, and
\* whatever is written the row has been seen now.
Touch(p, status) ==
    rows' = IF HasRow(p) THEN [rows EXCEPT ![p].status = status, ![p].stale = FALSE] ELSE rows

Remove(p) == rows' = [rows EXCEPT ![p] = None]

\* cleanup_stale_processes; a longer threshold deletes fewer of the stale rows.
Purge(old) == rows' = [p \in RegPid |-> IF p \in old THEN None ELSE rows[p]]
Stale == {p \in RegPid : HasRow(p) /\ rows[p].stale}

-----------------------------------------------------------------------------
(* Callers *)

\* The process is looked at before the row is stored, and the pid joins the
\* tracked ones after it.
Track(c, p, s) ==
    /\ caller[c] = Resting /\ living[p] # 0
    /\ caller' = [caller EXCEPT ![c] = [pc |-> "storing", pid |-> p, birth |-> living[p], session |-> s]]
    /\ UNCHANGED <<procVars, rows, trackedPids, tracker, cleaner, fixer>>

Stored(c) ==
    /\ caller[c].pc = "storing"
    /\ Put(caller[c].pid, caller[c].birth, caller[c].session)
    /\ caller' = [caller EXCEPT ![c].pc = "adding"]
    /\ UNCHANGED <<procVars, trackedPids, tracker, cleaner, fixer>>

Added(c) ==
    /\ caller[c].pc = "adding"
    /\ trackedPids' = trackedPids \cup {caller[c].pid}
    /\ caller' = [caller EXCEPT ![c] = Resting]
    /\ UNCHANGED <<procVars, rows, tracker, cleaner, fixer>>

Untrack(c, p) ==
    /\ caller[c] = Resting
    /\ trackedPids' = trackedPids \ {p}
    /\ caller' = [caller EXCEPT ![c] = [Resting EXCEPT !.pc = "removing", !.pid = p]]
    /\ UNCHANGED <<procVars, rows, tracker, cleaner, fixer>>

Untracked(c) ==
    /\ caller[c].pc = "removing"
    /\ Remove(caller[c].pid)
    /\ caller' = [caller EXCEPT ![c] = Resting]
    /\ UNCHANGED <<procVars, trackedPids, tracker, cleaner, fixer>>

-----------------------------------------------------------------------------
(* The tracker's loop *)

TrackerGoes(pc, left, on) == tracker' = [pc |-> pc, left |-> left, on |-> on]

TrackerWakes ==
    /\ tracker = Asleep
    /\ TrackerGoes("updating", trackedPids, None)
    /\ UNCHANGED <<procVars, rows, trackedPids, cleaner, fixer, caller>>

\* A tracked pid that exists has its usage and then its status written; one that
\* does not is dropped, which raises and ends the round if it was untracked
\* since the round began.
UpdateTracked(p) ==
    /\ tracker.pc = "updating" /\ p \in tracker.left
    /\ \/ /\ living[p] # 0
          /\ rows' = IF HasRow(p) THEN [rows EXCEPT ![p].stale = FALSE] ELSE rows
          /\ TrackerGoes("noting", tracker.left \ {p}, p) /\ UNCHANGED trackedPids
       \/ /\ living[p] = 0 /\ p \in trackedPids
          /\ trackedPids' = trackedPids \ {p}
          /\ TrackerGoes("ending", tracker.left \ {p}, p) /\ UNCHANGED rows
       \/ /\ living[p] = 0 /\ p \notin trackedPids
          /\ tracker' = Asleep /\ UNCHANGED <<rows, trackedPids>>
    /\ UNCHANGED <<procVars, cleaner, fixer, caller>>

NoteStatus ==
    /\ tracker.pc \in {"noting", "ending"}
    /\ Touch(tracker.on, IF tracker.pc = "noting" THEN "running" ELSE "stopped")
    /\ TrackerGoes("updating", tracker.left, None)
    /\ UNCHANGED <<procVars, trackedPids, cleaner, fixer, caller>>

\* validate_tracked_processes judges the rows when it has read them and marks
\* the pids one after the other.
JudgeTracked ==
    /\ tracker.pc = "updating" /\ tracker.left = {}
    /\ TrackerGoes("marking", {p \in RegPid : HasRow(p) /\ ~Matches(p)}, None)
    /\ UNCHANGED <<procVars, rows, trackedPids, cleaner, fixer, caller>>

MarkStopped(p) ==
    /\ tracker.pc = "marking" /\ p \in tracker.left
    /\ Touch(p, "stopped")
    /\ TrackerGoes("marking", tracker.left \ {p}, None)
    /\ UNCHANGED <<procVars, trackedPids, cleaner, fixer, caller>>

TrackerPurges ==
    /\ tracker.pc = "marking" /\ tracker.left = {}
    /\ Purge(Stale)
    /\ tracker' = Asleep
    /\ UNCHANGED <<procVars, trackedPids, cleaner, fixer, caller>>

-----------------------------------------------------------------------------
(* The cleaner's loop *)

\* The rows are read and their processes looked at: those that are gone or
\* others now, and those that have not been seen for long.
CleanerWakes ==
    LET gone == {p \in RegPid : HasRow(p) /\ ~Matches(p)} IN
    /\ cleaner = CleanerAsleep
    /\ cleaner' = [pc |-> "removing", gone |-> gone, quiet |-> Stale \ gone, orphans |-> {}]
    /\ UNCHANGED <<procVars, rows, trackedPids, tracker, fixer, caller>>

\* Mutant: a pid that another process has by now is left alone.
CleansMissing(p) ==
    /\ cleaner.pc = "removing" /\ p \in cleaner.gone
    /\ cleaner' = [cleaner EXCEPT !.gone = @ \ {p}]
    /\ IF living[p] = 0 THEN Remove(p) ELSE UNCHANGED rows
    /\ UNCHANGED <<procVars, trackedPids, tracker, fixer, caller>>

CleansGone(p) ==
    /\ cleaner.pc = "removing" /\ p \in cleaner.gone
    /\ cleaner' = [cleaner EXCEPT !.gone = @ \ {p}]
    /\ Remove(p)
    /\ UNCHANGED <<procVars, trackedPids, tracker, fixer, caller>>

\* A stale process gets a last look: it is kept if it uses the processor.
CleansQuiet(p) ==
    /\ cleaner.pc = "removing" /\ p \in cleaner.quiet
    /\ cleaner' = [cleaner EXCEPT !.quiet = @ \ {p}]
    /\ Remove(p) \/ (living[p] # 0 /\ UNCHANGED rows)
    /\ UNCHANGED <<procVars, trackedPids, tracker, fixer, caller>>

\* find_orphaned_processes: the processes of which no row has the pid.
FindOrphans ==
    /\ cleaner = [CleanerAsleep EXCEPT !.pc = "removing"]
    /\ cleaner' = [CleanerAsleep EXCEPT !.pc = "adopting",
                     !.orphans = {<<p, living[p]>> : p \in {q \in RegPid : living[q] # 0 /\ ~HasRow(q)}}]
    /\ UNCHANGED <<procVars, rows, trackedPids, tracker, fixer, caller>>

Adopts(p, b) ==
    /\ cleaner.pc = "adopting" /\ <<p, b>> \in cleaner.orphans
    /\ Put(p, b, Orphan)
    /\ cleaner' = [cleaner EXCEPT !.orphans = @ \ {<<p, b>>}]
    /\ UNCHANGED <<procVars, trackedPids, tracker, fixer, caller>>

\* Rows that nobody has seen for a day.
CleanerPurges ==
    /\ cleaner = [CleanerAsleep EXCEPT !.pc = "adopting"]
    /\ \E old \in SUBSET Stale : Purge(old)
    /\ cleaner' = CleanerAsleep
    /\ UNCHANGED <<procVars, trackedPids, tracker, fixer, caller>>

-----------------------------------------------------------------------------
(* A validation that fixes: the rows as read, one after the other *)

FixBegins ==
    /\ fixer = FixerAsleep
    /\ fixer' = [FixerAsleep EXCEPT !.pc = "fixing",
                   !.left = {<<p, rows[p].birth, rows[p].stale>> : p \in {q \in RegPid : HasRow(q)}}]
    /\ UNCHANGED <<procVars, rows, trackedPids, tracker, cleaner, caller>>

FixerGoes(pc, p) == fixer' = [FixerAsleep EXCEPT !.pc = pc, !.left = fixer.left, !.pid = p]

\* validate_process: "remove_from_registry" of a process that is gone or another,
\* "refresh_tracking", "monitor_closely" or nothing.
Judges(p, b, stale) ==
    /\ fixer.pc = "fixing" /\ <<p, b, stale>> \in fixer.left
    /\ \E fix \in {"fixing", "removing", "refreshing", "watching"} :
          /\ fix = "removing" <=> living[p] # b
          /\ fix = "refreshing" <=> living[p] = b /\ stale
          /\ fixer' = [FixerAsleep EXCEPT !.pc = fix, !.left = fixer.left \ {<<p, b, stale>>},
                                           !.pid = IF fix = "fixing" THEN None ELSE p]
    /\ UNCHANGED <<procVars, rows, trackedPids, tracker, cleaner, caller>>

FixRemoves ==
    /\ fixer.pc = "removing"
    /\ Remove(fixer.pid)
    /\ FixerGoes("fixing", None)
    /\ UNCHANGED <<procVars, trackedPids, tracker, cleaner, caller>>

FixWatches ==
    /\ fixer.pc = "watching"
    /\ Touch(fixer.pid, "running")
    /\ FixerGoes("fixing", None)
    /\ UNCHANGED <<procVars, trackedPids, tracker, cleaner, caller>>

\* The row is read again, and whatever has the pid is tracked for its session.
FixRefreshes ==
    LET p == fixer.pid IN
    /\ fixer.pc = "refreshing"
    /\ IF HasRow(p) /\ living[p] # 0
       THEN fixer' = [fixer EXCEPT !.pc = "storing", !.birth = living[p], !.session = rows[p].session]
       ELSE FixerGoes("fixing", None)
    /\ UNCHANGED <<procVars, rows, trackedPids, tracker, cleaner, caller>>

FixStores ==
    /\ fixer.pc = "storing"
    /\ Put(fixer.pid, fixer.birth, fixer.session)
    /\ FixerGoes("adding", fixer.pid)
    /\ UNCHANGED <<procVars, trackedPids, tracker, cleaner, caller>>

FixAdds ==
    /\ fixer.pc = "adding"
    /\ trackedPids' = trackedPids \cup {fixer.pid}
    /\ FixerGoes("fixing", None)
    /\ UNCHANGED <<procVars, rows, tracker, cleaner, caller>>

FixEnds ==
    /\ fixer.pc = "fixing" /\ fixer.left = {}
    /\ fixer' = FixerAsleep
    /\ UNCHANGED <<procVars, rows, trackedPids, tracker, cleaner, caller>>

-----------------------------------------------------------------------------
Tracking ==
    \/ TrackerWakes \/ JudgeTracked \/ TrackerPurges
    \/ NoteStatus \/ \E p \in RegPid : UpdateTracked(p) \/ MarkStopped(p)

Cleaning ==
    \/ CleanerWakes \/ FindOrphans \/ CleanerPurges
    \/ \E p \in RegPid : CleansGone(p) \/ CleansQuiet(p) \/ \E b \in Birth : Adopts(p, b)

Fixing ==
    \/ FixBegins \/ FixRemoves \/ FixWatches \/ FixRefreshes \/ FixStores \/ FixAdds \/ FixEnds
    \/ \E p \in RegPid, b \in Birth, stale \in BOOLEAN : Judges(p, b, stale)

Calling ==
    \E c \in Caller :
        \/ \E p \in RegPid : Untrack(c, p) \/ \E s \in Session : Track(c, p, s)
        \/ Stored(c) \/ Added(c) \/ Untracked(c)

RegNext == Tracking \/ Cleaning \/ Fixing \/ Calling \/ \E p \in RegPid : ProcessStarts(p) \/ ProcessExits(p) \/ GrowsStale(p)

\* The loop of the cleaner runs; nobody has to call anything.
RegFairness == WF_regVars(Cleaning)

RegSpec == RegInit /\ [][RegNext]_regVars /\ RegFairness

-----------------------------------------------------------------------------
(* Properties *)

\* A row whose process has gone, or whose pid another process has now, does not
\* stay, although the tracker refreshes the row in every round and registering
\* the new process keeps the old started_at (_cleanup_processes).
DeadRowsGo ==
    \A p \in RegPid : (HasRow(p) /\ ~Matches(p)) ~> (~HasRow(p) \/ Matches(p))

\* A claude process that stays gets a row of its own, whoever started it and
\* whoever had the pid before (_cleanup_orphans after _cleanup_processes).
LiveGetRows ==
    \A p \in RegPid, b \in Birth : living[p] = b ~> (Matches(p) \/ living[p] # b)

\* The rows come to agree with the processes as long as the cleaner goes round,
\* whatever the tracker and the callers do meanwhile (registry/cleaner.py).
RowsReconciled == DeadRowsGo /\ LiveGetRows

\* What the code does not keep: a clean-up or a fix takes no row of a process
\* that lives and was seen lately ...
HealthyIsKept ==
    [][\A p \in RegPid : Matches(p) /\ ~rows[p].stale /\ ~HasRow(p)' => \E c \in Caller : Untracked(c)]_regVars

\* ... nor the session that a tracked process was registered for.
SessionIsKept ==
    [][\A p \in RegPid : Matches(p) /\ rows[p].session # Orphan /\ HasRow(p)' => rows'[p].session # Orphan]_regVars
=============================================================================
