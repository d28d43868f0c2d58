---------------------------- MODULE ProcessUpkeep ----------------------------
(***************************************************************************)
(* The clean-up of the process database and the validation of processes    *)
(* (ProcessManager of managers/process.py).  The monitor runs the clean-up *)
(* once an hour, any coroutine a validation; each awaits every statement,  *)
(* and all share one connection, hence one transaction: a commit of one    *)
(* also ends what another has begun.                                       *)
(*                                                                         *)
(* The rows of processes are written by others too: ProcessTable has that, *)
(* and restarts.                                                           *)
(***************************************************************************)
EXTENDS Naturals, FiniteSets

CONSTANTS
    Worker,         \* the processes, registered and with a row
    NoWorker,
    Validator,      \* the coroutines that validate
    MaxUpkeeps,     \* a bound on the clean-ups
    MaxChecks,      \* a bound on the validations of each coroutine
    MaxBreaks       \* a bound on the statements that fail

ASSUME UpkeepAssumption == MaxUpkeeps \in Nat /\ MaxChecks \in Nat /\ MaxBreaks \in Nat

VARIABLES
    os,             \* a pid: "alive", "gone", or used again by "other", "unseen" if no
                    \* start time tells the two apart
    known,          \* the processes in _processes
    mark,           \* the status of each record
    base,           \* the database as the connection sees it
    committed,      \* what is committed of it
    begun,          \* the connection is in a transaction
    upkeep,         \* run_comprehensive_cleanup(): where it is, and the rows it has left
    report,         \* what it counted: cleanup_stats
    check,          \* run_comprehensive_validation() of each validator
    upkeeps,        \* the clean-ups so far
    checks,         \* the validations of each so far
    breaks          \* the failures so far

worldVars == <<os, known>>
baseVars == <<base, committed, begun>>
upkeepVars == <<upkeep, report, upkeeps>>
checkVars == <<check, checks>>
processUpkeepVars == <<worldVars, mark, baseVars, upkeepVars, checkVars, breaks>>

Concern == {"integrity", "resource", "security", "lifecycle"}
Verdict == [worker : Worker, sound : BOOLEAN, errors : SUBSET Concern]
Base == [rows : SUBSET Worker,              \* process_registry
         orphaned : SUBSET Worker,          \* pid_audit_trail: "orphaned"
         validated : SUBSET Verdict,        \* pid_audit_trail: "validated"
         old : BOOLEAN]                     \* pid_audit_trail has entries past their retention

Stage == {"idle", "stale", "beaten", "stale done", "orphans", "orphans done", "results",
          "audit", "delete audit", "audit done", "vacuum"}

\* `sound` is whether the process was there when the validation began.
Resting == [pc |-> "idle", next |-> "idle", worker |-> NoWorker, sound |-> FALSE, limits |-> FALSE, errors |-> {}]

UpkeepTypeOK ==
    /\ os \in [Worker -> {"alive", "gone", "other", "unseen"}] /\ known \subseteq Worker
    /\ mark \in [Worker -> {"running", "orphaned"}]
    /\ base \in Base /\ committed \in Base /\ begun \in BOOLEAN
    /\ upkeep.pc \in Stage /\ upkeep.left \subseteq Worker
    /\ report \in [stale : Nat, vacuum : BOOLEAN]
    /\ \A v \in Validator : check[v].errors \subseteq Concern
    /\ upkeeps \in 0 .. MaxUpkeeps /\ checks \in [Validator -> 0 .. MaxChecks] /\ breaks \in 0 .. MaxBreaks

NoReport == [stale |-> 0, vacuum |-> FALSE]

UpkeepInit ==
    /\ os = [w \in Worker |-> "alive"] /\ known = Worker
    /\ mark = [w \in Worker |-> "running"]
    /\ base = [rows |-> Worker, orphaned |-> {}, validated |-> {}, old |-> TRUE]
    /\ committed = base /\ begun = FALSE
    /\ upkeep = [pc |-> "idle", left |-> {}] /\ report = NoReport
    /\ check = [v \in Validator |-> Resting]
    /\ upkeeps = 0 /\ checks = [v \in Validator |-> 0] /\ breaks = 0

-----------------------------------------------------------------------------
(* The world and the database *)

\* A process ends; the monitor forgets it; its pid is used again.
WorldMoves(w) ==
    /\ \/ os[w] = "alive" /\ os' = [os EXCEPT ![w] = "gone"] /\ UNCHANGED known
       \/ os[w] = "gone" /\ UNCHANGED known /\ \E again \in {"other", "unseen"} : os' = [os EXCEPT ![w] = again]
       \/ os[w] = "gone" /\ w \in known /\ known' = known \ {w} /\ UNCHANGED os
    /\ UNCHANGED <<mark, baseVars, upkeepVars, checkVars, breaks>>

\* A statement that writes begins a transaction if there is none.
Execute(b) == base' = b /\ begun' = TRUE /\ UNCHANGED committed

CommitAll == committed' = base /\ begun' = FALSE /\ UNCHANGED base

Break == breaks < MaxBreaks /\ breaks' = breaks + 1

-----------------------------------------------------------------------------
(* run_comprehensive_cleanup *)

Go(pc, left) == upkeep' = [pc |-> pc, left |-> left]

\* The monitor finds the clean-up due: the rows with an old heartbeat are selected.
StartUpkeep ==
    /\ upkeep.pc = "idle" /\ upkeeps < MaxUpkeeps /\ upkeeps' = upkeeps + 1
    /\ \E stale \in SUBSET base.rows : Go("stale", stale)
    /\ report' = NoReport
    /\ UNCHANGED <<worldVars, mark, baseVars, checkVars, breaks>>

\* Mutant: a row is deleted without looking whether the process exists.
StaleDeletes ==
    /\ upkeep.pc = "stale"
    /\ \/ \E w \in upkeep.left : Execute([base EXCEPT !.rows = @ \ {w}]) /\ Go("orphans", {})
       \/ upkeep.left = {} /\ Go("stale done", {}) /\ UNCHANGED baseVars
    /\ UNCHANGED <<worldVars, mark, report, upkeeps, checkVars, breaks>>

\* cleanup_stale_processes(), row by row.  The heartbeat of a pid that exists is
\* updated, and saved if it was not a minute ago; it raises if the process is not
\* known.  The row
\* of one that does not is deleted, and logging it raises NameError (there is no
\* PIDEventType): the rest is skipped, nothing is counted, nothing committed.
StaleNext ==
    /\ upkeep.pc = "stale"
    /\ \/ \E w \in upkeep.left :
             \/ os[w] = "gone" /\ Execute([base EXCEPT !.rows = @ \ {w}]) /\ Go("orphans", {})
             \/ os[w] # "gone" /\ w \notin known /\ Go("orphans", {}) /\ UNCHANGED baseVars
             \/ /\ os[w] # "gone" /\ w \in known
                /\ Execute([base EXCEPT !.rows = @ \cup {w}])
                /\ Go("beaten", upkeep.left \ {w})
             \/ os[w] # "gone" /\ w \in known /\ Go("stale", upkeep.left \ {w}) /\ UNCHANGED baseVars
       \/ upkeep.left = {} /\ Go("stale done", {}) /\ UNCHANGED baseVars
    /\ UNCHANGED <<worldVars, mark, report, upkeeps, checkVars, breaks>>

\* The commits, and the selections that follow: of the pids with a row, and of
\* what is past its retention.
UpkeepCommits ==
    /\ CommitAll
    /\ \/ upkeep.pc = "beaten" /\ Go("stale", upkeep.left)
       \/ upkeep.pc = "stale done" /\ Go("orphans", {})
       \/ upkeep.pc = "orphans done" /\ Go("results", {})
       \/ upkeep.pc = "audit done" /\ Go("vacuum", {})
    /\ UNCHANGED <<worldVars, mark, report, upkeeps, checkVars, breaks>>

\* cleanup_orphaned_pids(): the same NameError after the first deletion.
OrphansNext ==
    /\ upkeep.pc = "orphans"
    /\ \/ /\ \E w \in base.rows : os[w] = "gone" /\ Execute([base EXCEPT !.rows = @ \ {w}])
          /\ Go("results", {})
       \/ (\A w \in base.rows : os[w] # "gone") /\ Go("orphans done", {}) /\ UNCHANGED baseVars
    /\ UNCHANGED <<worldVars, mark, report, upkeeps, checkVars, breaks>>

\* cleanup_old_validation_results() and cleanup_old_audit_trail(): counted, and
\* if there are any, deleted and committed.  validation_results is always empty.
Retention ==
    /\ \/ upkeep.pc = "results" /\ Go("audit", {}) /\ UNCHANGED baseVars
       \/ upkeep.pc = "audit" /\ Go(IF base.old THEN "delete audit" ELSE "vacuum", {}) /\ UNCHANGED baseVars
       \/ upkeep.pc = "delete audit" /\ Go("audit done", {}) /\ Execute([base EXCEPT !.old = FALSE])
    /\ UNCHANGED <<worldVars, mark, report, upkeeps, checkVars, breaks>>

\* perform_database_maintenance(): VACUUM fails in a transaction, whoever began
\* it.  The clean-up returns what it counted.
Vacuum ==
    /\ upkeep.pc = "vacuum" /\ Go("idle", {})
    /\ report' = [report EXCEPT !.vacuum = ~begun]
    /\ UNCHANGED <<worldVars, mark, baseVars, upkeeps, checkVars, breaks>>

\* A statement fails: the part it is in returns 0, and the next one begins.
UpkeepBreaks ==
    /\ Break
    /\ \/ upkeep.pc \in {"stale", "beaten", "stale done"} /\ Go("orphans", {})
       \/ upkeep.pc \in {"orphans", "orphans done"} /\ Go("results", {})
       \/ upkeep.pc = "results" /\ Go("audit", {})
       \/ upkeep.pc \in {"audit", "delete audit", "audit done"} /\ Go("vacuum", {})
    /\ UNCHANGED <<worldVars, mark, baseVars, report, upkeeps, checkVars>>

-----------------------------------------------------------------------------
(* run_comprehensive_validation *)

\* add_error(): the errors of a validation, and with them is_valid.
AddError(c, category) == [c EXCEPT !.errors = @ \cup {category}]

To(v, c, pc) == check' = [check EXCEPT ![v] = [c EXCEPT !.pc = pc]]

\* An event is inserted; _log_pid_event() commits it next.
LogsEvent(v, c, b, next) ==
    /\ Execute(b)
    /\ check' = [check EXCEPT ![v] = [c EXCEPT !.pc = "commit", !.next = next]]

AfterIntegrity(c) == IF c.limits THEN "resource" ELSE "lifecycle"

StartCheck(v, w, limits) ==
    /\ check[v].pc = "idle" /\ w \in known
    /\ checks[v] < MaxChecks /\ checks' = [checks EXCEPT ![v] = @ + 1]
    /\ check' = [check EXCEPT ![v] = [Resting EXCEPT !.pc = "integrity", !.worker = w, !.limits = limits,
                                                       !.sound = os[w] = "alive"]]
    /\ UNCHANGED <<worldVars, mark, baseVars, upkeepVars, breaks>>

\* Mutant: an orphan is marked and the event is forgotten.
MarksOnly(v, c, next) ==
    /\ mark' = [mark EXCEPT ![c.worker] = "orphaned"]
    /\ To(v, c, next) /\ UNCHANGED baseVars

\* A process that is gone is marked as an orphan, and the event logged.  The
\* record is not saved.
FindsOrphan(v, c, next) ==
    /\ mark' = [mark EXCEPT ![c.worker] = "orphaned"]
    /\ LogsEvent(v, c, [base EXCEPT !.orphaned = @ \cup {c.worker}], next)

\* Mutant: a process that exists is the one.
ExistsIsEnough(v) ==
    LET c == check[v]
        bad == AddError(c, "integrity")
    IN /\ c.pc = "integrity"
       /\ \/ c.worker \notin known /\ To(v, bad, AfterIntegrity(c)) /\ UNCHANGED <<mark, baseVars>>
          \/ c.worker \in known /\ os[c.worker] = "gone" /\ FindsOrphan(v, bad, AfterIntegrity(c))
          \/ /\ c.worker \in known /\ os[c.worker] # "gone"
             /\ To(v, c, AfterIntegrity(c)) /\ UNCHANGED <<mark, baseVars>>
       /\ UNCHANGED <<worldVars, upkeepVars, checks, breaks>>

\* validate_process_integrity(): a pid used again is an error and is logged, one
\* that is gone an orphan; a record that is no longer known only an error.
CheckIntegrity(v) ==
    LET c == check[v]
        bad == AddError(c, "integrity")
    IN /\ c.pc = "integrity"
       /\ \/ c.worker \notin known /\ To(v, bad, AfterIntegrity(c)) /\ UNCHANGED <<mark, baseVars>>
          \/ /\ c.worker \in known /\ os[c.worker] = "other"
             /\ LogsEvent(v, bad, base, AfterIntegrity(c)) /\ UNCHANGED mark
          \/ c.worker \in known /\ os[c.worker] = "gone" /\ FindsOrphan(v, bad, AfterIntegrity(c))
          \/ /\ c.worker \in known /\ os[c.worker] \in {"alive", "unseen"}
             /\ To(v, c, AfterIntegrity(c)) /\ UNCHANGED <<mark, baseVars>>
       /\ UNCHANGED <<worldVars, upkeepVars, checks, breaks>>

\* validate_resource_constraints(): an error of a process that is gone or not
\* known, and when one of its measures exceeds its limit.
CheckResources(v) ==
    LET c == check[v]
    IN /\ c.pc = "resource"
       /\ \/ To(v, AddError(c, "resource"), "security")
          \/ c.worker \in known /\ os[c.worker] # "gone" /\ To(v, c, "security")
       /\ UNCHANGED <<worldVars, mark, baseVars, upkeepVars, checks, breaks>>

\* validate_security_policies(), likewise.
CheckPolicies(v) ==
    LET c == check[v]
    IN /\ c.pc = "security"
       /\ \/ To(v, AddError(c, "security"), "lifecycle")
          \/ c.worker \in known /\ os[c.worker] # "gone" /\ To(v, c, "lifecycle")
       /\ UNCHANGED <<worldVars, mark, baseVars, upkeepVars, checks, breaks>>

\* validate_process_lifecycle(): a zombie is an error, whatever has the pid.
CheckLifecycle(v) ==
    LET c == check[v]
        bad == AddError(c, "lifecycle")
    IN /\ c.pc = "lifecycle"
       /\ \/ c.worker \notin known /\ To(v, bad, "validated") /\ UNCHANGED <<mark, baseVars>>
          \/ c.worker \in known /\ os[c.worker] = "gone" /\ FindsOrphan(v, bad, "validated")
          \/ /\ c.worker \in known /\ os[c.worker] # "gone"
             /\ To(v, c, "validated") \/ To(v, bad, "validated")
             /\ UNCHANGED <<mark, baseVars>>
       /\ UNCHANGED <<worldVars, upkeepVars, checks, breaks>>

Outcome(c) == [worker |-> c.worker, sound |-> c.sound, errors |-> c.errors]

\* The verdict is logged.  The INSERT of _save_validation_result() that follows
\* leaves out created_at, which is NOT NULL: it always raises, nobody is told, and
\* a transaction stays begun with nothing in it.
SaveResult(v) ==
    LET c == check[v]
    IN /\ \/ /\ c.pc = "validated"
             /\ LogsEvent(v, c, [base EXCEPT !.validated = @ \cup {Outcome(c)}], "result")
          \/ /\ c.pc = "result"
             /\ Execute(base)
             /\ check' = [check EXCEPT ![v] = Resting]
       /\ UNCHANGED <<worldVars, mark, upkeepVars, checks, breaks>>

\* The commit of an event.
CheckCommits(v) ==
    LET c == check[v]
    IN /\ c.pc = "commit" /\ CommitAll
       /\ To(v, c, c.next)
       /\ UNCHANGED <<worldVars, mark, upkeepVars, checks, breaks>>

\* A statement of the events of a check fails: an error of that check.  One of
\* the verdict's event: the validation returns and saves nothing.
CheckBreaks(v) ==
    LET c == check[v]
    IN /\ Break
       /\ \/ c.pc = "commit" /\ c.next \in {"resource", "lifecycle"} /\ To(v, AddError(c, "integrity"), c.next)
          \/ c.pc = "commit" /\ c.next = "validated" /\ To(v, AddError(c, "lifecycle"), "validated")
          \/ /\ c.pc = "validated" \/ (c.pc = "commit" /\ c.next = "result")
             /\ check' = [check EXCEPT ![v] = Resting]
       /\ UNCHANGED <<worldVars, mark, baseVars, upkeepVars, checks>>

UpkeepNext ==
    \/ \E w \in Worker : WorldMoves(w)
    \/ StartUpkeep \/ StaleNext \/ OrphansNext \/ UpkeepCommits \/ Retention \/ Vacuum \/ UpkeepBreaks
    \/ \E v \in Validator :
          \/ \E w \in Worker, limits \in BOOLEAN : StartCheck(v, w, limits)
          \/ CheckIntegrity(v) \/ CheckResources(v) \/ CheckPolicies(v) \/ CheckLifecycle(v)
          \/ SaveResult(v) \/ CheckCommits(v) \/ CheckBreaks(v)

-----------------------------------------------------------------------------
(* Properties *)

\* Only the row of a process that has ended is ever missing, on the disk as
\* well, although a commit of anybody may commit a deletion of the clean-up that
\* failed (cleanup_stale_processes, cleanup_orphaned_pids).
MissingAreGone == \A w \in Worker : w \notin base.rows \cap committed.rows => os[w] # "alive"

\* An orphan that a validation marks is in the audit trail on the disk, unless a
\* statement failed or its event is on its way there.
OrphansAreLogged ==
    \A w \in Worker :
        mark[w] = "orphaned" /\ breaks = 0 =>
            w \in committed.orphaned \/ \E v \in Validator : check[v].worker = w /\ check[v].pc = "commit"

\* No process that had ended when its validation began is called valid in the
\* audit trail, though the record may be forgotten meanwhile, its pid be used
\* again, and a statement of the checks fail; unless no start time tells the two
\* processes apart (validate_process_integrity, run_comprehensive_validation).
EndedIsInvalid == \A r \in base.validated : ~r.sound => r.errors # {} \/ os[r.worker] = "unseen"

UpkeepInv == MissingAreGone /\ OrphansAreLogged /\ EndedIsInvalid

\* Neither the clean-up nor a validation leaves a transaction open.  Not so: after
\* a deletion the clean-up fails before its commit, and what it deleted waits for
\* the commit of somebody else; a validation ends with the INSERT that fails.
NothingLeftOpen == upkeep.pc = "idle" /\ (\A v \in Validator : check[v].pc = "idle") /\ breaks = 0 => ~begun

\* The clean-up counts the rows it deletes ("Number of cleaned up processes").
\* Not so, for the same reason.
DeletionsAreCounted == [][Vacuum /\ committed.rows # Worker => report.stale > 0]_processUpkeepVars
==============================================================================
