---------------------------- MODULE MetricsFiles ----------------------------
(***************************************************************************)
(* The metrics of the analytics package: JSONLWriter (analytics/writer.py) *)
(* buffers entries, appends them to the current file and rotates it;       *)
(* DataCleaner (analytics/cleaner.py) compresses, archives and deletes     *)
(* files that have grown old, in another task and without a common lock.   *)
(*                                                                         *)
(* A file is the set of the entries in it.  With Careless two things        *)
(* happen that the code does not exclude: the current file is old, as      *)
(* after an idle week, and two files are made within a second and get one  *)
(* name.                                                                   *)
(***************************************************************************)
EXTENDS Naturals, FiniteSets

CONSTANTS
    Metric,         \* the entries written
    File,           \* the names files may get
    NoFile,
    BufferSize,     \* buffer_size
    FileSize,       \* max_file_size, in entries
    MaxFiles,       \* max_files
    Careless        \* see above

ASSUME MetricsAssumption == Careless \in BOOLEAN /\ NoFile \notin File /\ {BufferSize, FileSize, MaxFiles} \subseteq Nat \ {0}

VARIABLES
    buffer,     \* entries not yet flushed
    writer,     \* what the holder of write_lock is doing
    currentFile,    \* current_file
    handle,     \* where the file being appended to is by now
    copy,       \* what a rotation has read of the current file
    raw,        \* the content of each file, {} where there is none
    onDisk,     \* the files that exist
    gz,         \* the content of each compressed file
    zipped,     \* the compressed files that exist
    used,       \* names given so far
    old,        \* the files older than the limits of the cleaner
    cleaning,   \* the file the cleaner compresses, if any, what it has read, and how far it is
    retired,    \* the entries in the archive, or of files deleted for their age or number
    written     \* history: the entries whose flush has ended well

writerVars == <<buffer, writer, currentFile, handle, copy>>
diskVars == <<raw, onDisk, gz, zipped, used, old>>
metricsVars == <<writerVars, diskVars, cleaning, retired, written>>

NotCleaning == [file |-> NoFile, content |-> {}, pc |-> "idle"]

MetricsTypeOK ==
    /\ buffer \subseteq Metric
    /\ writer \in {"idle", "flushing", "opened", "full", "read", "compressed"}
    /\ currentFile \in File \cup {NoFile} /\ handle \in {"file", "archive", "gone"} /\ copy \subseteq Metric
    /\ raw \in [File -> SUBSET Metric] /\ gz \in [File -> SUBSET Metric]
    /\ onDisk \subseteq File /\ zipped \subseteq File /\ used \subseteq File /\ old \subseteq File
    /\ cleaning \in [file : File \cup {NoFile}, content : SUBSET Metric, pc : {"idle", "read", "compressed"}]
    /\ retired \subseteq Metric /\ written \subseteq Metric

MetricsInit ==
    /\ buffer = {} /\ writer = "idle" /\ currentFile = NoFile /\ handle = "file" /\ copy = {}
    /\ raw = [f \in File |-> {}] /\ onDisk = {} /\ gz = raw /\ zipped = {} /\ used = {} /\ old = {}
    /\ cleaning = NotCleaning /\ retired = {} /\ written = {}

-----------------------------------------------------------------------------
(* JSONLWriter *)

WriteMetric(e) ==
    /\ writer = "idle" /\ e \notin buffer \cup written
    /\ buffer' = buffer \cup {e}
    /\ writer' = IF Cardinality(buffer') >= BufferSize THEN "flushing" ELSE "idle"
    /\ UNCHANGED <<currentFile, handle, copy, diskVars, cleaning, retired, written>>

Flush ==
    /\ writer = "idle" /\ buffer # {} /\ writer' = "flushing"
    /\ UNCHANGED <<buffer, currentFile, handle, copy, diskVars, cleaning, retired, written>>

\* A name no file has had, unless made in the same second as another.
FreshName(f) == f \notin onDisk /\ (Careless \/ f \notin used)
Create(f) == FreshName(f) /\ currentFile' = f /\ onDisk' = onDisk \cup {f} /\ used' = used \cup {f}
Reusable == {f \in onDisk : Cardinality(raw[f]) < FileSize /\ (Careless \/ f \notin old)}

\* _ensure_current_file(), and the file is opened.
OpenCurrent ==
    /\ writer = "flushing" /\ writer' = "opened" /\ handle' = "file"
    /\ IF currentFile \in onDisk THEN UNCHANGED <<currentFile, onDisk, used>>
       ELSE \/ currentFile' \in Reusable /\ UNCHANGED <<onDisk, used>>
            \/ \E f \in File : Create(f)
    /\ UNCHANGED <<buffer, copy, raw, gz, zipped, old, cleaning, retired, written>>

\* What is written goes where the open file is by now.
Lands(entries) ==
    /\ raw' = IF handle = "file" THEN [raw EXCEPT ![currentFile] = @ \cup entries] ELSE raw
    /\ retired' = IF handle = "archive" THEN retired \cup entries ELSE retired

\* Mutant: the buffer is cleared whether or not it was written.
FlushLeaves ==
    /\ writer = "opened"
    /\ \E entries \in SUBSET buffer : Lands(entries)
    /\ old' = old \ {currentFile} /\ written' = written \cup buffer /\ buffer' = {}
    /\ writer' = IF currentFile \in onDisk /\ Cardinality(raw'[currentFile]) >= FileSize THEN "full" ELSE "idle"
    /\ UNCHANGED <<currentFile, handle, copy, onDisk, gz, zipped, used, cleaning>>

FlushEnds ==
    /\ writer = "opened"
    /\ Lands(buffer)
    /\ old' = old \ {currentFile} /\ written' = written \cup buffer /\ buffer' = {}
    /\ writer' = IF currentFile \in onDisk /\ Cardinality(raw'[currentFile]) >= FileSize THEN "full" ELSE "idle"
    /\ UNCHANGED <<currentFile, handle, copy, onDisk, gz, zipped, used, cleaning>>

\* An error after some of the lines: all stay in the buffer and are written again.
FlushFails ==
    /\ writer = "opened" /\ writer' = "idle"
    /\ \E entries \in SUBSET buffer : Lands(entries)
    /\ UNCHANGED <<buffer, currentFile, handle, copy, onDisk, gz, zipped, used, old, cleaning, written>>

\* _rotate_files(): read, compress, unlink; then the oldest files beyond
\* max_files are deleted and a new one is made.
ReadFull ==
    /\ writer = "full"
    /\ IF currentFile \in onDisk THEN copy' = raw[currentFile] /\ writer' = "read" ELSE UNCHANGED copy /\ writer' = "idle"
    /\ UNCHANGED <<buffer, currentFile, handle, diskVars, cleaning, retired, written>>

CompressFull ==
    /\ writer = "read" /\ writer' = "compressed"
    /\ gz' = [gz EXCEPT ![currentFile] = copy] /\ zipped' = zipped \cup {currentFile}
    /\ UNCHANGED <<buffer, currentFile, handle, copy, raw, onDisk, used, old, cleaning, retired, written>>

NewFile(disk) ==
    \E f \in File :
        /\ f \notin disk /\ (Careless \/ f \notin used)
        /\ currentFile' = f /\ onDisk' = disk \cup {f} /\ used' = used \cup {f}

Rotated ==
    /\ writer = "compressed" /\ writer' = "idle" /\ copy' = {}
    /\ IF currentFile \notin onDisk
         THEN UNCHANGED <<currentFile, onDisk, used, raw, gz, zipped, old, retired>>       \* unlink() raises
         ELSE \E dropRaw \in SUBSET (onDisk \ {currentFile}), dropGz \in SUBSET zipped :
                /\ LET files == Cardinality(onDisk) - 1 + Cardinality(zipped)
                   IN Cardinality(dropRaw) + Cardinality(dropGz) = IF files > MaxFiles THEN files - MaxFiles ELSE 0
                /\ NewFile(onDisk \ ({currentFile} \cup dropRaw))
                /\ raw' = [f \in File |-> IF f \in dropRaw \cup {currentFile} THEN {} ELSE raw[f]]
                /\ zipped' = zipped \ dropGz
                /\ gz' = [f \in File |-> IF f \in dropGz THEN {} ELSE gz[f]]
                /\ old' = old \ (dropRaw \cup {currentFile'})
                /\ retired' = retired \cup (UNION {raw[f] : f \in dropRaw}) \cup (UNION {gz[f] : f \in dropGz})
    /\ UNCHANGED <<buffer, handle, cleaning, written>>

-----------------------------------------------------------------------------
(* DataCleaner *)

GrowOld(f) ==
    /\ f \in onDisk \cup zipped /\ f \notin old /\ (Careless \/ f # currentFile)
    /\ old' = old \cup {f}
    /\ UNCHANGED <<writerVars, raw, onDisk, gz, zipped, used, cleaning, retired, written>>

\* _compress_old_files(): read, compress, unlink.
ReadOld(f) ==
    /\ cleaning.pc = "idle" /\ f \in onDisk \cap old
    /\ cleaning' = [file |-> f, content |-> raw[f], pc |-> "read"]
    /\ UNCHANGED <<writerVars, diskVars, retired, written>>

CompressOld ==
    /\ cleaning.pc = "read" /\ cleaning' = [cleaning EXCEPT !.pc = "compressed"]
    /\ gz' = [gz EXCEPT ![cleaning.file] = cleaning.content] /\ zipped' = zipped \cup {cleaning.file}
    /\ UNCHANGED <<writerVars, raw, onDisk, used, old, retired, written>>

Moved(f, place) == handle' = IF f = currentFile /\ handle = "file" THEN place ELSE handle
UnlinkOld ==
    /\ cleaning.pc = "compressed" /\ cleaning' = NotCleaning
    /\ Moved(cleaning.file, "gone")
    /\ onDisk' = onDisk \ {cleaning.file} /\ raw' = [raw EXCEPT ![cleaning.file] = {}]
    /\ UNCHANGED <<buffer, writer, currentFile, copy, gz, zipped, used, old, retired, written>>

\* _archive_old_files() and _apply_retention_policy(), a file at a time.
TakeRaw(f) ==
    /\ cleaning.pc = "idle" /\ f \in onDisk \cap old
    /\ onDisk' = onDisk \ {f} /\ raw' = [raw EXCEPT ![f] = {}]
    /\ retired' = retired \cup raw[f]
    /\ \E place \in {"archive", "gone"} : Moved(f, place)
    /\ UNCHANGED <<buffer, writer, currentFile, copy, gz, zipped, used, old, cleaning, written>>

TakeCompressed(f) ==
    /\ cleaning.pc = "idle" /\ f \in zipped \cap old
    /\ zipped' = zipped \ {f} /\ gz' = [gz EXCEPT ![f] = {}]
    /\ retired' = retired \cup gz[f]
    /\ UNCHANGED <<writerVars, raw, onDisk, used, old, cleaning, written>>

\* The program ends without a flush; the next writer looks for a file again.
MetricsCrash ==
    /\ buffer' = {} /\ writer' = "idle" /\ currentFile' = NoFile /\ handle' = "file" /\ copy' = {}
    /\ cleaning' = NotCleaning
    /\ UNCHANGED <<diskVars, retired, written>>

MetricsNext ==
    \/ \E e \in Metric : WriteMetric(e)
    \/ Flush \/ OpenCurrent \/ FlushEnds \/ FlushFails \/ ReadFull \/ CompressFull \/ Rotated
    \/ \E f \in File : GrowOld(f) \/ ReadOld(f) \/ TakeRaw(f) \/ TakeCompressed(f)
    \/ CompressOld \/ UnlinkOld \/ MetricsCrash

-----------------------------------------------------------------------------
Found == (UNION {raw[f] : f \in File}) \cup (UNION {gz[f] : f \in File}) \cup retired

\* An entry whose flush has ended is in a file, compressed or not, in the
\* archive, or in a file that was deleted for its age or number, whatever the
\* writer, the cleaner and a crash do.
EntriesAreKept == written \subseteq Found

\* It holds unless Careless.
MetricsInv ==
    /\ ~Careless => EntriesAreKept
    /\ \A f \in File : (raw[f] # {} => f \in onDisk) /\ (gz[f] # {} => f \in zipped)
=============================================================================
