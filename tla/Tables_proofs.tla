---------------------------- MODULE Tables_proofs ----------------------------
(***************************************************************************)
(* Proofs about the two managers that keep several tables in step.  The    *)
(* process manager: types, and LookupInv, for any pids, callers, reuses,   *)
(* crashes and failures of the database.  The MCP server manager: McpInv,  *)
(* for any servers, callers, check loops and number of locks.              *)
(***************************************************************************)
EXTENDS ProcessTable, McpServers, FiniteSetTheorems, TLAPS

LockSteps == {"detecting", "logging", "registering", "unregistering"}
OnRecord == Steps \ {"idle", "detecting", "cleaning", "sweeping"}

Logging(i) == \E r \in Req : at[r].pc = "logging" /\ at[r].id = i

\* What each call knows: the registry lock is held by the coroutine that is in
\* one of its steps, and what is being registered is in the table.
CallInv ==
    \A r \in Req :
        /\ at[r].pc \in LockSteps <=> lock = r
        /\ at[r].pc \in OnRecord => at[r].id \in ProcId /\ record[at[r].id] # NoRecord
        /\ at[r].pc \in {"logging", "registering"} => at[r].id \in table
        /\ at[r].pc = "unregistering" => at[r].id \notin table /\ owner[PidOf(at[r].id)] = NoId
        /\ \A i \in at[r].left : record[i] # NoRecord
        /\ ~up => at[r] = Idle

DownInv ==
    /\ ~up => table = {} /\ row = disk /\ crashes > 0

\* A record is of a process that has had the pid, and of one that lives the
\* status says so.
RecordInv ==
    \A i \in ProcId :
        /\ record[i] # NoRecord => record[i].birth <= births[PidOf(i)]
        /\ i \in table /\ Lives(i) => record[i].status \in Active

LiveRows ==
    \A i \in table : Lives(i) /\ i \notin unsaved /\ ~Logging(i) => row[i] \in Active

TableIInv ==
    /\ TableTypeOK /\ LookupInv
    /\ CallInv /\ DownInv /\ RecordInv /\ LiveRows
-----------------------------------------------------------------------------
LEMMA TableInitially == TableInit => TableIInv
  <1> SUFFICES ASSUME TableInit PROVE TableIInv
    OBVIOUS
  <1> USE TableAssumption DEF TableInit, NoRecord, NoRow, Idle, Active, Status, PidOf
  <1>1. TableTypeOK
    BY DEF TableTypeOK, CallState, Steps, ProcRecord
  <1>2. LookupInv
    BY <1>1 DEF LookupInv, PidsNameRecords, FoundByPid, LiveIsRecorded
  <1>3. CallInv
    BY DEF CallInv, LockSteps, OnRecord, Steps
  <1>4. DownInv /\ RecordInv /\ LiveRows
    BY DEF DownInv, RecordInv, LiveRows
  <1> QED BY <1>1, <1>2, <1>3, <1>4 DEF TableIInv

\* The types after a write that may fail.
LEMMA SaveTypes ==
    ASSUME TableTypeOK, NEW r \in Req, NEW i \in ProcId, NEW status \in Status, NEW step \in Steps,
           record[i] # NoRecord, Save(r, i, status, step)
    PROVE  /\ at' \in [Req -> CallState] /\ lock' \in Req \cup {Free}
           /\ row' \in [ProcId -> Status \cup {NoRow}] /\ unsaved' \subseteq ProcId
           /\ failures' \in 0 .. MaxFailures
           /\ \A j \in ProcId : record[j] = NoRecord => row'[j] = NoRow
  BY TableAssumption
  DEF Save, Write, Loses, Ends, Goto, Move, TableTypeOK, CallState, Idle, Steps

LEMMA StatusTypes ==
    ASSUME TableTypeOK, NEW i \in ProcId, NEW status \in Status, record[i] # NoRecord, SetStatus(i, status)
    PROVE  /\ record' \in [ProcId -> ProcRecord \cup {NoRecord}]
           /\ \A j \in ProcId : record'[j] # NoRecord <=> record[j] # NoRecord
           /\ \A j \in ProcId : record'[j].pid = record[j].pid /\ record'[j].birth = record[j].birth
           /\ \A j \in ProcId : j # i => record'[j] = record[j]
           /\ record'[i].status = status
  <1> USE DEF TableTypeOK, SetStatus, PidOf
  <1>1. record[i] \in ProcRecord
    OBVIOUS
  <1>2. record[i].pid \in Pid /\ record[i].birth \in 1 .. MaxBirths
    BY <1>1 DEF ProcRecord
  <1>3. record'[i] = [pid |-> record[i].pid, birth |-> record[i].birth, status |-> status]
    OBVIOUS
  <1>4. record'[i] \in ProcRecord /\ record'[i] # NoRecord
    BY <1>2, <1>3 DEF ProcRecord, NoRecord
  <1>5. \A j \in ProcId : j # i => record'[j] = record[j]
    OBVIOUS
  <1> QED BY <1>3, <1>4, <1>5

\* The types after the commit that ends a call, or fails.
LEMMA CommitTypes ==
    ASSUME TableTypeOK, NEW r \in Req, at[r].id \in ProcId,
           \/ Commit /\ Ends(r) /\ UNCHANGED <<osVars, memVars, row, unsaved, failures, runVars>>
           \/ CommitFails(r)
    PROVE  TableTypeOK'
  <1> USE TableAssumption DEF TableTypeOK, Ends, osVars, memVars, runVars, Idle, CallState, Steps, PidOf
  <1>1. CASE Commit /\ Ends(r) /\ UNCHANGED <<osVars, memVars, row, unsaved, failures, runVars>>
    BY <1>1 DEF Commit
  <1>2. CASE CommitFails(r)
    BY <1>2 DEF CommitFails, Loses
  <1> QED BY <1>1, <1>2

LEMMA TypeStep == TableIInv /\ [TableNext]_tableVars => TableTypeOK'
  <1> SUFFICES ASSUME TableIInv, [TableNext]_tableVars PROVE TableTypeOK'
    OBVIOUS
  <1> USE TableAssumption DEF osVars, memVars, dbVars, runVars, Status, Active, NoRow, Steps, ProcRecord, CallState
  <1> USE DEF TableIInv, TableTypeOK, CallInv, OnRecord, NoRecord, Idle, PidOf
  <1>1. ASSUME NEW p \in Pid, Spawn(p) \/ Exit(p) PROVE TableTypeOK'
    BY <1>1 DEF Spawn, Exit
  <1>2. ASSUME NEW r \in Req, NEW p \in Pid, RegisterKnown(r, p) PROVE TableTypeOK'
    BY <1>2 DEF RegisterKnown, Goto, Move, SetStatus, Ends, Write, Loses, Save, SaveAs, Commit, CommitFails, Kill, Delete, IsAlive
  <1>3. ASSUME NEW r \in Req, NEW p \in Pid, NEW i \in ProcId, RegisterNew(r, p, i) PROVE TableTypeOK'
    BY <1>3 DEF RegisterNew, Goto, Move, SetStatus, Ends, Write, Loses, Save, SaveAs, Commit, CommitFails, Kill, Delete, IsAlive
  <1>4. ASSUME NEW r \in Req, NEW i \in ProcId, Unregister(r, i) PROVE TableTypeOK'
    <2>1. record[i] # NoRecord
      BY <1>4 DEF Unregister
    <2>2. SetStatus(i, "stopped") BY <1>4 DEF Unregister
    <2>3. record' \in [ProcId -> ProcRecord \cup {NoRecord}] /\ \A j \in ProcId : record'[j] # NoRecord <=> record[j] # NoRecord
      BY <2>1, <2>2, StatusTypes
    <2>4. table' \subseteq {j \in ProcId : record'[j] # NoRecord} /\ owner' \in [Pid -> ProcId \cup {NoId}]
      BY <1>4, <2>3 DEF Unregister
    <2>5. CASE Write(i, "stopped") /\ Goto(r, "unregistering", i) /\ lock' = r
      BY <1>4, <2>1, <2>3, <2>4, <2>5 DEF Unregister, Write, Goto, Move
    <2>6. CASE Loses(r, i)
      BY <1>4, <2>1, <2>3, <2>4, <2>6 DEF Unregister, Loses, Ends
    <2> QED BY <1>4, <2>5, <2>6 DEF Unregister
  <1>5. ASSUME NEW r \in Req, NEW i \in ProcId, Heartbeat(r, i) PROVE TableTypeOK'
    <2>1. record[i] # NoRecord /\ record[i].status \in Status /\ Save(r, i, record[i].status, "saving")
      BY <1>5 DEF Heartbeat
    <2>2. UNCHANGED <<osVars, memVars, disk, runVars>>
      BY <1>5 DEF Heartbeat
    <2> QED BY <2>1, <2>2, SaveTypes
  <1>6. ASSUME NEW r \in Req, NEW i \in ProcId, ValidateIntegrity(r, i) PROVE TableTypeOK'
    BY <1>6 DEF ValidateIntegrity, Goto, Move, SetStatus, Ends, Write, Loses, Save, SaveAs, Commit, CommitFails, Kill, Delete, IsAlive
  <1>7. ASSUME NEW r \in Req, NEW i \in ProcId, Terminate(r, i) PROVE TableTypeOK'
    <2>1. record[i] # NoRecord
      BY <1>7 DEF Terminate
    <2>2. CASE SaveAs(r, i, "stopping", "signalling")
      BY <1>7, <2>1, <2>2, SaveTypes, StatusTypes DEF Terminate, SaveAs
    <2>3. CASE SaveAs(r, i, "stopped", "saving")
      BY <1>7, <2>1, <2>3, SaveTypes, StatusTypes DEF Terminate, SaveAs
    <2> QED BY <1>7, <2>2, <2>3 DEF Terminate
  <1>8. ASSUME NEW r \in Req, CleanStale(r) PROVE TableTypeOK'
    BY <1>8 DEF CleanStale, Goto, Move, SetStatus, Ends, Write, Loses, Save, SaveAs, Commit, CommitFails, Kill, Delete, IsAlive
  <1>9. ASSUME NEW r \in Req, CleanOrphans(r) PROVE TableTypeOK'
    BY <1>9 DEF CleanOrphans, Goto, Move, SetStatus, Ends, Write, Loses, Save, SaveAs, Commit, CommitFails, Kill, Delete, IsAlive
  <1>10. ASSUME NEW r \in Req, ReturnKnown(r) PROVE TableTypeOK'
    BY <1>10 DEF ReturnKnown, Goto, Move, SetStatus, Ends, Write, Loses, Save, SaveAs, Commit, CommitFails, Kill, Delete, IsAlive
  <1>11. ASSUME NEW r \in Req, Logged(r) PROVE TableTypeOK'
    <2> DEFINE i == at[r].id
    <2>1. i \in ProcId /\ record[i] # NoRecord /\ record[i].status \in Status
      BY <1>11 DEF Logged, ProcRecord
    <2>2. CASE CommitFails(r)
      BY <1>11, <2>1, <2>2 DEF Logged, CommitFails, Loses, Ends
    <2>3. CASE Commit /\ Save(r, i, record[i].status, "registering") /\ UNCHANGED <<osVars, memVars, runVars>>
      BY <2>1, <2>3, SaveTypes DEF Commit
    <2> QED BY <1>11, <2>2, <2>3 DEF Logged
  <1>12. ASSUME NEW r \in Req, Registered(r) PROVE TableTypeOK'
    <2>1. at[r].id \in ProcId
      BY <1>12 DEF Registered
    <2> QED BY ONLY <1>12, <2>1, TableIInv, CommitTypes DEF Registered, TableIInv
  <1>13. ASSUME NEW r \in Req, Unregistered(r) PROVE TableTypeOK'
    <2>1. at[r].id \in ProcId
      BY <1>13 DEF Unregistered
    <2> QED BY ONLY <1>13, <2>1, TableIInv, CommitTypes DEF Unregistered, TableIInv
  <1>14. ASSUME NEW r \in Req, Saved(r) PROVE TableTypeOK'
    <2>1. at[r].id \in ProcId
      BY <1>14 DEF Saved
    <2> QED BY ONLY <1>14, <2>1, TableIInv, CommitTypes DEF Saved, TableIInv
  <1>15. ASSUME NEW r \in Req, Signal(r) PROVE TableTypeOK'
    <2> DEFINE i == at[r].id
    <2>1. i \in ProcId /\ record[i] # NoRecord /\ PidOf(i) \in Pid
      BY <1>15 DEF Signal, ProcRecord
    <2>2. CASE CommitFails(r)
      BY <1>15, <2>1, <2>2 DEF Signal, CommitFails, Loses, Ends
    <2> DEFINE Rest == Commit /\ UNCHANGED <<births, table, owner, runVars>>
    <2>3. CASE Rest /\ Kill(i) /\ SaveAs(r, i, "stopped", "saving")
      <3>1. alive' \in [Pid -> 0 .. MaxBirths] /\ \A p \in Pid : alive'[p] \in {0, births'[p]}
        BY <2>1, <2>3 DEF Kill
      <3> QED BY <2>1, <2>3, <3>1, SaveTypes, StatusTypes DEF Commit, SaveAs
    <2>4. CASE Rest /\ Goto(r, "waiting", i) /\ UNCHANGED <<alive, record, row, unsaved, failures, lock>>
      BY <2>1, <2>4 DEF Commit, Goto, Move
    <2>5. CASE Rest /\ Ends(r) /\ UNCHANGED <<alive, record, row, unsaved, failures>>
      BY <2>1, <2>5 DEF Commit, Ends
    <2> QED BY <1>15, <2>2, <2>3, <2>4, <2>5 DEF Signal
  <1>16. ASSUME NEW r \in Req, WaitEnds(r) PROVE TableTypeOK'
    <2> DEFINE i == at[r].id
    <2>1. i \in ProcId /\ record[i] # NoRecord /\ PidOf(i) \in Pid
      BY <1>16 DEF WaitEnds, ProcRecord
    <2>2. CASE SaveAs(r, i, "stopped", "saving")
      <3>1. alive' \in [Pid -> 0 .. MaxBirths] /\ \A p \in Pid : alive'[p] \in {0, births'[p]}
        BY <1>16, <2>1 DEF WaitEnds, Kill
      <3>2. UNCHANGED <<births, table, owner, disk, runVars>>
        BY <1>16 DEF WaitEnds
      <3> QED BY <2>1, <2>2, <3>1, <3>2, SaveTypes, StatusTypes DEF SaveAs
    <2>3. CASE Ends(r) /\ UNCHANGED <<alive, record, row, unsaved, failures>>
      BY <1>16, <2>1, <2>3 DEF WaitEnds, Ends
    <2> QED BY <1>16, <2>2, <2>3 DEF WaitEnds
  <1>17. ASSUME NEW r \in Req, CleanNext(r) PROVE TableTypeOK'
    BY <1>17, SMTT(30) DEF CleanNext, Goto, Move, SetStatus, Ends, Write, Loses, Save, SaveAs, Commit, CommitFails, Kill, Delete, IsAlive
  <1>18. ASSUME NEW r \in Req, Beaten(r) PROVE TableTypeOK'
    BY <1>18 DEF Beaten, Goto, Move, SetStatus, Ends, Write, Loses, Save, SaveAs, Commit, CommitFails, Kill, Delete, IsAlive
  <1>19. ASSUME NEW r \in Req, Swept(r) PROVE TableTypeOK'
    BY <1>19 DEF Swept, Goto, Move, SetStatus, Ends, Write, Loses, Save, SaveAs, Commit, CommitFails, Kill, Delete, IsAlive
  <1>20. CASE Crash
    <2>1. at' \in [Req -> CallState] /\ owner' \in [Pid -> ProcId \cup {NoId}] /\ crashes' \in 0 .. MaxCrashes
      BY <1>20 DEF Crash
    <2>2. table' = {} /\ row' = disk /\ lock' = Free /\ up' = FALSE
      BY <1>20 DEF Crash
    <2> QED BY <1>20, <2>1, <2>2 DEF Crash
  <1>21. CASE Load
    BY <1>21 DEF Load, IsAlive
  <1>22. CASE UNCHANGED tableVars
    BY <1>22 DEF tableVars
  <1> QED
    BY <1>1, <1>2, <1>3, <1>4, <1>5, <1>6, <1>7, <1>8, <1>9, <1>10, <1>11, <1>12, <1>13, <1>14, <1>15, <1>16, <1>17, <1>18, <1>19, <1>20, <1>21, <1>22
    DEF TableNext, Call, Answer

\* A record keeps its process.
RecordsStay ==
    \A j \in ProcId : record[j] # NoRecord =>
        record'[j] # NoRecord /\ record'[j].pid = record[j].pid /\ record'[j].birth = record[j].birth

LEMMA RecordsKept == TableIInv /\ [TableNext]_tableVars => RecordsStay
  <1> SUFFICES ASSUME TableIInv, [TableNext]_tableVars PROVE RecordsStay
    OBVIOUS
  <1> USE TableAssumption DEF TableIInv, TableTypeOK, PidOf, IsAlive, osVars, memVars, dbVars, runVars
  <1> USE DEF Goto, Move, Ends, Write, Loses, Save, SaveAs, Commit, CommitFails, Kill, Delete, SetStatus
  <1> USE DEF RecordsStay, NoRecord, ProcRecord
  <1>1. ASSUME NEW p \in Pid, Spawn(p) PROVE RecordsStay
    BY <1>1 DEF Spawn
  <1>2. ASSUME NEW p \in Pid, Exit(p) PROVE RecordsStay
    BY <1>2 DEF Exit
  <1>3. ASSUME NEW r \in Req, NEW p \in Pid, RegisterKnown(r, p) PROVE RecordsStay
    BY <1>3 DEF RegisterKnown
  <1>4. ASSUME NEW r \in Req, NEW p \in Pid, NEW i \in ProcId, RegisterNew(r, p, i) PROVE RecordsStay
    BY <1>4 DEF RegisterNew
  <1>5. ASSUME NEW r \in Req, NEW i \in ProcId, Unregister(r, i) PROVE RecordsStay
    BY <1>5 DEF Unregister
  <1>6. ASSUME NEW r \in Req, NEW i \in ProcId, Heartbeat(r, i) PROVE RecordsStay
    BY <1>6 DEF Heartbeat
  <1>7. ASSUME NEW r \in Req, NEW i \in ProcId, ValidateIntegrity(r, i) PROVE RecordsStay
    BY <1>7 DEF ValidateIntegrity
  <1>8. ASSUME NEW r \in Req, NEW i \in ProcId, Terminate(r, i) PROVE RecordsStay
    BY <1>8 DEF Terminate
  <1>9. ASSUME NEW r \in Req, CleanStale(r) \/ CleanOrphans(r) \/ ReturnKnown(r) PROVE RecordsStay
    BY <1>9 DEF CleanStale, CleanOrphans, ReturnKnown
  <1>10. ASSUME NEW r \in Req, Logged(r) PROVE RecordsStay
    BY <1>10 DEF Logged
  <1>11. ASSUME NEW r \in Req, Registered(r) \/ Unregistered(r) \/ Saved(r) PROVE RecordsStay
    BY <1>11 DEF Registered, Unregistered, Saved
  <1>12. ASSUME NEW r \in Req, Signal(r) PROVE RecordsStay
    BY <1>12 DEF Signal
  <1>13. ASSUME NEW r \in Req, WaitEnds(r) PROVE RecordsStay
    BY <1>13 DEF WaitEnds
  <1>14. ASSUME NEW r \in Req, CleanNext(r) PROVE RecordsStay
    BY <1>14 DEF CleanNext
  <1>15. ASSUME NEW r \in Req, Beaten(r) PROVE RecordsStay
    BY <1>15 DEF Beaten
  <1>16. ASSUME NEW r \in Req, Swept(r) PROVE RecordsStay
    BY <1>16 DEF Swept
  <1>17. CASE Crash
    BY <1>17 DEF Crash
  <1>18. CASE Load
    BY <1>18 DEF Load
  <1>19. CASE UNCHANGED tableVars
    BY <1>19 DEF tableVars
  <1> QED
    BY <1>1, <1>2, <1>3, <1>4, <1>5, <1>6, <1>7, <1>8, <1>9, <1>10, <1>11, <1>12, <1>13, <1>14, <1>15, <1>16, <1>17, <1>18, <1>19 DEF TableNext, Call, Answer

\* Only these change what is in the table, or end and begin a run of the program.
Changes ==
    \/ UNCHANGED <<table, owner, up>>
    \/ \E r \in Req : \E p \in Pid, i \in ProcId : RegisterNew(r, p, i)
    \/ \E r \in Req, i \in ProcId : Unregister(r, i)
    \/ Crash \/ Load

LEMMA TableChanges == [TableNext]_tableVars => Changes
  <1> SUFFICES ASSUME TableNext, ~UNCHANGED <<table, owner, up>> PROVE Changes
    BY DEF Changes, tableVars, memVars, runVars
  <1> USE DEF TableNext, Changes, memVars, runVars
  <1>1. CASE \E p \in Pid : Spawn(p) \/ Exit(p)
    BY <1>1 DEF Spawn, Exit
  <1>2. ASSUME NEW r \in Req, Answer(r) PROVE FALSE
    BY <1>2 DEF Answer, ReturnKnown, Logged, Registered, Unregistered, Saved, Signal, WaitEnds, CleanNext, Beaten, Swept,
                SaveAs, SetStatus, CommitFails
  <1>3. ASSUME NEW r \in Req, Call(r) PROVE Changes
    BY <1>3 DEF Call, RegisterKnown, Heartbeat, ValidateIntegrity, Terminate, CleanStale, CleanOrphans, SaveAs, SetStatus
  <1> QED BY <1>1, <1>2, <1>3

\* The pid table names what is in the table.
LEMMA PidsStep == TableIInv /\ [TableNext]_tableVars => PidsNameRecords'
  <1> SUFFICES ASSUME TableIInv, [TableNext]_tableVars PROVE PidsNameRecords'
    OBVIOUS
  <1> USE RecordsKept DEF RecordsStay, PidsNameRecords, TableIInv, LookupInv, TableTypeOK, PidOf
  <1>1. CASE UNCHANGED <<table, owner, up>>
    BY <1>1
  <1>2. ASSUME NEW r \in Req, NEW p \in Pid, NEW i \in ProcId, RegisterNew(r, p, i) PROVE PidsNameRecords'
    BY <1>2 DEF RegisterNew, osVars
  <1>3. ASSUME NEW r \in Req, NEW i \in ProcId, Unregister(r, i) PROVE PidsNameRecords'
    BY <1>3 DEF Unregister, osVars
  <1>4. CASE Crash
    BY <1>4 DEF Crash
  <1>5. CASE Load
    BY <1>5 DEF Load, memVars
  <1> QED BY <1>1, <1>2, <1>3, <1>4, <1>5, TableChanges DEF Changes

\* A record enters the table when its pid names nobody in it.
LEMMA FoundStep == TableIInv /\ [TableNext]_tableVars => FoundByPid'
  <1> SUFFICES ASSUME TableIInv, [TableNext]_tableVars PROVE FoundByPid'
    OBVIOUS
  <1> USE RecordsKept, TableAssumption DEF RecordsStay, FoundByPid, TableIInv, LookupInv, TableTypeOK, PidOf
  <1>1. CASE UNCHANGED <<table, owner, up>>
    BY <1>1
  <1>2. ASSUME NEW r \in Req, NEW p \in Pid, NEW i \in ProcId, RegisterNew(r, p, i) PROVE FoundByPid'
    BY <1>2 DEF RegisterNew, NoRecord, dbVars
  <1>3. ASSUME NEW r \in Req, NEW i \in ProcId, Unregister(r, i) PROVE FoundByPid'
    BY <1>3 DEF Unregister, SetStatus
  <1>4. CASE Crash
    BY <1>4 DEF Crash
  <1>5. CASE Load
    BY <1>5 DEF Load, memVars
  <1> QED BY <1>1, <1>2, <1>3, <1>4, <1>5, TableChanges DEF Changes

\* While the program is down nothing is uncommitted.
LEMMA DownStep == TableIInv /\ [TableNext]_tableVars => DownInv'
  <1> SUFFICES ASSUME TableIInv, [TableNext]_tableVars PROVE DownInv'
    OBVIOUS
  <1> USE TableAssumption DEF TableIInv, TableTypeOK, PidOf, IsAlive, osVars, memVars, dbVars, runVars
  <1> USE DEF Goto, Move, Ends, Write, Loses, Save, SaveAs, Commit, CommitFails, Kill, Delete, SetStatus
  <1> USE DEF DownInv, CallInv, Idle
  <1>1. ASSUME NEW p \in Pid, Spawn(p) PROVE DownInv'
    BY <1>1 DEF Spawn
  <1>2. ASSUME NEW p \in Pid, Exit(p) PROVE DownInv'
    BY <1>2 DEF Exit
  <1>3. ASSUME NEW r \in Req, NEW p \in Pid, RegisterKnown(r, p) PROVE DownInv'
    BY <1>3 DEF RegisterKnown
  <1>4. ASSUME NEW r \in Req, NEW p \in Pid, NEW i \in ProcId, RegisterNew(r, p, i) PROVE DownInv'
    BY <1>4 DEF RegisterNew
  <1>5. ASSUME NEW r \in Req, NEW i \in ProcId, Unregister(r, i) PROVE DownInv'
    BY <1>5 DEF Unregister
  <1>6. ASSUME NEW r \in Req, NEW i \in ProcId, Heartbeat(r, i) PROVE DownInv'
    BY <1>6 DEF Heartbeat
  <1>7. ASSUME NEW r \in Req, NEW i \in ProcId, ValidateIntegrity(r, i) PROVE DownInv'
    BY <1>7 DEF ValidateIntegrity
  <1>8. ASSUME NEW r \in Req, NEW i \in ProcId, Terminate(r, i) PROVE DownInv'
    BY <1>8 DEF Terminate
  <1>9. ASSUME NEW r \in Req, CleanStale(r) \/ CleanOrphans(r) \/ ReturnKnown(r) PROVE DownInv'
    BY <1>9 DEF CleanStale, CleanOrphans, ReturnKnown
  <1>10. ASSUME NEW r \in Req, Logged(r) PROVE DownInv'
    BY <1>10 DEF Logged
  <1>11. ASSUME NEW r \in Req, Registered(r) \/ Unregistered(r) \/ Saved(r) PROVE DownInv'
    BY <1>11 DEF Registered, Unregistered, Saved
  <1>12. ASSUME NEW r \in Req, Signal(r) PROVE DownInv'
    BY <1>12 DEF Signal
  <1>13. ASSUME NEW r \in Req, WaitEnds(r) PROVE DownInv'
    BY <1>13 DEF WaitEnds
  <1>14. ASSUME NEW r \in Req, CleanNext(r) PROVE DownInv'
    BY <1>14 DEF CleanNext
  <1>15. ASSUME NEW r \in Req, Beaten(r) PROVE DownInv'
    BY <1>15 DEF Beaten
  <1>16. ASSUME NEW r \in Req, Swept(r) PROVE DownInv'
    BY <1>16 DEF Swept
  <1>17. CASE Crash
    BY <1>17 DEF Crash
  <1>18. CASE Load
    BY <1>18 DEF Load
  <1>19. CASE UNCHANGED tableVars
    BY <1>19 DEF tableVars
  <1> QED
    BY <1>1, <1>2, <1>3, <1>4, <1>5, <1>6, <1>7, <1>8, <1>9, <1>10, <1>11, <1>12, <1>13, <1>14, <1>15, <1>16, <1>17, <1>18, <1>19 DEF TableNext, Call, Answer

\* What each call knows survives the steps of the others: what changes the table takes the lock.
LEMMA CallStep == TableIInv /\ [TableNext]_tableVars => CallInv'
  <1> SUFFICES ASSUME TableIInv, [TableNext]_tableVars PROVE CallInv'
    OBVIOUS
  <1> USE TableAssumption DEF TableIInv, TableTypeOK, PidOf, IsAlive, osVars, memVars, dbVars, runVars
  <1> USE DEF Goto, Move, Ends, Write, Loses, Save, SaveAs, Commit, CommitFails, Kill, Delete, SetStatus
  <1> USE RecordsKept, TypeStep DEF RecordsStay, CallInv, LockSteps, OnRecord, Steps, Idle, CallState
  <1>1. ASSUME NEW p \in Pid, Spawn(p) PROVE CallInv'
    BY <1>1 DEF Spawn
  <1>2. ASSUME NEW p \in Pid, Exit(p) PROVE CallInv'
    BY <1>2 DEF Exit
  <1>3. ASSUME NEW r \in Req, NEW p \in Pid, RegisterKnown(r, p) PROVE CallInv'
    BY <1>3 DEF RegisterKnown
  <1>4. ASSUME NEW r \in Req, NEW p \in Pid, NEW i \in ProcId, RegisterNew(r, p, i) PROVE CallInv'
    BY <1>4 DEF RegisterNew
  <1>5. ASSUME NEW r \in Req, NEW i \in ProcId, Unregister(r, i) PROVE CallInv'
    BY <1>5, SMTT(30) DEF Unregister
  <1>6. ASSUME NEW r \in Req, NEW i \in ProcId, Heartbeat(r, i) PROVE CallInv'
    BY <1>6 DEF Heartbeat
  <1>7. ASSUME NEW r \in Req, NEW i \in ProcId, ValidateIntegrity(r, i) PROVE CallInv'
    BY <1>7 DEF ValidateIntegrity
  <1>8. ASSUME NEW r \in Req, NEW i \in ProcId, Terminate(r, i) PROVE CallInv'
    BY <1>8 DEF Terminate
  <1>9. ASSUME NEW r \in Req, CleanStale(r) \/ CleanOrphans(r) \/ ReturnKnown(r) PROVE CallInv'
    BY <1>9 DEF CleanStale, CleanOrphans, ReturnKnown
  <1>10. ASSUME NEW r \in Req, Logged(r) PROVE CallInv'
    BY <1>10 DEF Logged
  <1>11. ASSUME NEW r \in Req, Registered(r) \/ Unregistered(r) \/ Saved(r) PROVE CallInv'
    BY <1>11 DEF Registered, Unregistered, Saved
  <1>12. ASSUME NEW r \in Req, Signal(r) PROVE CallInv'
    <2> DEFINE i == at[r].id
    <2>1. i \in ProcId /\ record[i] # NoRecord /\ lock # r
      BY <1>12 DEF Signal
    <2>2. UNCHANGED <<table, owner, up, lock>>
      BY <1>12, <2>1 DEF Signal
    <2>3. \E step \in {"idle", "saving", "waiting"} :
             at' = [at EXCEPT ![r] = IF step = "idle" THEN Idle ELSE [pc |-> step, id |-> i, left |-> {}]]
      BY <1>12, <2>1 DEF Signal
    <2>4. at[r].pc = "signalling"
      BY <1>12 DEF Signal
    <2> HIDE DEF i
    <2> QED BY ONLY TableIInv, [TableNext]_tableVars, <2>1, <2>2, <2>3, <2>4, RecordsKept
            DEF TableIInv, TableTypeOK, PidOf, RecordsStay, CallInv, LockSteps, OnRecord, Steps, Idle, CallState
  <1>13. ASSUME NEW r \in Req, WaitEnds(r) PROVE CallInv'
    <2> DEFINE i == at[r].id
    <2>1. i \in ProcId /\ record[i] # NoRecord /\ lock # r
      BY <1>13 DEF WaitEnds
    <2>2. UNCHANGED <<table, owner, up, lock>>
      BY <1>13, <2>1 DEF WaitEnds
    <2>3. \E step \in {"idle", "saving"} :
             at' = [at EXCEPT ![r] = IF step = "idle" THEN Idle ELSE [pc |-> step, id |-> i, left |-> {}]]
      BY <1>13, <2>1 DEF WaitEnds
    <2>4. at[r].pc = "waiting"
      BY <1>13 DEF WaitEnds
    <2> HIDE DEF i
    <2> QED BY ONLY TableIInv, [TableNext]_tableVars, <2>1, <2>2, <2>3, <2>4, RecordsKept
            DEF TableIInv, TableTypeOK, PidOf, RecordsStay, CallInv, LockSteps, OnRecord, Steps, Idle, CallState
  <1>14. ASSUME NEW r \in Req, CleanNext(r) PROVE CallInv'
    BY <1>14 DEF CleanNext
  <1>15. ASSUME NEW r \in Req, Beaten(r) PROVE CallInv'
    BY <1>15 DEF Beaten
  <1>16. ASSUME NEW r \in Req, Swept(r) PROVE CallInv'
    BY <1>16 DEF Swept
  <1>17. CASE Crash
    BY <1>17 DEF Crash
  <1>18. CASE Load
    BY <1>18, SMTT(30) DEF Load
  <1>19. CASE UNCHANGED tableVars
    BY <1>19 DEF tableVars
  <1> QED
    BY <1>1, <1>2, <1>3, <1>4, <1>5, <1>6, <1>7, <1>8, <1>9, <1>10, <1>11, <1>12, <1>13, <1>14, <1>15, <1>16, <1>17, <1>18, <1>19 DEF TableNext, Call, Answer

Untouched(j) ==
    /\ Lives(j) /\ record'[j].status = record[j].status
    /\ row'[j] = row[j] /\ (j \in unsaved => j \in unsaved') /\ (Logging(j) => Logging(j)')

\* Ending a process leaves the rows of those that live, and their calls.
LEMMA Ended ==
    TableIInv /\ [TableNext]_tableVars =>
        \A r \in Req : Signal(r) \/ WaitEnds(r) =>
            UNCHANGED table /\ \A j \in table : Lives(j)' => Untouched(j)
  <1> SUFFICES ASSUME TableIInv, [TableNext]_tableVars, NEW r \in Req, Signal(r) \/ WaitEnds(r)
               PROVE  UNCHANGED table /\ \A j \in table : Lives(j)' => Untouched(j)
    OBVIOUS
  <1> DEFINE i == at[r].id
  <1> USE DEF TableIInv, TableTypeOK, PidOf, IsAlive, Lives
  <1> USE DEF Goto, Move, Ends, Write, Loses, Save, SaveAs, Commit, CommitFails, Kill, Delete, SetStatus
  <1>1. i \in ProcId /\ record[i] # NoRecord /\ PidOf(i) \in Pid /\ at[r].pc \in {"signalling", "waiting"}
    BY DEF CallInv, OnRecord, Steps, Signal, WaitEnds, ProcRecord
  <1>2. UNCHANGED table /\ \A j \in ProcId : j # i => row'[j] = row[j] /\ (j \in unsaved => j \in unsaved')
    BY <1>1 DEF Signal, WaitEnds, memVars
  <1>3. alive' \in {alive, [alive EXCEPT ![PidOf(i)] = 0]}
    BY <1>1 DEF Signal, WaitEnds, osVars
  <1>4. alive'[PidOf(i)] = 0 \/ (row' = row /\ unsaved \subseteq unsaved')
    BY <1>1 DEF Signal, WaitEnds, dbVars
  <1>5. alive'[PidOf(i)] = 0 \/ record' = record
    BY <1>1 DEF Signal, WaitEnds, memVars
  <1>6. \A j \in ProcId : j # i => record'[j] = record[j]
    BY <1>1 DEF Signal, WaitEnds, memVars
  <1>7. \A j \in table : PidOf(j)' = PidOf(j) /\ record'[j].birth = record[j].birth /\ PidOf(j) \in Pid
    BY RecordsKept DEF RecordsStay, ProcRecord
  <1>8. \A j \in ProcId : Logging(j) => Logging(j)'
    BY <1>1 DEF Logging, Signal, WaitEnds
  <1> HIDE DEF i
  <1>9. ASSUME NEW j \in table, Lives(j)' PROVE Lives(j)
    BY <1>1, <1>3, <1>7, <1>9
  <1> QED BY <1>1, <1>2, <1>4, <1>5, <1>6, <1>7, <1>8, <1>9 DEF Untouched

LEMMA EndedRecords == TableIInv /\ [TableNext]_tableVars => \A r \in Req : Signal(r) \/ WaitEnds(r) => RecordInv'
  <1> SUFFICES ASSUME TableIInv, [TableNext]_tableVars, NEW r \in Req, Signal(r) \/ WaitEnds(r)
               PROVE  RecordInv'
    OBVIOUS
  <1> USE DEF TableIInv, TableTypeOK, PidOf
  <1>1. UNCHANGED table /\ \A j \in table : Lives(j)' => Untouched(j)
    BY Ended
  <1>2. UNCHANGED births /\ \A j \in ProcId : record'[j] # NoRecord => record[j] # NoRecord
    BY DEF Signal, WaitEnds, osVars, memVars, CommitFails, SaveAs, SetStatus, CallInv, OnRecord, Steps
  <1>3. \A j \in ProcId : record[j] # NoRecord => PidOf(j)' = PidOf(j) /\ record'[j].birth = record[j].birth
    BY RecordsKept DEF RecordsStay
  <1> QED BY <1>1, <1>2, <1>3 DEF RecordInv, Untouched

\* Only the record of a process that is gone gets an inactive status.
LEMMA RecordStep == TableIInv /\ [TableNext]_tableVars => RecordInv'
  <1> SUFFICES ASSUME TableIInv, [TableNext]_tableVars PROVE RecordInv'
    OBVIOUS
  <1> USE TableAssumption DEF TableIInv, TableTypeOK, PidOf, IsAlive, osVars, memVars, dbVars, runVars
  <1> USE DEF Goto, Move, Ends, Write, Loses, Save, SaveAs, Commit, CommitFails, Kill, Delete, SetStatus
  <1> USE RecordsKept DEF RecordsStay, RecordInv, Lives, NoRecord, ProcRecord, CallInv, OnRecord, Steps, Active
  <1>1. ASSUME NEW p \in Pid, Spawn(p) PROVE RecordInv'
    BY <1>1 DEF Spawn
  <1>2. ASSUME NEW p \in Pid, Exit(p) PROVE RecordInv'
    BY <1>2 DEF Exit
  <1>3. ASSUME NEW r \in Req, NEW p \in Pid, RegisterKnown(r, p) PROVE RecordInv'
    BY <1>3 DEF RegisterKnown
  <1>4. ASSUME NEW r \in Req, NEW p \in Pid, NEW i \in ProcId, RegisterNew(r, p, i) PROVE RecordInv'
    BY <1>4 DEF RegisterNew
  <1>5. ASSUME NEW r \in Req, NEW i \in ProcId, Unregister(r, i) PROVE RecordInv'
    BY <1>5 DEF Unregister
  <1>6. ASSUME NEW r \in Req, NEW i \in ProcId, Heartbeat(r, i) PROVE RecordInv'
    BY <1>6 DEF Heartbeat
  <1>7. ASSUME NEW r \in Req, NEW i \in ProcId, ValidateIntegrity(r, i) PROVE RecordInv'
    BY <1>7 DEF ValidateIntegrity
  <1>8. ASSUME NEW r \in Req, NEW i \in ProcId, Terminate(r, i) PROVE RecordInv'
    BY <1>8 DEF Terminate
  <1>9. ASSUME NEW r \in Req, CleanStale(r) \/ CleanOrphans(r) \/ ReturnKnown(r) PROVE RecordInv'
    BY <1>9 DEF CleanStale, CleanOrphans, ReturnKnown
  <1>10. ASSUME NEW r \in Req, Logged(r) PROVE RecordInv'
    BY <1>10 DEF Logged
  <1>11. ASSUME NEW r \in Req, Registered(r) \/ Unregistered(r) \/ Saved(r) PROVE RecordInv'
    BY <1>11 DEF Registered, Unregistered, Saved
  <1>12. ASSUME NEW r \in Req, Signal(r) PROVE RecordInv'
    BY <1>12, EndedRecords
  <1>13. ASSUME NEW r \in Req, WaitEnds(r) PROVE RecordInv'
    BY <1>13, EndedRecords
  <1>14. ASSUME NEW r \in Req, CleanNext(r) PROVE RecordInv'
    BY <1>14 DEF CleanNext
  <1>15. ASSUME NEW r \in Req, Beaten(r) PROVE RecordInv'
    BY <1>15 DEF Beaten
  <1>16. ASSUME NEW r \in Req, Swept(r) PROVE RecordInv'
    BY <1>16 DEF Swept
  <1>17. CASE Crash
    BY <1>17 DEF Crash
  <1>18. CASE Load
    BY <1>18 DEF Load
  <1>19. CASE UNCHANGED tableVars
    BY <1>19 DEF tableVars
  <1> QED
    BY <1>1, <1>2, <1>3, <1>4, <1>5, <1>6, <1>7, <1>8, <1>9, <1>10, <1>11, <1>12, <1>13, <1>14, <1>15, <1>16, <1>17, <1>18, <1>19 DEF TableNext, Call, Answer

LEMMA EndedRows == TableIInv /\ [TableNext]_tableVars => \A r \in Req : Signal(r) \/ WaitEnds(r) => LiveRows'
  BY Ended DEF TableIInv, LiveRows, Untouched

LEMMA EndedLive ==
    TableIInv /\ [TableNext]_tableVars => \A r \in Req : Signal(r) \/ WaitEnds(r) => LiveIsRecorded'
  <1> SUFFICES ASSUME TableIInv, [TableNext]_tableVars, NEW r \in Req, Signal(r) \/ WaitEnds(r)
               PROVE  LiveIsRecorded'
    OBVIOUS
  <1>1. UNCHANGED table /\ \A j \in table : Lives(j)' => Untouched(j)
    BY Ended
  <1>2. \A j \in table : Logging(j)' => Pending(j)'
    BY DEF Logging, Pending
  <1>3. CASE disk' = row
    BY <1>1, <1>2, <1>3 DEF TableIInv, LiveRows, LiveIsRecorded, Untouched
  <1>4. CASE Signal(r) /\ CommitFails(r)
    <2>1. \A j \in table : j # at[r].id /\ Pending(j) => Pending(j)'
      BY <1>4 DEF CommitFails, Loses, Ends, Pending, TableIInv, TableTypeOK
    <2>2. at[r].id \in unsaved' /\ disk' = disk
      BY <1>4 DEF CommitFails, Loses
    <2> QED BY <1>1, <2>1, <2>2 DEF TableIInv, LookupInv, LiveIsRecorded, Untouched
  <1>5. CASE WaitEnds(r)
    <2>1. UNCHANGED disk
      BY <1>5 DEF WaitEnds
    <2>2. \A j \in table : Pending(j) => Pending(j)'
      BY <1>5 DEF WaitEnds, SaveAs, Save, Write, Loses, Goto, Move, Ends, Pending, TableIInv, TableTypeOK
    <2> QED BY <1>1, <2>1, <2>2 DEF TableIInv, LookupInv, LiveIsRecorded, Untouched
  <1> QED BY <1>3, <1>4, <1>5 DEF Signal, Commit

\* The rows of processes that live are written with their status, which is active.
LEMMA LiveRowsStep == TableIInv /\ [TableNext]_tableVars => LiveRows'
  <1> SUFFICES ASSUME TableIInv, [TableNext]_tableVars PROVE LiveRows'
    OBVIOUS
  <1> USE TableAssumption DEF TableIInv, TableTypeOK, PidOf, IsAlive, osVars, memVars, dbVars, runVars
  <1> USE DEF Goto, Move, Ends, Write, Loses, Save, SaveAs, Commit, CommitFails, Kill, Delete, SetStatus
  <1> USE RecordsKept DEF RecordsStay, LiveRows, Logging, RecordInv, CallInv, OnRecord, Steps, Lives, Active, Status, NoRow, Idle
  <1>1. ASSUME NEW p \in Pid, Spawn(p) PROVE LiveRows'
    BY <1>1 DEF Spawn
  <1>2. ASSUME NEW p \in Pid, Exit(p) PROVE LiveRows'
    BY <1>2 DEF Exit
  <1>3. ASSUME NEW r \in Req, NEW p \in Pid, RegisterKnown(r, p) PROVE LiveRows'
    BY <1>3 DEF RegisterKnown
  <1>4. ASSUME NEW r \in Req, NEW p \in Pid, NEW i \in ProcId, RegisterNew(r, p, i) PROVE LiveRows'
    BY <1>4 DEF RegisterNew
  <1>5. ASSUME NEW r \in Req, NEW i \in ProcId, Unregister(r, i) PROVE LiveRows'
    BY <1>5 DEF Unregister
  <1>6. ASSUME NEW r \in Req, NEW i \in ProcId, Heartbeat(r, i) PROVE LiveRows'
    BY <1>6 DEF Heartbeat
  <1>7. ASSUME NEW r \in Req, NEW i \in ProcId, ValidateIntegrity(r, i) PROVE LiveRows'
    BY <1>7 DEF ValidateIntegrity
  <1>8. ASSUME NEW r \in Req, NEW i \in ProcId, Terminate(r, i) PROVE LiveRows'
    <2>1. UNCHANGED table /\ \A j \in table : Lives(j)' => Lives(j)
      BY <1>8 DEF Terminate
    <2>2. \A j \in table : Logging(j) => Logging(j)'
      BY <1>8 DEF Terminate
    <2>3. /\ \A j \in table : j # i => row'[j] = row[j] /\ (j \in unsaved => j \in unsaved')
          /\ \/ i \in unsaved' \/ row'[i] = "stopping"
             \/ alive'[PidOf(i)] = 0
      BY <1>8 DEF Terminate
    <2>4. alive'[PidOf(i)] = 0 => ~Lives(i)'
      BY <1>8 DEF Terminate
    <2> QED BY ONLY TableIInv, <2>1, <2>2, <2>3, <2>4 DEF TableIInv, LiveRows, Active
  <1>9. ASSUME NEW r \in Req, CleanStale(r) \/ CleanOrphans(r) \/ ReturnKnown(r) PROVE LiveRows'
    BY <1>9, SMTT(30) DEF CleanStale, CleanOrphans, ReturnKnown
  <1>10. ASSUME NEW r \in Req, Logged(r) PROVE LiveRows'
    BY <1>10 DEF Logged
  <1>11. ASSUME NEW r \in Req, Registered(r) \/ Unregistered(r) \/ Saved(r) PROVE LiveRows'
    BY <1>11 DEF Registered, Unregistered, Saved
  <1>12. ASSUME NEW r \in Req, Signal(r) PROVE LiveRows'
    BY <1>12, EndedRows
  <1>13. ASSUME NEW r \in Req, WaitEnds(r) PROVE LiveRows'
    BY <1>13, EndedRows
  <1>14. ASSUME NEW r \in Req, CleanNext(r) PROVE LiveRows'
    BY <1>14 DEF CleanNext
  <1>15. ASSUME NEW r \in Req, Beaten(r) PROVE LiveRows'
    BY <1>15 DEF Beaten
  <1>16. ASSUME NEW r \in Req, Swept(r) PROVE LiveRows'
    BY <1>16 DEF Swept
  <1>17. CASE Crash
    BY <1>17 DEF Crash
  <1>18. CASE Load
    BY <1>18 DEF Load
  <1>19. CASE UNCHANGED tableVars
    BY <1>19 DEF tableVars
  <1> QED
    BY <1>1, <1>2, <1>3, <1>4, <1>5, <1>6, <1>7, <1>8, <1>9, <1>10, <1>11, <1>12, <1>13, <1>14, <1>15, <1>16, <1>17, <1>18, <1>19 DEF TableNext, Call, Answer

\* A commit makes such a row durable, and nobody deletes it.
LEMMA LiveStep == TableIInv /\ [TableNext]_tableVars => LiveIsRecorded'
  <1> SUFFICES ASSUME TableIInv, [TableNext]_tableVars PROVE LiveIsRecorded'
    OBVIOUS
  <1> USE TableAssumption DEF TableIInv, TableTypeOK, PidOf, IsAlive, osVars, memVars, dbVars, runVars
  <1> USE DEF Goto, Move, Ends, Write, Loses, Save, SaveAs, Commit, CommitFails, Kill, Delete, SetStatus
  <1> USE RecordsKept DEF RecordsStay, LiveIsRecorded, Pending, LiveRows, Logging, LookupInv, RecordInv, CallInv, OnRecord, Steps, Lives, Active, Status, NoRow, Idle
  <1>1. ASSUME NEW p \in Pid, Spawn(p) PROVE LiveIsRecorded'
    BY <1>1 DEF Spawn
  <1>2. ASSUME NEW p \in Pid, Exit(p) PROVE LiveIsRecorded'
    BY <1>2 DEF Exit
  <1>3. ASSUME NEW r \in Req, NEW p \in Pid, RegisterKnown(r, p) PROVE LiveIsRecorded'
    BY <1>3 DEF RegisterKnown
  <1>4. ASSUME NEW r \in Req, NEW p \in Pid, NEW i \in ProcId, RegisterNew(r, p, i) PROVE LiveIsRecorded'
    BY <1>4 DEF RegisterNew
  <1>5. ASSUME NEW r \in Req, NEW i \in ProcId, Unregister(r, i) PROVE LiveIsRecorded'
    BY <1>5, SMTT(30) DEF Unregister
  <1>6. ASSUME NEW r \in Req, NEW i \in ProcId, Heartbeat(r, i) PROVE LiveIsRecorded'
    BY <1>6 DEF Heartbeat
  <1>7. ASSUME NEW r \in Req, NEW i \in ProcId, ValidateIntegrity(r, i) PROVE LiveIsRecorded'
    BY <1>7 DEF ValidateIntegrity
  <1>8. ASSUME NEW r \in Req, NEW i \in ProcId, Terminate(r, i) PROVE LiveIsRecorded'
    <2>1. UNCHANGED <<table, disk, osVars>> /\ at[r] = Idle
      BY ONLY <1>8 DEF Terminate
    <2>2. \A j \in table : Lives(j)' => Lives(j)
      BY <2>1, RecordsKept DEF RecordsStay, Lives, IsAlive
    <2>3. PICK status \in Status, step \in {"signalling", "saving"} : Save(r, i, status, step)
      BY <1>8 DEF Terminate, SaveAs
    <2>4. \A j \in table : Pending(j) => Pending(j)'
      BY ONLY <2>1, <2>3, TableIInv DEF TableIInv, TableTypeOK, Save, Write, Loses, Ends, Goto, Move, Pending, Idle
    <2>5. \A j \in table : j \notin unsaved' => j \notin unsaved \/ Pending(j)'
      BY ONLY <2>1, <2>3, TableIInv DEF TableIInv, TableTypeOK, Save, Write, Loses, Ends, Goto, Move, Pending
    <2> QED BY ONLY TableIInv, <2>1, <2>2, <2>4, <2>5 DEF TableIInv, LookupInv, LiveIsRecorded
  <1>9. ASSUME NEW r \in Req, CleanStale(r) \/ CleanOrphans(r) \/ ReturnKnown(r) PROVE LiveIsRecorded'
    BY <1>9 DEF CleanStale, CleanOrphans, ReturnKnown
  <1>10. ASSUME NEW r \in Req, Logged(r) PROVE LiveIsRecorded'
    BY <1>10, SMTT(30) DEF Logged
  <1>11. ASSUME NEW r \in Req, Registered(r) \/ Unregistered(r) \/ Saved(r) PROVE LiveIsRecorded'
    BY <1>11 DEF Registered, Unregistered, Saved
  <1>12. ASSUME NEW r \in Req, Signal(r) PROVE LiveIsRecorded'
    BY <1>12, EndedLive
  <1>13. ASSUME NEW r \in Req, WaitEnds(r) PROVE LiveIsRecorded'
    BY <1>13, EndedLive
  <1>14. ASSUME NEW r \in Req, CleanNext(r) PROVE LiveIsRecorded'
    BY <1>14 DEF CleanNext
  <1>15. ASSUME NEW r \in Req, Beaten(r) PROVE LiveIsRecorded'
    BY <1>15, SMTT(30) DEF Beaten
  <1>16. ASSUME NEW r \in Req, Swept(r) PROVE LiveIsRecorded'
    BY <1>16 DEF Swept
  <1>17. CASE Crash
    BY <1>17 DEF Crash
  <1>18. CASE Load
    BY <1>18 DEF Load
  <1>19. CASE UNCHANGED tableVars
    BY <1>19 DEF tableVars
  <1> QED
    BY <1>1, <1>2, <1>3, <1>4, <1>5, <1>6, <1>7, <1>8, <1>9, <1>10, <1>11, <1>12, <1>13, <1>14, <1>15, <1>16, <1>17, <1>18, <1>19 DEF TableNext, Call, Answer

LEMMA TableInductive == TableIInv /\ [TableNext]_tableVars => TableIInv'
  BY TypeStep, CallStep, DownStep, PidsStep, FoundStep, RecordStep, LiveRowsStep, LiveStep
  DEF TableIInv, LookupInv

\* The records, the pid table over them and the rows stay in step for any pids,
\* callers, restarts and failures of the database: their types are right, the
\* pid table names records of the table, every record is found by its pid, and a
\* registered process that lives has a committed active row (register_process,
\* unregister_process, terminate_process, the clean-ups).
THEOREM TableSafe == TableSpec => []TableInv
  <1>1. TableIInv => TableInv
    BY DEF TableIInv, TableInv
  <1> QED BY TableInitially, TableInductive, <1>1, PTL DEF TableSpec

-----------------------------------------------------------------------------
(* The servers *)

\* What makes McpInv inductive.  The calls that add a server leave room for the
\* locks they will make; a loop that is registered is of its server; before the
\* first lock nothing has been done with a server; and under its first lock
\* whoever is at work on the connection holds that lock or waits for it.
Adding(s) == {u \in Tool : op[u].pc = "adding" /\ op[u].server = s}

LockRoom == /\ \A s \in Server : IsFiniteSet(Adding(s)) /\ made[s] + Cardinality(Adding(s)) <= MaxLocks
        /\ \A t \in Task : op[t].pc = "adding" => t \in Tool

OneInside ==
    \A t, u \in Task :
        t # u /\ op[t].pc \in Inside /\ op[u].pc \in Inside /\ op[t].server = op[u].server
            => op[t].lock # op[u].lock \/ op[t].lock = 0

LockKnown == \A s \in Server : s \in configured <=> mcpLock[s] # 0

LoopsHome == \A s \in Server : \A l \in checker[s] : op[l].pc = "idle" \/ op[l].server = s

NeverAdded ==
    \A s \in Server : made[s] = 0 =>
        /\ mcpLock[s] = 0 /\ conn[s] = "none" /\ transport[s] = "none"
        /\ \A t \in Task : op[t].server = s => op[t].pc \in {"idle", "adding", "cancelled"}

Engaged == Inside \cup {"connecting", "disconnecting"}

FirstLock(s) == mcpLock[s] = 1 /\ made[s] = 1

LockHeld ==
    \A s \in Server : FirstLock(s) =>
        \A t \in Task : op[t].server = s =>
            /\ op[t].pc \in Engaged => op[t].lock = 1
            /\ op[t].pc = "closed" => transport[s] # "up"

Attached ==
    \A s \in Server : FirstLock(s) =>
        /\ transport[s] = "up" => conn[s] # "none"
        /\ conn[s] = "connecting" => \E t \in Task : maker[s] = {t} /\ op[t].server = s /\ op[t].pc = "dialing"

McpIInv == McpTypeOK /\ LockRoom /\ OneInside /\ LockKnown /\ LoopsHome /\ NeverAdded /\ LockHeld /\ Attached

\* What a task's entry is.
CallEntry == [pc : CallPcs, server : Server, lock : 0 .. MaxLocks, remove : BOOLEAN]

LEMMA IdleIsCall ==
    /\ IdleCall \in CallEntry /\ IdleCall.pc = "idle"
    /\ \A pc \in CallPcs, x \in CallEntry : [x EXCEPT !.pc = pc] \in CallEntry
BY McpAssumption DEF IdleCall, CallEntry, CallPcs

LEMMA McpStart == McpInit => McpIInv
<1> SUFFICES ASSUME McpInit PROVE McpIInv
  OBVIOUS
<1> USE McpAssumption DEF McpInit
<1>1. \A t \in Task : op[t] = IdleCall /\ op[t].pc = "idle" BY IdleIsCall
<1>2. McpTypeOK BY IdleIsCall DEF McpTypeOK, CallEntry
<1>3. \A s \in Server : Adding(s) = {} BY <1>1 DEF Adding, Task
<1>4. LockRoom BY <1>1, <1>3, FS_EmptySet DEF LockRoom
<1>5. OneInside /\ LockKnown /\ LoopsHome /\ NeverAdded /\ LockHeld /\ Attached
  BY <1>1 DEF OneInside, LockKnown, LoopsHome, NeverAdded, LockHeld, Attached, FirstLock, Inside
<1> QED BY <1>2, <1>4, <1>5 DEF McpIInv


\* A step that changes one task's entry and neither the locks nor what is known:
\* LockRoom when the task adds no server, OneInside when it goes inside alone.
LEMMA RoomKept ==
    ASSUME McpTypeOK, LockRoom, UNCHANGED made, \A u \in Task : op'[u].pc = "adding" => op'[u] = op[u]
    PROVE  LockRoom'
<1>1. ASSUME NEW s \in Server PROVE IsFiniteSet(Adding(s)') /\ made'[s] + Cardinality(Adding(s)') <= MaxLocks
  <2>1. Adding(s)' \subseteq Adding(s) BY DEF Adding, Task
  <2>2. IsFiniteSet(Adding(s)') /\ Cardinality(Adding(s)') <= Cardinality(Adding(s))
    BY <2>1, FS_Subset DEF LockRoom
  <2>3. Cardinality(Adding(s)') \in Nat /\ Cardinality(Adding(s)) \in Nat
    BY <2>2, FS_CardinalityType DEF LockRoom
  <2>4. made[s] \in Nat /\ MaxLocks \in Nat BY McpAssumption DEF McpTypeOK
  <2> QED BY <2>2, <2>3, <2>4 DEF LockRoom
<1>2. \A t \in Task : op'[t].pc = "adding" => t \in Tool BY DEF LockRoom
<1> QED BY <1>1, <1>2 DEF LockRoom

\* A task that goes inside does so with no lock, or when nobody has its lock.
LEMMA InsideKept ==
    ASSUME OneInside,
           \A u \in Task : op'[u].pc \in Inside =>
               \/ op[u].pc \in Inside /\ op'[u].server = op[u].server /\ op'[u].lock = op[u].lock
               \/ /\ op'[u].lock = 0 \/ Unlocked(op'[u].server, op'[u].lock)
                  /\ \A v \in Task : v # u => op'[v].pc \notin Inside \/ op'[v] = op[v]
    PROVE  OneInside'
<1> SUFFICES ASSUME NEW t \in Task, NEW u \in Task, t # u, op'[t].pc \in Inside, op'[u].pc \in Inside,
                    op'[t].server = op'[u].server, op'[t].lock = op'[u].lock
             PROVE  op'[t].lock = 0
  BY DEF OneInside, Inside
<1>1. CASE \A x \in {t, u} : op[x].pc \in Inside /\ op'[x].server = op[x].server /\ op'[x].lock = op[x].lock
  BY <1>1 DEF OneInside
<1>2. ASSUME NEW x \in {t, u}, op'[x].lock = 0 \/ Unlocked(op'[x].server, op'[x].lock),
             \A v \in Task : v # x => op'[v].pc \notin Inside \/ op'[v] = op[v]
      PROVE  op'[t].lock = 0
  <2> DEFINE y == IF x = t THEN u ELSE t
  <2>1. y \in Task /\ y # x /\ op'[y].pc \in Inside /\ op'[y].server = op'[x].server /\ op'[y].lock = op'[x].lock
        /\ op'[x].lock = op'[t].lock
    OBVIOUS
  <2>2. op'[y] = op[y] BY <1>2, <2>1
  <2>3. ~Unlocked(op'[x].server, op'[x].lock) BY <2>1, <2>2 DEF Unlocked
  <2> QED BY <1>2, <2>1, <2>3
<1> QED BY <1>1, <1>2

\* The tables have the types they should when every entry that is written has.
Tables ==
    /\ configured \subseteq Server
    /\ conn \in [Server -> {"none", "connecting", "connected", "error"}]
    /\ maker \in [Server -> SUBSET Task]
    /\ errors \in [Server -> 0 .. RetryCount]
    /\ transport \in [Server -> {"none", "made", "up", "down"}]
    /\ mcpLock \in [Server -> 0 .. MaxLocks] /\ made \in [Server -> 0 .. MaxLocks]
    /\ checker \in [Server -> SUBSET Loop]

LEMMA McpTypes == McpTypeOK <=> Tables /\ op \in [Task -> CallEntry]
BY DEF McpTypeOK, Tables, CallEntry

\* The tasks that a step does not name stay where they are.
LEMMA OneTask ==
    ASSUME McpTypeOK, NEW t \in Task, NEW x, op' = [op EXCEPT ![t] = x]
    PROVE  /\ op'[t] = x /\ \A u \in Task : u # t => op'[u] = op[u]
           /\ x \in CallEntry => op' \in [Task -> CallEntry]
BY McpTypes

\* A step of one task that is not inside afterwards, nor adds a server, nor
\* waits for a lock, and that leaves the tables.
LEMMA StepsOut ==
    ASSUME McpIInv, NEW t \in Task, NEW x \in CallEntry, op' = [op EXCEPT ![t] = x],
           x.pc \notin Inside, x.pc # "adding",
           op[t].pc # "dialing", op[t].pc # "idle" => x.server = op[t].server \/ x.pc = "idle",
           op[t].pc = "idle" => t \in Tool,
           made[x.server] = 0 => x.pc \in {"idle", "cancelled"},
           FirstLock(x.server) /\ x.pc \in {"connecting", "disconnecting"} => x.lock = 1,
           UNCHANGED <<configured, conn, maker, transport, mcpLock, made, checker>>, errors' \in [Server -> 0 .. RetryCount]
    PROVE  McpIInv'
<1>0. McpTypeOK /\ LockRoom /\ OneInside /\ LockKnown /\ LoopsHome /\ NeverAdded /\ LockHeld /\ Attached
  BY DEF McpIInv
<1>1. op'[t] = x /\ (\A u \in Task : u # t => op'[u] = op[u]) /\ op' \in [Task -> CallEntry]
  BY <1>0, OneTask
<1>2. McpTypeOK' BY <1>0, <1>1 DEF McpTypeOK, CallEntry
<1>3. LockRoom' BY <1>0, <1>1, RoomKept
<1>4. OneInside' BY <1>0, <1>1, InsideKept
<1>5. LockKnown' BY <1>0 DEF LockKnown
<1>6. LoopsHome'
  <2> SUFFICES ASSUME NEW s \in Server, NEW l \in checker[s] PROVE op'[l].pc = "idle" \/ op'[l].server = s
    BY DEF LoopsHome
  <2>1. l \in Loop BY <1>0, McpTypes DEF Tables
  <2>2. op[l].pc = "idle" \/ op[l].server = s BY <1>0 DEF LoopsHome
  <2>3. CASE l = t
    <3>1. t \notin Tool BY <2>1, <2>3, McpAssumption
    <3> QED BY <1>1, <2>2, <2>3, <3>1
  <2> QED BY <1>1, <2>1, <2>2, <2>3 DEF Task
<1>7. NeverAdded' BY <1>0, <1>1 DEF NeverAdded
<1>8. LockHeld' BY <1>0, <1>1 DEF LockHeld, FirstLock, Engaged, Inside
<1>9. Attached' BY <1>0, <1>1 DEF Attached, FirstLock
<1> QED BY <1>2, <1>3, <1>4, <1>5, <1>6, <1>7, <1>8, <1>9 DEF McpIInv


\* Where a task goes when a call that it made returns.
LEMMA AfterCall ==
    ASSUME McpTypeOK, NEW t \in Task
    PROVE  /\ After(t) \in CallEntry
           /\ \/ After(t).pc = "sleeping" /\ After(t).server = op[t].server
              \/ After(t).pc = "idle"
<1>1. op[t] \in CallEntry BY McpTypes
<1>2. 0 \in 0 .. MaxLocks BY McpAssumption
<1> QED BY <1>1, <1>2, IdleIsCall DEF After, CallEntry, CallPcs

\* The calls of the users that wait for nothing yet.
LEMMA ToolSteps ==
    ASSUME McpIInv, NEW t \in Tool, NEW s \in Server, RemoveServer(t, s) \/ CallDisconnect(t, s) \/ CallConnect(t, s)
    PROVE  McpIInv'
<1>0. McpTypeOK /\ LockKnown /\ NeverAdded /\ t \in Task BY DEF McpIInv, Task
<1>1. made[s] # 0 /\ mcpLock[s] \in 0 .. MaxLocks
  <2>1. s \in configured \/ conn[s] # "none" BY DEF RemoveServer, CallDisconnect, CallConnect, WantsConnection
  <2> QED BY <1>0, <2>1 DEF NeverAdded, LockKnown, McpTypeOK
<1>2. errors' \in [Server -> 0 .. RetryCount] /\ UNCHANGED <<configured, conn, maker, transport, mcpLock, made, checker>>
      /\ op[t].pc = "idle"
  BY <1>0 DEF RemoveServer, CallDisconnect, CallConnect, McpTypeOK
<1>3. ASSUME NEW x \in CallEntry, op' = [op EXCEPT ![t] = x], x.pc \in {"deleting", "disconnecting", "connecting"},
             x.server = s, x.lock = mcpLock[s]
      PROVE  McpIInv'
  BY <1>0, <1>1, <1>2, <1>3, StepsOut DEF Inside, FirstLock
<1>4. CASE RemoveServer(t, s)
  <2> DEFINE x == [pc |-> IF conn[s] = "none" THEN "deleting" ELSE "disconnecting",
                   server |-> s, lock |-> mcpLock[s], remove |-> TRUE]
  <2>1. x \in CallEntry BY <1>1 DEF CallEntry, CallPcs
  <2>2. op' = [op EXCEPT ![t] = x] BY <1>4 DEF RemoveServer
  <2> QED BY <1>3, <2>1, <2>2
<1>5. CASE CallDisconnect(t, s)
  <2> DEFINE x == [pc |-> "disconnecting", server |-> s, lock |-> mcpLock[s], remove |-> FALSE]
  <2>1. x \in CallEntry BY <1>1 DEF CallEntry, CallPcs
  <2>2. op' = [op EXCEPT ![t] = x] BY <1>5 DEF CallDisconnect
  <2> QED BY <1>3, <2>1, <2>2
<1>6. CASE CallConnect(t, s)
  <2> DEFINE x == [IdleCall EXCEPT !.pc = "connecting", !.server = s, !.lock = mcpLock[s]]
  <2>1. x \in CallEntry /\ x.pc = "connecting" /\ x.server = s /\ x.lock = mcpLock[s]
    <3>1. IdleCall \in CallEntry BY IdleIsCall
    <3> HIDE DEF IdleCall
    <3> QED BY <1>1, <3>1 DEF CallEntry, CallPcs
  <2>2. op' = [op EXCEPT ![t] = x] BY <1>6 DEF CallConnect
  <2> HIDE DEF x
  <2> QED BY <1>3, <2>1, <2>2
<1> QED BY <1>4, <1>5, <1>6

\* A task that ends its call, or goes on outside: the loops between their
\* calls, and whoever finds that there is nothing to do.
LEMMA OutsideSteps ==
    ASSUME McpIInv, NEW t \in Task, ConnectLogged(t) \/ (t \in Loop /\ (Ping(t) \/ PingEnds(t) \/ Reconnect(t) \/ LoopEnds(t)))
    PROVE  McpIInv'
<1>0. McpTypeOK /\ NeverAdded BY DEF McpIInv
<1>1. op[t] \in CallEntry /\ op[t].server \in Server BY <1>0, McpTypes DEF CallEntry
<1>2. /\ UNCHANGED <<configured, conn, maker, transport, mcpLock, made, checker>>
      /\ op[t].pc \in {"logging", "sleeping", "pinging", "resting", "cancelled"}
      /\ op[t].pc # "cancelled" => made[op[t].server] # 0
      /\ mcpLock[op[t].server] \in 0 .. MaxLocks
  BY <1>0, <1>1 DEF ConnectLogged, Ping, PingEnds, Reconnect, LoopEnds, NeverAdded, McpTypeOK
<1>3. errors' \in [Server -> 0 .. RetryCount]
  <2>1. errors \in [Server -> 0 .. RetryCount] BY <1>0 DEF McpTypeOK
  <2>2. \A n \in 0 .. RetryCount : Counted(n) \in 0 .. RetryCount BY McpAssumption DEF Counted
  <2>3. 0 \in 0 .. RetryCount BY McpAssumption
  <2>4. CASE PingEnds(t) BY <1>1, <2>1, <2>2, <2>3, <2>4 DEF PingEnds
  <2> QED BY <2>1, <2>4 DEF ConnectLogged, Ping, Reconnect, LoopEnds
<1>4. ASSUME NEW x \in CallEntry, op' = [op EXCEPT ![t] = x],
             \/ x.pc = "idle"
             \/ /\ x.pc \in {"sleeping", "pinging", "resting", "disconnecting", "connecting"} /\ x.server = op[t].server
                /\ op[t].pc # "cancelled" /\ (x.pc \in {"disconnecting", "connecting"} => x.lock = mcpLock[x.server])
      PROVE  McpIInv'
  BY <1>1, <1>2, <1>3, <1>4, StepsOut DEF Inside, FirstLock
<1>5. CASE ConnectLogged(t)
  <2>1. op' = [op EXCEPT ![t] = After(t)] /\ op[t].pc = "logging" BY <1>5 DEF ConnectLogged
  <2> QED BY <1>0, <1>4, <2>1, AfterCall
<1>6. CASE LoopEnds(t)
  <2>1. op' = [op EXCEPT ![t] = IdleCall] BY <1>6 DEF LoopEnds
  <2> QED BY <1>4, <2>1, IdleIsCall
<1>7. CASE Ping(t)
  <2> DEFINE x == [op[t] EXCEPT !.pc = "pinging"]
  <2>1. x \in CallEntry /\ x.pc = "pinging" /\ x.server = op[t].server BY <1>1 DEF CallEntry, CallPcs
  <2>2. op[t].pc = "sleeping" /\ (op' = [op EXCEPT ![t] = IdleCall] \/ op' = [op EXCEPT ![t] = x])
    BY <1>7 DEF Ping
  <2> HIDE DEF x
  <2> QED BY <1>4, <2>1, <2>2, IdleIsCall
<1>8. CASE PingEnds(t)
  <2>1. PICK pc \in {"sleeping", "disconnecting", "resting"}, n \in {op[t].lock, mcpLock[op[t].server]} :
            /\ op' = [op EXCEPT ![t] = [@ EXCEPT !.pc = pc, !.lock = n]]
            /\ pc = "disconnecting" => n = mcpLock[op[t].server]
    <3>1. CASE Goes(t, "sleeping")
      <4>1. [op[t] EXCEPT !.pc = "sleeping"] = [op[t] EXCEPT !.pc = "sleeping", !.lock = op[t].lock]
        BY <1>1 DEF CallEntry
      <4> QED BY <3>1, <4>1 DEF Goes
    <3>2. CASE ~Goes(t, "sleeping")
      BY <1>8, <3>2 DEF PingEnds
    <3> QED BY <3>1, <3>2
  <2> DEFINE x == [op[t] EXCEPT !.pc = pc, !.lock = n]
  <2>2. x \in CallEntry /\ x.pc = pc /\ x.server = op[t].server /\ x.lock = n BY <1>1, <1>2 DEF CallEntry, CallPcs
  <2>3. op' = [op EXCEPT ![t] = x] /\ op[t].pc = "pinging" BY <1>8, <2>1 DEF PingEnds
  <2> HIDE DEF x
  <2> QED BY <1>4, <2>1, <2>2, <2>3
<1>9. CASE Reconnect(t)
  <2> DEFINE x == [op[t] EXCEPT !.pc = IF WantsConnection(op[t].server) THEN "connecting" ELSE "sleeping",
                                !.lock = mcpLock[op[t].server]]
  <2>1. /\ x \in CallEntry /\ x.pc \in {"connecting", "sleeping"} /\ x.server = op[t].server
        /\ x.lock = mcpLock[op[t].server]
    BY <1>1, <1>2 DEF CallEntry, CallPcs
  <2>2. op' = [op EXCEPT ![t] = x] /\ op[t].pc = "resting" BY <1>9 DEF Reconnect
  <2> HIDE DEF x
  <2> QED BY <1>4, <2>1, <2>2
<1> QED BY <1>5, <1>6, <1>7, <1>8, <1>9

\* The insertion of a server is awaited.
LEMMA AddStep == ASSUME McpIInv, NEW t \in Tool, NEW s \in Server, AddServer(t, s) PROVE McpIInv'
<1>0. McpTypeOK /\ LockRoom /\ OneInside /\ LockKnown /\ LoopsHome /\ NeverAdded /\ LockHeld /\ Attached /\ t \in Task
  BY DEF McpIInv, Task
<1> DEFINE x == [IdleCall EXCEPT !.pc = "adding", !.server = s]
<1>1. x \in CallEntry /\ x.pc = "adding" /\ x.server = s
  <2>1. IdleCall \in CallEntry BY IdleIsCall
  <2> QED BY <2>1 DEF CallEntry, CallPcs
<1>2. op' = [op EXCEPT ![t] = x] /\ op[t].pc = "idle"
      /\ UNCHANGED <<configured, conn, maker, errors, transport, mcpLock, made, checker>>
  BY DEF AddServer
<1> HIDE DEF x
<1>3. op'[t] = x /\ (\A u \in Task : u # t => op'[u] = op[u]) /\ op' \in [Task -> CallEntry]
  BY <1>0, <1>1, <1>2, OneTask
<1>4. McpTypeOK' BY <1>0, <1>2, <1>3 DEF McpTypeOK, CallEntry
<1>5. LockRoom'
  <2>1. ASSUME NEW z \in Server PROVE IsFiniteSet(Adding(z)') /\ made'[z] + Cardinality(Adding(z)') <= MaxLocks
    <3>1. CASE z = s
      <4>1. Adding(z)' = Adding(z) \cup {t} /\ t \notin Adding(z)
        BY <1>0, <1>1, <1>2, <1>3, <3>1 DEF Adding, Task
      <4>2. IsFiniteSet(Adding(z)') /\ Cardinality(Adding(z)') = Cardinality(Adding(z)) + 1
            /\ Cardinality(Adding(z)) \in Nat
        BY <1>0, <4>1, FS_AddElement, FS_CardinalityType DEF LockRoom
      <4>3. made[z] + Cardinality(Adding(z)) < MaxLocks BY <3>1 DEF AddServer, Adding
      <4>4. made[z] \in Nat /\ MaxLocks \in Nat BY <1>0, McpAssumption DEF McpTypeOK
      <4> QED BY <1>2, <4>2, <4>3, <4>4
    <3>2. CASE z # s
      <4>1. Adding(z)' = Adding(z)
        BY <1>0, <1>1, <1>2, <1>3, <3>2 DEF Adding, Task
      <4> QED BY <1>0, <1>2, <4>1 DEF LockRoom
    <3> QED BY <3>1, <3>2
  <2> QED BY <1>0, <1>3, <2>1 DEF LockRoom
<1>6. OneInside' BY <1>0, <1>1, <1>3, InsideKept DEF Inside
<1>7. LockKnown' BY <1>0, <1>2 DEF LockKnown
<1>8. LoopsHome'
  <2>1. \A z \in Server : \A l \in checker[z] : l # t BY <1>0, McpTypes, McpAssumption DEF Tables
  <2>2. \A z \in Server : checker[z] \subseteq Task BY <1>0, McpTypes DEF Tables, Task
  <2> QED BY <1>0, <1>2, <1>3, <2>1, <2>2 DEF LoopsHome
<1>9. NeverAdded' BY <1>0, <1>1, <1>2, <1>3 DEF NeverAdded
<1>10. LockHeld' BY <1>0, <1>1, <1>2, <1>3 DEF LockHeld, FirstLock, Engaged, Inside
<1>11. Attached' BY <1>0, <1>2, <1>3 DEF Attached, FirstLock
<1> QED BY <1>4, <1>5, <1>6, <1>7, <1>8, <1>9, <1>10, <1>11 DEF McpIInv

\* The tables are filled: the lock is made.
LEMMA AddEndsStep == ASSUME McpIInv, NEW t \in Task, AddEnds(t) PROVE McpIInv'
<1>0. McpTypeOK /\ LockRoom /\ OneInside /\ LockKnown /\ LoopsHome /\ NeverAdded /\ LockHeld /\ Attached
  BY DEF McpIInv
<1>1. PICK s \in Server : s = op[t].server /\ t \in Tool /\ t \notin Loop
  BY <1>0, McpTypes, McpAssumption DEF CallEntry, LockRoom, AddEnds
<1>2. /\ made' = [made EXCEPT ![s] = @ + 1] /\ mcpLock' = [mcpLock EXCEPT ![s] = made'[s]]
      /\ configured' = configured \cup {s} /\ op' = [op EXCEPT ![t] = IdleCall] /\ op[t].pc = "adding"
      /\ UNCHANGED <<conn, maker, errors, transport, checker>>
  BY <1>1 DEF AddEnds
<1>3. op'[t] = IdleCall /\ IdleCall.pc = "idle" /\ (\A u \in Task : u # t => op'[u] = op[u]) /\ op' \in [Task -> CallEntry]
  BY <1>0, <1>2, OneTask, IdleIsCall
<1>4. /\ t \in Adding(s) /\ Adding(s)' = Adding(s) \ {t}
      /\ \A z \in Server : z # s => Adding(z)' = Adding(z)
  <2>1. \A u \in Tool : u \in Task BY DEF Task
  <2> QED BY <1>1, <1>2, <1>3, <2>1 DEF Adding
<1>5. IsFiniteSet(Adding(s)') /\ Cardinality(Adding(s)') = Cardinality(Adding(s)) - 1
      /\ Cardinality(Adding(s)) \in Nat /\ Cardinality(Adding(s)') \in Nat
  <2>1. IsFiniteSet(Adding(s)) BY <1>0, <1>1 DEF LockRoom
  <2> QED BY <1>4, <2>1, FS_RemoveElement, FS_CardinalityType
<1>6. made[s] \in 0 .. MaxLocks /\ made[s] + Cardinality(Adding(s)) <= MaxLocks /\ MaxLocks \in Nat
  BY <1>0, <1>1, McpAssumption DEF McpTypeOK, LockRoom
<1>7. made[s] + 1 \in 0 .. MaxLocks /\ made[s] + 1 # 0
  BY <1>5, <1>6
<1>8. /\ made'[s] = made[s] + 1 /\ mcpLock'[s] = made[s] + 1
      /\ \A z \in Server : z # s => made'[z] = made[z] /\ mcpLock'[z] = mcpLock[z]
  BY <1>0, <1>1, <1>2 DEF McpTypeOK
<1>9. McpTypeOK' BY <1>0, <1>1, <1>2, <1>3, <1>7, <1>8 DEF McpTypeOK, CallEntry
<1>10. LockRoom'
  <2>1. made'[s] + Cardinality(Adding(s)') <= MaxLocks BY <1>5, <1>6, <1>8
  <2>2. \A z \in Server : IsFiniteSet(Adding(z)') /\ made'[z] + Cardinality(Adding(z)') <= MaxLocks
    <3> SUFFICES ASSUME NEW z \in Server PROVE IsFiniteSet(Adding(z)') /\ made'[z] + Cardinality(Adding(z)') <= MaxLocks
      OBVIOUS
    <3>1. CASE z = s
      <4>1. IsFiniteSet(Adding(s)) BY <1>0 DEF LockRoom
      <4> QED BY <1>5, <2>1, <3>1
    <3>2. CASE z # s BY <1>0, <1>4, <1>8, <3>2 DEF LockRoom
    <3> QED BY <3>1, <3>2
  <2> QED BY <1>0, <1>3, <2>2 DEF LockRoom
<1>11. OneInside' BY <1>0, <1>3, InsideKept DEF Inside
<1>12. LockKnown' BY <1>0, <1>1, <1>2, <1>7, <1>8 DEF LockKnown
<1>13. LoopsHome'
  <2>1. \A z \in Server : checker[z] \subseteq Loop BY <1>0, McpTypes DEF Tables
  <2> QED BY <1>0, <1>1, <1>2, <1>3, <2>1 DEF LoopsHome, Task
<1>14. NeverAdded' BY <1>0, <1>1, <1>2, <1>3, <1>7, <1>8 DEF NeverAdded
<1>15. ASSUME NEW z \in Server, FirstLock(z)'
       PROVE  FirstLock(z) \/ (z = s /\ made[s] = 0)
  <2>1. CASE z = s BY <1>6, <1>8, <1>15, <2>1 DEF FirstLock
  <2>2. CASE z # s BY <1>8, <1>15, <2>2 DEF FirstLock
  <2> QED BY <2>1, <2>2
<1>16. LockHeld'
  <2> SUFFICES ASSUME NEW z \in Server, FirstLock(z)', NEW u \in Task, op'[u].server = z
               PROVE  /\ op'[u].pc \in Engaged => op'[u].lock = 1
                      /\ op'[u].pc = "closed" => transport'[z] # "up"
    BY DEF LockHeld
  <2>1. CASE u = t BY <1>3, <2>1 DEF Engaged, Inside
  <2>2. CASE u # t /\ FirstLock(z) BY <1>0, <1>2, <1>3, <2>2 DEF LockHeld
  <2>3. CASE u # t /\ made[z] = 0 BY <1>0, <1>3, <2>3 DEF NeverAdded, Engaged, Inside
  <2> QED BY <1>15, <2>1, <2>2, <2>3
<1>17. Attached'
  <2> SUFFICES ASSUME NEW z \in Server, FirstLock(z)'
               PROVE  /\ transport'[z] = "up" => conn'[z] # "none"
                      /\ conn'[z] = "connecting" => \E u \in Task : maker'[z] = {u} /\ op'[u].server = z /\ op'[u].pc = "dialing"
    BY DEF Attached
  <2>1. CASE FirstLock(z) BY <1>0, <1>2, <1>3, <2>1 DEF Attached
  <2>2. CASE made[z] = 0 BY <1>0, <1>2, <2>2 DEF NeverAdded
  <2> QED BY <1>15, <2>1, <2>2
<1> QED BY <1>9, <1>10, <1>11, <1>12, <1>13, <1>14, <1>16, <1>17 DEF McpIInv

\* A server is removed: from here on its lock is another one, or none, so that
\* what is said of the first lock is not said of it; the registered loops are
\* told to end.
LEMMA RemoveStep == ASSUME McpIInv, NEW t \in Task, RemoveEnds(t) PROVE McpIInv'
<1>0. McpTypeOK /\ LockRoom /\ OneInside /\ LockKnown /\ LoopsHome /\ NeverAdded /\ LockHeld /\ Attached
  BY DEF McpIInv
<1>1. PICK s \in Server : s = op[t].server
  BY <1>0, McpTypes DEF CallEntry
<1>2. op[t].pc = "deleting" /\ UNCHANGED <<conn, maker, errors, transport, made>>
  BY DEF RemoveEnds
<1>3. CASE s \notin configured
  <2>1. op' = [op EXCEPT ![t] = IdleCall] /\ UNCHANGED <<configured, mcpLock, checker>>
    BY <1>1, <1>3 DEF RemoveEnds
  <2>2. errors' \in [Server -> 0 .. RetryCount] BY <1>0, <1>2 DEF McpTypeOK
  <2> QED BY <1>2, <2>1, <2>2, IdleIsCall, StepsOut DEF Inside
<1>4. CASE s \in configured
  <2>1. /\ configured' = configured \ {s} /\ mcpLock' = [mcpLock EXCEPT ![s] = 0]
        /\ checker' = [checker EXCEPT ![s] = {}]
        /\ op' = [Cancelled(checker[s]) EXCEPT ![t] = IdleCall]
    BY <1>1, <1>4 DEF RemoveEnds
  <2>2. \A u \in Task :
            \/ op'[u] = op[u]
            \/ op'[u] = IdleCall /\ op'[u].pc = "idle" /\ u = t
            \/ /\ op'[u] = [op[u] EXCEPT !.pc = "cancelled"] /\ op'[u].pc = "cancelled" /\ op'[u].server = op[u].server
               /\ u \in checker[s] /\ op[u].pc # "idle"
    <3> SUFFICES ASSUME NEW u \in Task PROVE
            \/ op'[u] = op[u]
            \/ op'[u] = IdleCall /\ op'[u].pc = "idle" /\ u = t
            \/ /\ op'[u] = [op[u] EXCEPT !.pc = "cancelled"] /\ op'[u].pc = "cancelled" /\ op'[u].server = op[u].server
               /\ u \in checker[s] /\ op[u].pc # "idle"
      OBVIOUS
    <3>1. op[u] \in CallEntry BY <1>0, McpTypes
    <3>2. op'[u] = IF u = t THEN IdleCall ELSE Cancelled(checker[s])[u] BY <2>1 DEF Cancelled
    <3>3. CASE u = t BY <3>2, <3>3, IdleIsCall
    <3>4. CASE u # t BY <3>1, <3>2, <3>4 DEF Cancelled, CallEntry
    <3> QED BY <3>3, <3>4
  <2>3. op' \in [Task -> CallEntry]
    <3>1. DOMAIN op' = Task /\ op' = [u \in Task |-> op'[u]] BY <2>1 DEF Cancelled
    <3>2. \A u \in Task : op[u] \in CallEntry BY <1>0, McpTypes
    <3>3. \A u \in Task : op'[u] \in CallEntry BY <2>2, <3>2, IdleIsCall DEF CallPcs
    <3> QED BY <3>1, <3>3
  <2>4. McpTypeOK'
    <3>1. mcpLock' \in [Server -> 0 .. MaxLocks] BY <1>0, <2>1, McpAssumption DEF McpTypeOK
    <3>2. checker' \in [Server -> SUBSET Loop] /\ configured' \subseteq Server BY <1>0, <2>1 DEF McpTypeOK
    <3> QED BY <1>0, <1>2, <2>3, <3>1, <3>2 DEF McpTypeOK, CallEntry
  <2>5. LockRoom' BY <1>0, <1>2, <2>2, RoomKept
  <2>6. OneInside' BY <1>0, <2>2, InsideKept DEF Inside
  <2>7. LockKnown' BY <1>0, <2>1 DEF LockKnown, McpTypeOK
  <2>8. LoopsHome'
    <3> SUFFICES ASSUME NEW z \in Server, NEW l \in checker'[z] PROVE op'[l].pc = "idle" \/ op'[l].server = z
      BY DEF LoopsHome
    <3>1. z # s /\ l \in checker[z] /\ l \in Task BY <1>0, <2>1 DEF McpTypeOK, Task
    <3>2. op[l].pc = "idle" \/ op[l].server = z BY <1>0, <3>1 DEF LoopsHome
    <3> QED BY <2>2, <3>1, <3>2
  <2>9. NeverAdded'
    <3>1. made[s] # 0 BY <1>0, <1>4 DEF NeverAdded, LockKnown
    <3>2. \A z \in Server : made'[z] = 0 => mcpLock'[z] = 0 /\ conn'[z] = "none" /\ transport'[z] = "none"
      BY <1>0, <1>2, <2>1, <3>1 DEF NeverAdded, McpTypeOK
    <3>3. ASSUME NEW z \in Server, made'[z] = 0, NEW u \in Task, op'[u].server = z
          PROVE  op'[u].pc \in {"idle", "adding", "cancelled"}
      BY <1>0, <1>2, <2>2, <3>3 DEF NeverAdded
    <3> QED BY <3>2, <3>3 DEF NeverAdded
  <2>10. ASSUME NEW z \in Server, FirstLock(z)' PROVE FirstLock(z) /\ z # s
    BY <1>0, <1>2, <2>1, <2>10 DEF FirstLock, McpTypeOK
  <2>11. LockHeld'
    <3> SUFFICES ASSUME NEW z \in Server, FirstLock(z), NEW u \in Task, op'[u].server = z,
                        op'[u].pc \in Engaged
                 PROVE  op'[u].lock = 1 /\ (op'[u].pc = "closed" => transport[z] # "up")
      BY <1>2, <2>10 DEF LockHeld, Engaged, Inside
    <3>1. op'[u] = op[u] BY <2>2 DEF Engaged, Inside
    <3> QED BY <1>0, <3>1 DEF LockHeld
  <2>12. Attached'
    <3> SUFFICES ASSUME NEW z \in Server, FirstLock(z), z # s, conn[z] = "connecting"
                 PROVE  \E u \in Task : maker[z] = {u} /\ op'[u].server = z /\ op'[u].pc = "dialing"
      BY <1>0, <1>2, <2>10 DEF Attached
    <3>1. PICK u \in Task : maker[z] = {u} /\ op[u].server = z /\ op[u].pc = "dialing" BY <1>0 DEF Attached
    <3>2. u \notin checker[s] BY <1>0, <3>1 DEF LoopsHome
    <3>3. op'[u] = op[u] BY <1>2, <2>2, <3>1, <3>2
    <3> QED BY <3>1, <3>3
  <2> QED BY <2>4, <2>5, <2>6, <2>7, <2>8, <2>9, <2>11, <2>12 DEF McpIInv
<1> QED BY <1>3, <1>4

\* disconnect_server() with the lock: the connection is another's to close, or
\* this task's; its loop is told to end.
LEMMA DisconnectStep == ASSUME McpIInv, NEW t \in Task, DisconnectBegins(t) PROVE McpIInv'
<1>0. McpTypeOK /\ LockRoom /\ OneInside /\ LockKnown /\ LoopsHome /\ NeverAdded /\ LockHeld /\ Attached
  BY DEF McpIInv
<1>1. PICK s \in Server : s = op[t].server
  BY <1>0, McpTypes DEF CallEntry
<1>2. /\ op[t].pc = "disconnecting" /\ (op[t].lock = 0 \/ Unlocked(s, op[t].lock))
      /\ UNCHANGED <<configured, conn, maker, errors, mcpLock, made>>
      /\ made[s] # 0
  BY <1>0, <1>1 DEF DisconnectBegins, NeverAdded
<1>3. CASE conn[s] = "none"
  <2>1. op' = [op EXCEPT ![t] = After(t)] /\ UNCHANGED <<checker, transport>>
    BY <1>1, <1>3 DEF DisconnectBegins
  <2>2. errors' \in [Server -> 0 .. RetryCount] BY <1>0, <1>2 DEF McpTypeOK
  <2> QED BY <1>0, <1>1, <1>2, <2>1, <2>2, AfterCall, StepsOut DEF Inside
<1>4. CASE conn[s] # "none"
  <2>1. checker' = [checker EXCEPT ![s] = {}] BY <1>1, <1>4 DEF DisconnectBegins
  <2>2. transport' \in [Server -> {"none", "made", "up", "down"}]
        /\ (\A z \in Server : transport'[z] = transport[z] \/ transport'[z] = "none")
    <3>1. transport' = transport \/ transport' = [transport EXCEPT ![s] = "none"]
          \/ transport' = [transport EXCEPT ![s] = transport[s]]
      BY <1>1, <1>4 DEF DisconnectBegins
    <3> QED BY <1>0, <3>1 DEF McpTypeOK
  <2>3. \A u \in Task :
            \/ op'[u] = op[u] /\ u # t
            \/ op'[u] = IdleCall /\ op'[u].pc = "idle" /\ u = t
            \/ op'[u] = [op[u] EXCEPT !.pc = "closing"] /\ op'[u].pc = "closing" /\ op'[u].server = op[u].server
               /\ op'[u].lock = op[u].lock /\ u = t
            \/ /\ op'[u] = [op[u] EXCEPT !.pc = "cancelled"] /\ op'[u].pc = "cancelled" /\ op'[u].server = op[u].server
               /\ u \in checker[s] /\ op[u].pc # "idle" /\ u # t
    <3>1. \A u \in Task : op[u] \in CallEntry BY <1>0, McpTypes
    <3>2. CASE op' = [op EXCEPT ![t] = IdleCall] BY <1>0, <3>2, IdleIsCall DEF McpTypeOK
    <3>3. CASE op' = [Cancelled(checker[s] \ {t}) EXCEPT ![t].pc = "closing"]
      <4>1. Cancelled(checker[s] \ {t})[t] = op[t] BY DEF Cancelled
      <4>2. op'[t] = [op[t] EXCEPT !.pc = "closing"] BY <3>3, <4>1 DEF Cancelled
      <4>3. op'[t].pc = "closing" /\ op'[t].server = op[t].server /\ op'[t].lock = op[t].lock
        BY <3>1, <4>2 DEF CallEntry
      <4>4. ASSUME NEW u \in Task, u # t
            PROVE  \/ op'[u] = op[u]
                   \/ /\ op'[u] = [op[u] EXCEPT !.pc = "cancelled"] /\ op'[u].pc = "cancelled"
                      /\ op'[u].server = op[u].server /\ u \in checker[s] /\ op[u].pc # "idle"
        BY <3>1, <3>3, <4>4 DEF Cancelled, CallEntry
      <4> QED BY <4>2, <4>3, <4>4
    <3> QED BY <1>1, <1>4, <3>2, <3>3 DEF DisconnectBegins
  <2>4. op' \in [Task -> CallEntry]
    <3>1. DOMAIN op' = Task /\ op' = [u \in Task |-> op'[u]]
      BY <1>0, <1>1, <1>4 DEF DisconnectBegins, Cancelled, McpTypeOK
    <3>2. \A u \in Task : op[u] \in CallEntry BY <1>0, McpTypes
    <3>3. ASSUME NEW u \in Task PROVE op'[u] \in CallEntry
      <4>1. \A pc \in {"closing", "cancelled"} : [op[u] EXCEPT !.pc = pc] \in CallEntry
        BY <3>2 DEF CallEntry, CallPcs
      <4> QED BY <2>3, <3>2, <4>1, IdleIsCall
    <3> QED BY <3>1, <3>3
  <2>5. McpTypeOK'
    <3>1. checker' \in [Server -> SUBSET Loop] BY <1>0, <2>1 DEF McpTypeOK
    <3> QED BY <1>0, <1>2, <2>2, <2>4, <3>1 DEF McpTypeOK, CallEntry
  <2>6. LockRoom'
    <3>1. \A u \in Task : op'[u].pc = "adding" => op'[u] = op[u] BY <2>3
    <3> QED BY <1>0, <1>2, <3>1, RoomKept
  <2>7. OneInside'
    <3>1. ASSUME NEW u \in Task, op'[u].pc \in Inside
          PROVE  \/ op[u].pc \in Inside /\ op'[u].server = op[u].server /\ op'[u].lock = op[u].lock
                 \/ /\ op'[u].lock = 0 \/ Unlocked(op'[u].server, op'[u].lock)
                    /\ \A v \in Task : v # u => op'[v].pc \notin Inside \/ op'[v] = op[v]
      <4>1. CASE op'[u] = op[u] BY <3>1, <4>1
      <4>2. CASE u = t
        <5>1. op'[u].lock = 0 \/ Unlocked(op'[u].server, op'[u].lock) BY <1>1, <1>2, <2>3, <3>1, <4>2 DEF Inside
        <5>2. \A v \in Task : v # u => op'[v].pc \notin Inside \/ op'[v] = op[v] BY <2>3, <4>2 DEF Inside
        <5> QED BY <5>1, <5>2
      <4> QED BY <2>3, <3>1, <4>1, <4>2 DEF Inside
    <3> QED BY <1>0, <3>1, InsideKept
  <2>8. LockKnown' BY <1>0, <1>2 DEF LockKnown
  <2>9. LoopsHome'
    <3> SUFFICES ASSUME NEW z \in Server, NEW l \in checker'[z] PROVE op'[l].pc = "idle" \/ op'[l].server = z
      BY DEF LoopsHome
    <3>1. l \in checker[z] /\ l \in Task BY <1>0, <2>1 DEF McpTypeOK, Task
    <3>2. op[l].pc = "idle" \/ op[l].server = z BY <1>0, <3>1 DEF LoopsHome
    <3> QED BY <1>2, <2>3, <3>1, <3>2
  <2>10. NeverAdded'
    <3>1. ASSUME NEW z \in Server, made'[z] = 0, NEW u \in Task, op'[u].server = z
          PROVE  op'[u].pc \in {"idle", "adding", "cancelled"}
      BY <1>0, <1>1, <1>2, <2>3, <3>1 DEF NeverAdded
    <3>2. \A z \in Server : made'[z] = 0 => mcpLock'[z] = 0 /\ conn'[z] = "none" /\ transport'[z] = "none"
      BY <1>0, <1>2, <2>2 DEF NeverAdded
    <3> QED BY <3>1, <3>2 DEF NeverAdded
  <2>11. LockHeld'
    <3> SUFFICES ASSUME NEW z \in Server, FirstLock(z), NEW u \in Task, op'[u].server = z,
                        op'[u].pc \in Engaged
                 PROVE  op'[u].lock = 1 /\ (op'[u].pc = "closed" => transport'[z] # "up")
      BY <1>2 DEF LockHeld, FirstLock, Engaged, Inside
    <3>1. CASE op'[u] = op[u] BY <1>0, <2>2, <3>1 DEF LockHeld
    <3>2. CASE op'[u].pc = "closing" /\ op'[u].lock = op[u].lock /\ op'[u].server = op[u].server /\ u = t
      BY <1>0, <1>2, <3>2 DEF LockHeld, Engaged
    <3> QED BY <2>3, <3>1, <3>2 DEF Engaged, Inside
  <2>12. Attached'
    <3> SUFFICES ASSUME NEW z \in Server, FirstLock(z)
                 PROVE  /\ transport'[z] = "up" => conn[z] # "none"
                        /\ conn[z] = "connecting" => \E u \in Task : maker[z] = {u} /\ op'[u].server = z /\ op'[u].pc = "dialing"
      BY <1>2 DEF Attached, FirstLock
    <3>1. transport'[z] = "up" => conn[z] # "none" BY <1>0, <2>2 DEF Attached
    <3>2. ASSUME conn[z] = "connecting"
          PROVE  \E u \in Task : maker[z] = {u} /\ op'[u].server = z /\ op'[u].pc = "dialing"
      <4>1. PICK u \in Task : maker[z] = {u} /\ op[u].server = z /\ op[u].pc = "dialing" BY <1>0, <3>2 DEF Attached
      <4>2. CASE z = s
        <5>1. op[t].lock = 1 /\ op[u].lock = 1 BY <1>0, <1>1, <1>2, <4>1, <4>2 DEF LockHeld, Engaged, Inside
        <5>2. ~Unlocked(s, op[t].lock) BY <4>1, <4>2, <5>1 DEF Unlocked, Inside
        <5> QED BY <1>2, <5>1, <5>2
      <4>3. CASE z # s
        <5>1. u \notin checker[s] BY <1>0, <4>1, <4>3 DEF LoopsHome
        <5>2. op'[u] = op[u] BY <1>2, <2>3, <4>1, <5>1
        <5> QED BY <4>1, <5>2
      <4> QED BY <4>2, <4>3
    <3> QED BY <3>1, <3>2
  <2> QED BY <2>5, <2>6, <2>7, <2>8, <2>9, <2>10, <2>11, <2>12 DEF McpIInv
<1> QED BY <1>3, <1>4

\* Of a server that keeps its first lock, one task at a time is inside.
LEMMA AloneInside ==
    ASSUME McpIInv, NEW s \in Server, FirstLock(s), NEW t \in Task, NEW u \in Task,
           op[t].server = s, op[u].server = s, op[t].pc \in Inside, op[u].pc \in Inside
    PROVE  t = u
<1>1. op[t].lock = 1 /\ op[u].lock = 1 BY DEF McpIInv, LockHeld, Engaged
<1> QED BY <1>1 DEF McpIInv, OneInside

\* A task that stays inside, or leaves with the connection, and what becomes of
\* the connection and the transport of its server.
LEMMA StepsInside ==
    ASSUME McpIInv, NEW t \in Task, NEW s \in Server, s = op[t].server, op[t].pc \in Inside \cup {"connecting"},
           NEW x \in CallEntry, op'[t] = x, x.server = s \/ x.pc = "idle", op' \in [Task -> CallEntry],
           \A u \in Task :
               \/ u = t
               \/ op'[u] = op[u]
               \/ op[u].pc = "idle" /\ op'[u].pc = "sleeping" /\ op'[u].server = s,
           x.pc \notin {"adding", "connecting", "disconnecting"},
           x.pc \in Inside => x.lock = op[t].lock,
           op[t].pc = "connecting" => Unlocked(s, op[t].lock),
           UNCHANGED <<configured, mcpLock, made>>, Tables', LoopsHome',
           \A z \in Server \ {s} : conn'[z] = conn[z] /\ transport'[z] = transport[z] /\ maker'[z] = maker[z],
           FirstLock(s) => /\ x.pc = "closed" => transport'[s] # "up"
                           /\ transport'[s] = "up" => conn'[s] # "none"
                           /\ conn'[s] = "connecting" => maker'[s] = {t} /\ x.pc = "dialing"
    PROVE  McpIInv'
<1>0. McpTypeOK /\ LockRoom /\ OneInside /\ LockKnown /\ LoopsHome /\ NeverAdded /\ LockHeld /\ Attached
  BY DEF McpIInv
<1>1. /\ op'[t] = x /\ op' \in [Task -> CallEntry]
      /\ \A u \in Task :
             \/ u = t
             \/ op'[u] = op[u]
             \/ op[u].pc = "idle" /\ op'[u].pc = "sleeping" /\ op'[u].server = s
  OBVIOUS
<1>2. McpTypeOK' BY <1>0, <1>1 DEF McpTypeOK, CallEntry, Tables
<1>3. LockRoom' BY <1>0, <1>1, RoomKept
<1>4. OneInside'
  <2>1. ASSUME x.pc \in Inside
        PROVE  \/ op[t].pc \in Inside /\ x.server = s /\ x.lock = op[t].lock
               \/ Unlocked(x.server, x.lock)
    BY <2>1 DEF Inside
  <2>2. ASSUME NEW u \in Task, op'[u].pc \in Inside
        PROVE  \/ op[u].pc \in Inside /\ op'[u].server = op[u].server /\ op'[u].lock = op[u].lock
               \/ /\ op'[u].lock = 0 \/ Unlocked(op'[u].server, op'[u].lock)
                  /\ \A v \in Task : v # u => op'[v].pc \notin Inside \/ op'[v] = op[v]
    BY <1>1, <2>1, <2>2 DEF Inside
  <2> QED BY <1>0, <2>2, InsideKept
<1>5. LockKnown' BY <1>0 DEF LockKnown
<1>7. made[s] # 0 BY <1>0 DEF NeverAdded, Inside
<1>8. NeverAdded'
  <2>1. ASSUME NEW z \in Server, made[z] = 0, NEW u \in Task, op'[u].server = z
        PROVE  op'[u].pc \in {"idle", "adding", "cancelled"}
    BY <1>0, <1>1, <1>7, <2>1 DEF NeverAdded
  <2> QED BY <1>0, <1>7, <2>1 DEF NeverAdded
<1>9. ASSUME NEW z \in Server, FirstLock(z), NEW u \in Task, op'[u].server = z, op'[u].pc \in Engaged
      PROVE  op'[u].lock = 1 /\ (op'[u].pc = "closed" => transport'[z] # "up")
  <2>1. CASE u = t
    <3>1. x.pc \in Inside /\ z = s BY <1>1, <1>9, <2>1 DEF Engaged, Inside
    <3>2. op[t].lock = 1 BY <1>0, <1>9, <3>1 DEF LockHeld, Engaged, Inside
    <3> QED BY <1>1, <1>9, <2>1, <3>1, <3>2
  <2>2. CASE u # t
    <3>1. op'[u] = op[u] BY <1>1, <1>9, <2>2 DEF Engaged, Inside
    <3>2. op[u].lock = 1 /\ (op[u].pc = "closed" => transport[z] # "up") BY <1>0, <1>9, <3>1 DEF LockHeld
    <3>3. ASSUME op[u].pc = "closed" PROVE z # s
      <4>1. CASE op[t].pc \in Inside BY <1>9, <2>2, <3>1, <3>3, <4>1, AloneInside DEF Inside
      <4>2. CASE op[t].pc = "connecting" /\ z = s
        <5>1. op[t].lock = 1 BY <1>0, <1>9, <4>2 DEF LockHeld, Engaged
        <5> QED BY <1>9, <3>1, <3>2, <3>3, <4>2, <5>1 DEF Unlocked, Inside
      <4> QED BY <4>1, <4>2
    <3> QED BY <3>1, <3>2, <3>3
  <2> QED BY <2>1, <2>2
<1>10. LockHeld' BY <1>9 DEF LockHeld, FirstLock, Engaged, Inside
<1>11. Attached'
  <2> SUFFICES ASSUME NEW z \in Server, FirstLock(z)
               PROVE  /\ transport'[z] = "up" => conn'[z] # "none"
                      /\ conn'[z] = "connecting" => \E u \in Task : maker'[z] = {u} /\ op'[u].server = z /\ op'[u].pc = "dialing"
    BY DEF Attached, FirstLock
  <2>1. CASE z = s BY <1>1, <2>1
  <2>2. CASE z # s
    <3>1. transport'[z] = "up" => conn'[z] # "none" BY <1>0, <2>2 DEF Attached
    <3>2. ASSUME conn'[z] = "connecting"
          PROVE  \E u \in Task : maker'[z] = {u} /\ op'[u].server = z /\ op'[u].pc = "dialing"
      <4>1. PICK u \in Task : maker[z] = {u} /\ op[u].server = z /\ op[u].pc = "dialing"
        BY <1>0, <2>2, <3>2 DEF Attached
      <4> QED BY <1>1, <2>2, <4>1
    <3> QED BY <3>1, <3>2
  <2> QED BY <2>1, <2>2
<1> QED BY <1>2, <1>3, <1>4, <1>5, <1>8, <1>10, <1>11 DEF McpIInv

\* The same when no loop starts.
LEMMA StepsInsideAlone ==
    ASSUME McpIInv, NEW t \in Task, NEW s \in Server, s = op[t].server, op[t].pc \in Inside \cup {"connecting"},
           NEW x \in CallEntry, op' = [op EXCEPT ![t] = x], x.server = s \/ x.pc = "idle",
           x.pc \notin {"adding", "connecting", "disconnecting"},
           x.pc \in Inside => x.lock = op[t].lock,
           op[t].pc = "connecting" => Unlocked(s, op[t].lock),
           UNCHANGED <<configured, mcpLock, made, checker>>, Tables',
           \A z \in Server \ {s} : conn'[z] = conn[z] /\ transport'[z] = transport[z] /\ maker'[z] = maker[z],
           FirstLock(s) => /\ x.pc = "closed" => transport'[s] # "up"
                           /\ transport'[s] = "up" => conn'[s] # "none"
                           /\ conn'[s] = "connecting" => maker'[s] = {t} /\ x.pc = "dialing"
    PROVE  McpIInv'
<1>0. McpTypeOK /\ LoopsHome BY DEF McpIInv
<1>1. op'[t] = x /\ (\A u \in Task : u # t => op'[u] = op[u]) /\ op' \in [Task -> CallEntry]
  BY <1>0, OneTask
<1>2. LoopsHome'
  <2> SUFFICES ASSUME NEW z \in Server, NEW l \in checker[z] PROVE op'[l].pc = "idle" \/ op'[l].server = z
    BY DEF LoopsHome
  <2>1. l \in Task BY <1>0, McpTypes DEF Tables, Task
  <2>2. op[l].pc = "idle" \/ op[l].server = z BY <1>0 DEF LoopsHome
  <2> QED BY <1>1, <2>1, <2>2 DEF Inside
<1> QED BY <1>1, <1>2, StepsInside

LEMMA ClosingSteps == ASSUME McpIInv, NEW t \in Task, TransportRemoved(t) \/ Disconnected(t) PROVE McpIInv'
<1>0. McpTypeOK /\ LockHeld /\ Attached /\ op[t] \in CallEntry BY McpTypes DEF McpIInv
<1>1. PICK s \in Server : s = op[t].server BY <1>0 DEF CallEntry
<1>2. op[t].pc \in {"closing", "closed"} /\ UNCHANGED <<configured, maker, errors, mcpLock, made, checker>>
  BY DEF TransportRemoved, Disconnected
<1>3. ASSUME FirstLock(s) PROVE conn[s] # "connecting"
  <2> SUFFICES ASSUME conn[s] = "connecting" PROVE FALSE
    OBVIOUS
  <2>1. PICK u \in Task : op[u].server = s /\ op[u].pc = "dialing" BY <1>0, <1>3 DEF Attached
  <2>2. u = t BY <1>1, <1>2, <1>3, <2>1, AloneInside DEF Inside
  <2> QED BY <1>2, <2>1, <2>2
<1>4. CASE TransportRemoved(t)
  <2> DEFINE x == [op[t] EXCEPT !.pc = "closed"]
  <2>1. x \in CallEntry /\ x.pc = "closed" /\ x.server = s /\ x.lock = op[t].lock BY <1>0, <1>1 DEF CallEntry, CallPcs
  <2>2. PICK left \in {"none", "down"} :
            op' = [op EXCEPT ![t] = x] /\ transport' = [transport EXCEPT ![s] = left] /\ conn' = conn /\ op[t].pc = "closing"
    BY <1>1, <1>4 DEF TransportRemoved, Goes
  <2>3. Tables' /\ transport'[s] # "up" /\ \A z \in Server \ {s} : transport'[z] = transport[z]
    BY <1>0, <1>2, <2>2 DEF McpTypeOK, Tables
  <2> HIDE DEF x
  <2> QED BY <1>1, <1>2, <1>3, <2>1, <2>2, <2>3, StepsInsideAlone DEF Inside
<1>5. CASE Disconnected(t)
  <2> DEFINE x == IF op[t].remove THEN [op[t] EXCEPT !.pc = "deleting"]
                  ELSE IF t \in Loop THEN [op[t] EXCEPT !.pc = "resting"] ELSE IdleCall
  <2>1. x \in CallEntry /\ x.pc \in {"deleting", "resting", "idle"} /\ (x.server = s \/ x.pc = "idle")
    <3>1. [op[t] EXCEPT !.pc = "deleting"] \in CallEntry /\ [op[t] EXCEPT !.pc = "deleting"].server = s
          /\ [op[t] EXCEPT !.pc = "deleting"].pc = "deleting"
      BY <1>0, <1>1 DEF CallEntry, CallPcs
    <3>2. [op[t] EXCEPT !.pc = "resting"] \in CallEntry /\ [op[t] EXCEPT !.pc = "resting"].server = s
          /\ [op[t] EXCEPT !.pc = "resting"].pc = "resting"
      BY <1>0, <1>1 DEF CallEntry, CallPcs
    <3> QED BY <3>1, <3>2, IdleIsCall
  <2>2. op' = [op EXCEPT ![t] = x] /\ conn' = [conn EXCEPT ![s] = "none"] /\ transport' = transport /\ op[t].pc = "closed"
    BY <1>1, <1>5 DEF Disconnected
  <2>3. Tables' /\ conn'[s] = "none" /\ \A z \in Server \ {s} : conn'[z] = conn[z]
    BY <1>0, <1>2, <2>2 DEF McpTypeOK, Tables
  <2>4. FirstLock(s) => transport[s] # "up" BY <1>0, <1>1, <2>2 DEF LockHeld
  <2> HIDE DEF x
  <2> QED BY <1>1, <1>2, <2>1, <2>2, <2>3, <2>4, StepsInsideAlone DEF Inside
<1> QED BY <1>4, <1>5

LEMMA LogFailsStep == ASSUME McpIInv, NEW t \in Task, LogFails(t) PROVE McpIInv'
<1>0. McpTypeOK /\ NeverAdded /\ op[t] \in CallEntry /\ op \in [Task -> CallEntry] BY McpTypes DEF McpIInv
<1>1. PICK s \in Server : s = op[t].server BY <1>0 DEF CallEntry
<1>2. op[t].pc \in {"closed", "logging"} /\ UNCHANGED <<configured, maker, transport, mcpLock, made, checker>>
      /\ made[s] # 0
  BY <1>0, <1>1 DEF LogFails, NeverAdded
<1>3. CASE op[t].pc = "logging" /\ maker[s] = {t} /\ conn[s] = "connected"
  <2>1. conn' = [conn EXCEPT ![s] = "error"] /\ errors' = [errors EXCEPT ![s] = Counted(@)] /\ UNCHANGED op
    BY <1>1, <1>3 DEF LogFails
  <2>2. op' = [op EXCEPT ![t] = op[t]] BY <1>0, <2>1
  <2>3. \A n \in 0 .. RetryCount : Counted(n) \in 0 .. RetryCount BY McpAssumption DEF Counted
  <2>4. errors' \in [Server -> 0 .. RetryCount] BY <1>0, <2>1, <2>3 DEF McpTypeOK
  <2>5. Tables' BY <1>0, <1>2, <2>1, <2>4 DEF McpTypeOK, Tables
  <2>6. conn'[s] = "error" /\ \A z \in Server \ {s} : conn'[z] = conn[z] BY <1>0, <2>1 DEF McpTypeOK
  <2> QED BY <1>0, <1>1, <1>2, <1>3, <2>2, <2>5, <2>6, StepsInsideAlone DEF Inside
<1>4. CASE ~(op[t].pc = "logging" /\ maker[s] = {t} /\ conn[s] = "connected")
  <2>1. op' = [op EXCEPT ![t] = After(t)] /\ UNCHANGED <<conn, errors>> BY <1>1, <1>4 DEF LogFails
  <2>2. errors' \in [Server -> 0 .. RetryCount] BY <1>0, <2>1 DEF McpTypeOK
  <2> QED BY <1>0, <1>1, <1>2, <2>1, <2>2, AfterCall, StepsOut DEF Inside
<1> QED BY <1>3, <1>4

LEMMA ConnectStep == ASSUME McpIInv, NEW t \in Task, ConnectBegins(t) PROVE McpIInv'
<1>0. McpTypeOK /\ NeverAdded /\ op[t] \in CallEntry BY McpTypes DEF McpIInv
<1>1. PICK s \in Server : s = op[t].server BY <1>0 DEF CallEntry
<1>2. op[t].pc = "connecting" /\ Unlocked(s, op[t].lock) /\ UNCHANGED <<configured, mcpLock, made, checker>>
      /\ made[s] # 0
  BY <1>0, <1>1 DEF ConnectBegins, NeverAdded
<1>3. CASE transport[s] # "none"
  <2>1. op' = [op EXCEPT ![t] = After(t)] /\ UNCHANGED <<conn, maker, transport, errors>>
    BY <1>1, <1>3 DEF ConnectBegins
  <2>2. errors' \in [Server -> 0 .. RetryCount] BY <1>0, <2>1 DEF McpTypeOK
  <2> QED BY <1>0, <1>1, <1>2, <2>1, <2>2, AfterCall, StepsOut DEF Inside
<1>4. CASE transport[s] = "none"
  <2> DEFINE x == [op[t] EXCEPT !.pc = "dialing"]
  <2>1. x \in CallEntry /\ x.pc = "dialing" /\ x.server = s /\ x.lock = op[t].lock BY <1>0, <1>1 DEF CallEntry, CallPcs
  <2>2. /\ op' = [op EXCEPT ![t] = x]
        /\ transport' = [transport EXCEPT ![s] = "made"]
        /\ conn' = [conn EXCEPT ![s] = "connecting"] /\ maker' = [maker EXCEPT ![s] = {t}]
        /\ errors' = [errors EXCEPT ![s] = 0]
    BY <1>1, <1>4 DEF ConnectBegins, Goes
  <2>3. Tables'
    <3>1. 0 \in 0 .. RetryCount BY McpAssumption
    <3> QED BY <1>0, <1>2, <2>2, <3>1 DEF McpTypeOK, Tables
  <2>4. /\ transport'[s] = "made" /\ maker'[s] = {t}
        /\ \A z \in Server \ {s} : conn'[z] = conn[z] /\ transport'[z] = transport[z] /\ maker'[z] = maker[z]
    BY <1>0, <2>2 DEF McpTypeOK
  <2> HIDE DEF x
  <2> QED BY <1>1, <1>2, <2>1, <2>2, <2>3, <2>4, StepsInsideAlone DEF Inside
<1> QED BY <1>3, <1>4

LEMMA ConnectedStep == ASSUME McpIInv, NEW t \in Task, ConnectReturns(t) PROVE McpIInv'
<1>0. McpTypeOK /\ LoopsHome /\ LockHeld /\ Attached /\ op[t] \in CallEntry BY McpTypes DEF McpIInv
<1>1. PICK s \in Server : s = op[t].server BY <1>0 DEF CallEntry
<1>2. op[t].pc = "dialing" /\ UNCHANGED <<configured, maker, mcpLock, made>>
      /\ errors' \in [Server -> 0 .. RetryCount]
  <2>1. \A n \in 0 .. RetryCount : Counted(n) \in 0 .. RetryCount BY McpAssumption DEF Counted
  <2>2. 0 \in 0 .. RetryCount /\ errors \in [Server -> 0 .. RetryCount] BY <1>0, McpAssumption DEF McpTypeOK
  <2>3. op[t].pc = "dialing" /\ UNCHANGED <<configured, maker, mcpLock, made>> BY DEF ConnectReturns
  <2>4. \/ errors' = [errors EXCEPT ![s] = IF maker[s] = {t} /\ conn[s] # "none" THEN 0 ELSE @]
        \/ errors' = [errors EXCEPT ![s] = IF maker[s] = {t} /\ conn[s] # "none" THEN Counted(@) ELSE @]
    BY <1>1 DEF ConnectReturns
  <2>5. errors' \in [Server -> 0 .. RetryCount] BY <2>1, <2>2, <2>4
  <2> QED BY <2>3, <2>5
<1> DEFINE ours == maker[s] = {t} /\ conn[s] # "none"
           x == [op[t] EXCEPT !.pc = "logging"]
<1>3. x \in CallEntry /\ x.pc = "logging" /\ x.server = s /\ x.lock = op[t].lock BY <1>0, <1>1 DEF CallEntry, CallPcs
<1>4. FirstLock(s) /\ conn[s] = "connecting" => ours
  <2> SUFFICES ASSUME FirstLock(s), conn[s] = "connecting" PROVE maker[s] = {t}
    OBVIOUS
  <2>1. PICK u \in Task : maker[s] = {u} /\ op[u].server = s /\ op[u].pc = "dialing" BY <1>0 DEF Attached
  <2>2. u = t BY <1>1, <1>2, <2>1, AloneInside DEF Inside
  <2> QED BY <2>1, <2>2
\* What becomes of the connection and the transport, whether it is up or has failed.
<1>5. ASSUME NEW c \in {"connected", "error"}, NEW tr \in {"up", "down"},
             conn' = [conn EXCEPT ![s] = IF ours THEN c ELSE @],
             transport' = [transport EXCEPT ![s] = IF ours /\ @ = "made" THEN tr ELSE @],
             checker' \in [Server -> SUBSET Loop]
      PROVE  /\ Tables'
             /\ \A z \in Server \ {s} : conn'[z] = conn[z] /\ transport'[z] = transport[z] /\ maker'[z] = maker[z]
             /\ FirstLock(s) => (transport'[s] = "up" => conn'[s] # "none") /\ conn'[s] # "connecting"
  <2>1. conn'[s] = (IF ours THEN c ELSE conn[s]) /\ transport'[s] = (IF ours /\ transport[s] = "made" THEN tr ELSE transport[s])
    BY <1>0, <1>5 DEF McpTypeOK
  <2>2. \A z \in Server \ {s} : conn'[z] = conn[z] /\ transport'[z] = transport[z] /\ maker'[z] = maker[z]
    BY <1>0, <1>2, <1>5 DEF McpTypeOK
  <2>3. Tables' BY <1>0, <1>2, <1>5 DEF McpTypeOK, Tables
  <2>4. ASSUME FirstLock(s) PROVE (transport'[s] = "up" => conn'[s] # "none") /\ conn'[s] # "connecting"
    <3>1. CASE ours BY <2>1, <3>1
    <3>2. CASE ~ours BY <1>0, <1>4, <2>1, <2>4, <3>2 DEF Attached
    <3> QED BY <3>1, <3>2
  <2> QED BY <2>2, <2>3, <2>4
<1>6. CASE /\ conn' = [conn EXCEPT ![s] = IF ours THEN "error" ELSE @]
           /\ transport' = [transport EXCEPT ![s] = IF ours /\ @ = "made" THEN "down" ELSE @]
           /\ Goes(t, "logging") /\ UNCHANGED checker
  <2>1. checker' \in [Server -> SUBSET Loop] BY <1>0, <1>6 DEF McpTypeOK
  <2>2. op' = [op EXCEPT ![t] = x] BY <1>6 DEF Goes
  <2>3. /\ Tables'
        /\ \A z \in Server \ {s} : conn'[z] = conn[z] /\ transport'[z] = transport[z] /\ maker'[z] = maker[z]
        /\ FirstLock(s) => (transport'[s] = "up" => conn'[s] # "none") /\ conn'[s] # "connecting"
    BY <1>5, <1>6, <2>1
  <2> HIDE DEF x, ours
  <2> QED BY <1>1, <1>2, <1>3, <1>6, <2>2, <2>3, StepsInsideAlone DEF Inside
<1>7. ASSUME NEW l \in Loop, op[l].pc = "idle", \A z \in Server : l \notin checker[z],
             conn' = [conn EXCEPT ![s] = IF ours THEN "connected" ELSE @],
             transport' = [transport EXCEPT ![s] = IF ours /\ @ = "made" THEN "up" ELSE @],
             checker' = [checker EXCEPT ![s] = {l}],
             op' = [op EXCEPT ![t].pc = "logging", ![l] = [IdleCall EXCEPT !.pc = "sleeping", !.server = s]]
      PROVE  McpIInv'
  <2> DEFINE y == [IdleCall EXCEPT !.pc = "sleeping", !.server = s]
  <2>1. y \in CallEntry /\ y.pc = "sleeping" /\ y.server = s
    <3>1. IdleCall \in CallEntry BY IdleIsCall
    <3> QED BY <3>1 DEF CallEntry, CallPcs
  <2> HIDE DEF y
  <2>2. l # t /\ l \in Task BY <1>2, <1>7 DEF Task
  <2>3. op' = [op EXCEPT ![t].pc = "logging", ![l] = y] BY <1>7 DEF y
  <2>4. op'[t] = x /\ op'[l] = y /\ (\A u \in Task : u # t /\ u # l => op'[u] = op[u]) /\ op' \in [Task -> CallEntry]
    <3> HIDE DEF x
    <3>1. op' = [[op EXCEPT ![t] = x] EXCEPT ![l] = y] BY <2>3 DEF x
    <3>2. op \in [Task -> CallEntry] BY <1>0, McpTypes
    <3> QED BY <1>3, <2>1, <2>2, <3>1, <3>2
  <2>5. checker' \in [Server -> SUBSET Loop] BY <1>0, <1>7 DEF McpTypeOK
  <2>6. /\ Tables'
        /\ \A z \in Server \ {s} : conn'[z] = conn[z] /\ transport'[z] = transport[z] /\ maker'[z] = maker[z]
        /\ FirstLock(s) => (transport'[s] = "up" => conn'[s] # "none") /\ conn'[s] # "connecting"
    BY <1>5, <1>7, <2>5
  <2>7. LoopsHome'
    <3> SUFFICES ASSUME NEW z \in Server, NEW m \in checker'[z] PROVE op'[m].pc = "idle" \/ op'[m].server = z
      BY DEF LoopsHome
    <3>1. CASE m = l
      <4>1. z = s BY <1>0, <1>7, <3>1 DEF McpTypeOK
      <4> QED BY <2>1, <2>4, <3>1, <4>1
    <3>2. CASE m # l
      <4>1. z # s /\ m \in checker[z] /\ m \in Task BY <1>0, <1>7, <3>2 DEF McpTypeOK, Task
      <4>2. op[m].pc = "idle" \/ op[m].server = z BY <1>0, <4>1 DEF LoopsHome
      <4>3. m # t BY <1>1, <1>2, <4>1, <4>2
      <4> QED BY <2>4, <3>2, <4>1, <4>2, <4>3
    <3> QED BY <3>1, <3>2
  <2>8. \A u \in Task :
            \/ u = t
            \/ op'[u] = op[u]
            \/ op[u].pc = "idle" /\ op'[u].pc = "sleeping" /\ op'[u].server = s
    BY <1>7, <2>1, <2>4
  <2> HIDE DEF x, ours
  <2> QED BY <1>1, <1>2, <1>3, <2>4, <2>6, <2>7, <2>8, StepsInside DEF Inside
<1> QED BY <1>1, <1>6, <1>7 DEF ConnectReturns

LEMMA FailStep == ASSUME McpIInv, NEW s \in Server, Fails(s) PROVE McpIInv'
<1>1. McpTypeOK' BY DEF McpIInv, McpTypeOK, Fails
<1>2. \A z \in Server : transport'[z] = transport[z] \/ (transport[z] = "up" /\ transport'[z] = "down")
  BY DEF McpIInv, McpTypeOK, Fails
<1>3. UNCHANGED <<configured, conn, maker, errors, mcpLock, made, checker, op>> BY DEF Fails
<1>4. LockRoom' /\ OneInside' /\ LockKnown' /\ LoopsHome'
  BY <1>3 DEF McpIInv, LockRoom, Adding, OneInside, LockKnown, LoopsHome
<1>5. NeverAdded' BY <1>2, <1>3 DEF McpIInv, NeverAdded
<1>6. LockHeld' BY <1>2, <1>3 DEF McpIInv, LockHeld, FirstLock
<1>7. Attached' BY <1>2, <1>3 DEF McpIInv, Attached, FirstLock
<1> QED BY <1>1, <1>4, <1>5, <1>6, <1>7 DEF McpIInv

LEMMA McpSteps == McpIInv /\ [McpNext]_mcpVars => McpIInv'
<1> SUFFICES ASSUME McpIInv, [McpNext]_mcpVars PROVE McpIInv'
  OBVIOUS
<1>1. CASE UNCHANGED mcpVars
  BY <1>1 DEF mcpVars, McpIInv, McpTypeOK, LockRoom, Adding, OneInside, LockKnown, LoopsHome, NeverAdded,
              LockHeld, Attached, FirstLock
<1>2. CASE McpNext
  <2>1. ASSUME NEW t \in Tool, NEW s \in Server,
               AddServer(t, s) \/ RemoveServer(t, s) \/ CallDisconnect(t, s) \/ CallConnect(t, s)
        PROVE  McpIInv'
    BY <2>1, AddStep, ToolSteps
  <2>2. ASSUME NEW t \in Task, CallSteps(t) PROVE McpIInv'
    BY <2>2, AddEndsStep, RemoveStep, DisconnectStep, ClosingSteps, LogFailsStep, ConnectStep, ConnectedStep, OutsideSteps
       DEF CallSteps
  <2>3. ASSUME NEW l \in Loop, Ping(l) \/ PingEnds(l) \/ Reconnect(l) \/ LoopEnds(l) PROVE McpIInv'
    BY <2>3, OutsideSteps DEF Task
  <2> QED BY <1>2, <2>1, <2>2, <2>3, FailStep DEF McpNext
<1> QED BY <1>1, <1>2

\* Whoever adds, removes, connects and disconnects servers at the same time,
\* the health checks included: who shares a lock is inside one at a time, the
\* servers known are those with a lock, and under its first lock a server's
\* transport that is up has its connection in the table, and a connection being
\* made is in somebody's hands (connect_server, disconnect_server,
\* remove_server, _health_check_loop).
THEOREM McpSafe == McpSpec => []McpInv
<1>1. McpIInv => McpInv
  BY DEF McpIInv, McpInv, OneInside, LockKnown, Attached, FirstLock
<1> QED BY McpStart, McpSteps, <1>1, PTL DEF McpSpec
=============================================================================
