------------------------ MODULE CheckpointManager_proofs -------------------
(***************************************************************************)
(* What the content-addressable storage, and the checkpoint manager that   *)
(* uses it, keep true for every number of workers, hashes, checkpoints and *)
(* crashes.                                                                *)
(***************************************************************************)
EXTENDS CheckpointManager, TLAPS

\* The conjunction that is inductive without any assumption on the schedule.
LockInv == StoreTypeOK /\ LockIsSaving /\ IndexIsDurable

LEMMA LockInit == StoreInit => LockInv
  <1> SUFFICES ASSUME StoreInit PROVE LockInv
    OBVIOUS
  <1> DEFINE h0 == CHOOSE h \in Hash : TRUE
  <1>1. h0 \in Hash
    BY StoreAssumption
  <1>2. arg = [w \in Worker |-> h0]
    BY DEF StoreInit
  <1> HIDE DEF h0
  <1>3. StoreTypeOK
    BY <1>1, <1>2, StoreAssumption DEF StoreInit, StoreTypeOK, Busy, Storing, Retrieving, Sweeping
  <1>4. LockIsSaving /\ IndexIsDurable
    BY StoreAssumption DEF StoreInit, LockIsSaving, IndexIsDurable
  <1> QED
    BY <1>3, <1>4 DEF LockInv

LEMMA LockStep == LockInv /\ [StoreNext]_storeVars => LockInv'
  <1> SUFFICES ASSUME LockInv, [StoreNext]_storeVars PROVE LockInv'
    OBVIOUS
  <1> USE StoreAssumption DEF LockInv, StoreTypeOK, LockIsSaving, IndexIsDurable, At, Goto, Return,
          Busy, Storing, Retrieving, Sweeping
  <1>1. ASSUME NEW w \in Worker, NEW h \in Hash, StoreHit(w, h) PROVE LockInv'
    BY <1>1 DEF StoreHit
  <1>2. ASSUME NEW w \in Worker, NEW h \in Hash, StoreMiss(w, h) PROVE LockInv'
    BY <1>2 DEF StoreMiss
  <1>3. ASSUME NEW w \in Worker, NEW h \in Hash, RetrieveCheck(w, h) PROVE LockInv'
    BY <1>3 DEF RetrieveCheck
  <1>4. ASSUME NEW w \in Worker, NEW h \in Hash, DeletePop(w, h) PROVE LockInv'
    BY <1>4 DEF DeletePop
  <1>5. ASSUME NEW w \in Worker, StoreOpen(w) PROVE LockInv'
    BY <1>5 DEF StoreOpen
  <1>6. ASSUME NEW w \in Worker, StoreWrite(w) PROVE LockInv'
    BY <1>6 DEF StoreWrite
  <1>7. ASSUME NEW w \in Worker, StoreIndex(w) PROVE LockInv'
    BY <1>7 DEF StoreIndex
  <1>8. ASSUME NEW w \in Worker, StoreSaved(w) PROVE LockInv'
    BY <1>8 DEF StoreSaved
  <1>9. ASSUME NEW w \in Worker, SweepEnd(w) PROVE LockInv'
    BY <1>9 DEF SweepEnd
  <1>10. ASSUME NEW w \in Worker, DeleteFile(w) PROVE LockInv'
    BY <1>10 DEF DeleteFile
  <1>11. ASSUME NEW w \in Worker, DeleteSave(w) PROVE LockInv'
    BY <1>11 DEF DeleteSave
  <1>12. ASSUME NEW w \in Worker, DeleteSaved(w) PROVE LockInv'
    BY <1>12 DEF DeleteSaved
  <1>13. ASSUME NEW w \in Worker, RetrieveProbe(w) PROVE LockInv'
    BY <1>13 DEF RetrieveProbe
  <1>14. ASSUME NEW w \in Worker, RetrieveRead(w) PROVE LockInv'
    BY <1>14 DEF RetrieveRead
  <1>15. ASSUME NEW w \in Worker, RetrieveHeal(w) PROVE LockInv'
    BY <1>15 DEF RetrieveHeal
  <1>16. ASSUME NEW w \in Worker, RetrieveHealed(w) PROVE LockInv'
    BY <1>16 DEF RetrieveHealed
  <1>17. ASSUME NEW w \in Worker, NEW keep \in SUBSET Hash, SweepStart(w, keep) PROVE LockInv'
    BY <1>17 DEF SweepStart
  <1>18. CASE StoreCrash
    BY <1>18 DEF StoreCrash
  <1>19. CASE UNCHANGED storeVars
    BY <1>19 DEF storeVars
  <1> QED
    BY <1>1, <1>2, <1>3, <1>4, <1>5, <1>6, <1>7, <1>8, <1>9, <1>10, <1>11, <1>12, <1>13, <1>14, <1>15, <1>16, <1>17, <1>18, <1>19
       DEF StoreNext, StoreStep, SweepStep, RetrieveStep

\* The state of the storage always has its types.
THEOREM StoreTypeCorrect == StoreSpec => []StoreTypeOK
  <1>1. LockInv => StoreTypeOK
    BY DEF LockInv
  <1> QED
    BY <1>1, LockInit, LockStep, PTL DEF StoreSpec

\* While nobody saves the index, every hash in it is in index.json: the hash
\* that store() returns, a dedup hit too, is known after a restart.
THEOREM Durability == StoreSpec => []IndexIsDurable
  <1>1. LockInv => IndexIsDurable
    BY DEF LockInv
  <1> QED
    BY <1>1, LockInit, LockStep, PTL DEF StoreSpec

-----------------------------------------------------------------------------
(* gc() undisturbed, and no two workers storing the same content at a time *)

\* What a worker may rely on between two suspensions.
OneSweeper == \A w \in Worker : pc[w] \in Sweeping => \A v \in Worker \ {w} : pc[v] = "idle"
StorerOwns ==
    \A w \in Worker : pc[w] \in Storing => \A v \in Worker \ {w} : pc[v] \in Storing => arg[v] # arg[w]

Unpublished == \A w \in Worker : pc[w] \in {"opening", "writing", "indexing"} => arg[w] \notin index \cup diskIndex
Written == \A w \in Worker : pc[w] \in {"indexing", "storeSaving"} => file[arg[w]] = "full"
Popped == \A w \in Worker : pc[w] \in {"removing", "deleteSave", "deleteSaving"} => arg[w] \notin index
NoHealing == \A w \in Worker : pc[w] \notin {"healing", "healSaving"}
ReaderFinds == \A w \in Worker : pc[w] \in Retrieving => arg[w] \in index
DiskBehind == NoneAt({"removing", "deleteSave", "deleteSaving"}) => diskIndex \subseteq index

QuietInv ==
    /\ LockInv
    /\ OneSweeper /\ StorerOwns /\ Unpublished /\ Written /\ Popped
    /\ NoHealing /\ ReaderFinds /\ DiskBehind
    /\ StoredStaysIntact

Quiet == QuietGC /\ ~SharedContent

LEMMA QuietInit == StoreInit => QuietInv
  <1> SUFFICES ASSUME StoreInit PROVE QuietInv
    OBVIOUS
  <1>1. LockInv
    BY LockInit
  <1> QED
    BY <1>1 DEF QuietInv, StoreInit, OneSweeper, StorerOwns, Unpublished, Written, Popped,
       NoHealing, ReaderFinds, DiskBehind, StoredStaysIntact, Storing, Retrieving, Sweeping

LEMMA QuietStep == ASSUME Quiet PROVE QuietInv /\ [StoreNext]_storeVars => QuietInv'
  <1> SUFFICES ASSUME QuietInv, [StoreNext]_storeVars PROVE QuietInv'
    OBVIOUS
  <1>0. LockInv'
    BY LockStep DEF QuietInv
  <1> USE <1>0, StoreAssumption
      DEF QuietInv, LockInv, StoreTypeOK, LockIsSaving, At, Goto, Return, NoneAt,
          OneSweeper, StorerOwns, Unpublished, Written, Popped, NoHealing, ReaderFinds, DiskBehind,
          StoredStaysIntact, Busy, Storing, Retrieving, Sweeping, Quiet
  <1>1. ASSUME NEW w \in Worker, NEW h \in Hash, StoreHit(w, h) PROVE QuietInv'
    BY <1>1 DEF StoreHit
  <1>2. ASSUME NEW w \in Worker, NEW h \in Hash, StoreMiss(w, h) PROVE QuietInv'
    BY <1>2 DEF StoreMiss
  <1>3. ASSUME NEW w \in Worker, NEW h \in Hash, RetrieveCheck(w, h) PROVE QuietInv'
    BY <1>3 DEF RetrieveCheck
  <1>4. ASSUME NEW w \in Worker, NEW h \in Hash, DeletePop(w, h) PROVE QuietInv'
    BY <1>4 DEF DeletePop
  <1>5. ASSUME NEW w \in Worker, StoreOpen(w) PROVE QuietInv'
    BY <1>5 DEF StoreOpen
  <1>6. ASSUME NEW w \in Worker, StoreWrite(w) PROVE QuietInv'
    BY <1>6 DEF StoreWrite
  <1>7. ASSUME NEW w \in Worker, StoreIndex(w) PROVE QuietInv'
    BY <1>7 DEF StoreIndex
  <1>8. ASSUME NEW w \in Worker, StoreSaved(w) PROVE QuietInv'
    BY <1>8 DEF StoreSaved
  <1>9. ASSUME NEW w \in Worker, SweepEnd(w) PROVE QuietInv'
    BY <1>9 DEF SweepEnd
  <1>10. ASSUME NEW w \in Worker, DeleteFile(w) PROVE QuietInv'
    BY <1>10 DEF DeleteFile
  <1>11. ASSUME NEW w \in Worker, DeleteSave(w) PROVE QuietInv'
    BY <1>11 DEF DeleteSave
  <1>12. ASSUME NEW w \in Worker, DeleteSaved(w) PROVE QuietInv'
    BY <1>12 DEF DeleteSaved
  <1>13. ASSUME NEW w \in Worker, RetrieveProbe(w) PROVE QuietInv'
    BY <1>13 DEF RetrieveProbe
  <1>14. ASSUME NEW w \in Worker, RetrieveRead(w) PROVE QuietInv'
    BY <1>14 DEF RetrieveRead
  <1>15. ASSUME NEW w \in Worker, RetrieveHeal(w) PROVE QuietInv'
    BY <1>15 DEF RetrieveHeal
  <1>16. ASSUME NEW w \in Worker, RetrieveHealed(w) PROVE QuietInv'
    BY <1>16 DEF RetrieveHealed
  <1>17. ASSUME NEW w \in Worker, NEW keep \in SUBSET Hash, SweepStart(w, keep) PROVE QuietInv'
    BY <1>17 DEF SweepStart
  <1>18. CASE StoreCrash
    BY <1>18 DEF StoreCrash
  <1>19. CASE UNCHANGED storeVars
    BY <1>19 DEF storeVars
  <1> QED
    BY <1>1, <1>2, <1>3, <1>4, <1>5, <1>6, <1>7, <1>8, <1>9, <1>10, <1>11, <1>12, <1>13, <1>14, <1>15, <1>16, <1>17, <1>18, <1>19
       DEF StoreNext, StoreStep, SweepStep, RetrieveStep

\* With gc() undisturbed and no two workers storing the same content, an
\* indexed object is intact whatever else interleaves, through every crash.
THEOREM Intact == ASSUME Quiet PROVE StoreSpec => []StoredStaysIntact
  <1>1. QuietInv => StoredStaysIntact
    BY DEF QuietInv
  <1> QED
    BY <1>1, QuietInit, QuietStep, PTL DEF StoreSpec
-----------------------------------------------------------------------------
(* The checkpoint manager on top of the storage *)

\* Who is inside the storage is inside the call that uses it, for one of the
\* call's files.
CallOwnsStep ==
    \A w \in Worker :
        /\ pc[w] \in Storing => call[w] = "create" /\ arg[w] \in todo[w]
        /\ pc[w] \in Retrieving => call[w] = "restore" /\ arg[w] \in todo[w]
        /\ pc[w] \in Sweeping => call[w] = "gc"

RestoreNamesOne == \A w \in Worker : call[w] = "restore" => base[w] \in Id

\* The conjunction that is inductive without any assumption on the schedule.
CallInv ==
    /\ TypeOK /\ LockInv
    /\ todo \in [Worker -> SUBSET Hash] /\ got \in [Worker -> SUBSET Hash]
    /\ CallOwnsStep /\ RestoreNamesOne /\ HeadUnlessEmpty

LEMMA CallStart == Init => CallInv
<1> SUFFICES ASSUME Init PROVE CallInv
  OBVIOUS
<1>1. LockInv BY LockInit DEF Init
<1>2. TypeOK /\ todo \in [Worker -> SUBSET Hash] /\ got \in [Worker -> SUBSET Hash]
  BY <1>1 DEF Init, CallInit, TypeOK, LockInv
<1>3. CallOwnsStep /\ RestoreNamesOne /\ HeadUnlessEmpty
  BY DEF Init, CallInit, StoreInit, CallOwnsStep, RestoreNamesOne, HeadUnlessEmpty, Storing, Retrieving, Sweeping
<1> QED BY <1>1, <1>2, <1>3 DEF CallInv

\* Every step keeps it, and is a step of the storage.
LEMMA CallStep == ASSUME CallInv, [Next]_vars PROVE CallInv' /\ [StoreNext]_storeVars
<1> USE DEF CallInv, TypeOK, CallOwnsStep, RestoreNamesOne, HeadUnlessEmpty,
            callVars, tableVars, At, Goto
<1> DEFINE Kept == /\ live' \subseteq Id /\ dead' \subseteq Id \ live'
                   /\ files' \in [Id -> SUBSET Hash] /\ parent' \in [Id -> Id \cup {NoId}]
                   /\ head' \in Id \cup {NoId}
                   /\ call' \in [Worker -> {"none", "create", "restore", "gc"}]
                   /\ base' \in [Worker -> Id \cup {NoId}]
                   /\ want' \in [Worker -> SUBSET Hash]
                   /\ \A w \in Worker : todo'[w] \subseteq want'[w] /\ got'[w] \subseteq want'[w]
                   /\ result' \in [Worker -> {"none", "created", "restored", "failed"}]
                   /\ todo' \in [Worker -> SUBSET Hash] /\ got' \in [Worker -> SUBSET Hash]
                   /\ CallOwnsStep' /\ RestoreNamesOne' /\ HeadUnlessEmpty'
           Goal == Kept /\ [StoreNext]_storeVars
<1> SUFFICES Goal
  <2>1. LockInv' BY LockStep, Goal
  <2> QED BY <2>1, Goal DEF LockInv
<1>1. ASSUME NEW w \in Worker, NEW S \in SUBSET Hash, CallCreate(w, S) PROVE Goal
  BY <1>1 DEF CallCreate, Enter, storeVars, Storing, Retrieving, Sweeping
<1>2. ASSUME NEW w \in Worker, NEW i \in Id, CallRestore(w, i) PROVE Goal
  BY <1>2 DEF CallRestore, Enter, storeVars, Storing, Retrieving, Sweeping
<1>3. ASSUME NEW w \in Worker, CallGC(w) PROVE Goal
  BY <1>3 DEF CallGC, Enter, Referenced, storeVars, Storing, Retrieving, Sweeping
<1>4. ASSUME NEW w \in Worker, CreateStep(w) PROVE Goal
  <2> USE DEF StoreNext, StoreStep, LockInv, StoreTypeOK, Storing, Retrieving, Sweeping
  <2>1. ASSUME pc' \in [Worker -> Busy \cup {"idle"}], arg' \in [Worker -> Hash], StoreReturned(w), pc'[w] = "idle",
               \A v \in Worker \ {w} : pc'[v] = pc[v] /\ arg'[v] = arg[v]
        PROVE  Kept
    <3>1. /\ todo' \in [Worker -> SUBSET Hash] /\ UNCHANGED <<base, want, got>>
          /\ \A v \in Worker : todo'[v] \subseteq todo[v]
          /\ \A v \in Worker \ {w} : todo'[v] = todo[v]
      BY <2>1 DEF StoreReturned
    <3>2. CASE Leave(w, "failed") /\ UNCHANGED tableVars BY <1>4, <2>1, <3>1, <3>2 DEF Leave, CreateStep
    <3>3. CASE GoOn BY <1>4, <2>1, <3>1, <3>3 DEF GoOn, CreateStep
    <3>4. CASE Commit(w)
      <4>1. PICK i \in Fresh : /\ live' = live \cup {i} /\ head' = i /\ UNCHANGED dead /\ Leave(w, "created")
                               /\ files' = [files EXCEPT ![i] = want[w]]
                               /\ parent' = [parent EXCEPT ![i] = base[w]]
        BY <3>4 DEF Commit
      <4>2. i \in Id /\ i \notin dead /\ i # NoId BY CheckpointAssumption DEF Fresh
      <4> QED BY <1>4, <2>1, <3>1, <4>1, <4>2 DEF Leave, CreateStep
    <3> QED BY <2>1, <3>2, <3>3, <3>4 DEF StoreReturned
  <2>2. ASSUME NEW h \in todo[w], StoreMiss(w, h), UNCHANGED <<callVars, tableVars>> PROVE Goal
    <3>1. h \in Hash OBVIOUS
    <3> QED BY <1>4, <2>2, <3>1 DEF StoreMiss, CreateStep
  <2>3. ASSUME NEW h \in todo[w], StoreHit(w, h), StoreReturned(w) PROVE Goal
    <3>1. h \in Hash OBVIOUS
    <3>2. Kept BY <2>1, <2>3, <3>1 DEF StoreHit
    <3> QED BY <2>3, <3>1, <3>2
  <2>4. CASE (StoreOpen(w) \/ StoreWrite(w) \/ StoreIndex(w)) /\ UNCHANGED <<callVars, tableVars>>
    <3>0. call[w] = "create" BY <1>4 DEF CreateStep
    <3>1. CASE StoreOpen(w) BY <2>4, <3>0, <3>1 DEF StoreOpen
    <3>2. CASE StoreWrite(w) BY <2>4, <3>0, <3>2 DEF StoreWrite
    <3>3. CASE StoreIndex(w) BY <2>4, <3>0, <3>3 DEF StoreIndex
    <3> QED BY <2>4, <3>1, <3>2, <3>3
  <2>5. CASE StoreSaved(w) /\ StoreReturned(w)
    <3>1. Kept BY <2>1, <2>5 DEF StoreSaved
    <3> QED BY <2>5, <3>1
  <2> QED BY <1>4, <2>2, <2>3, <2>4, <2>5 DEF CreateStep
<1>5. ASSUME NEW w \in Worker, RestoreStep(w) PROVE Goal
  <2> USE DEF StoreNext, RetrieveStep, LockInv, StoreTypeOK, Storing, Retrieving, Sweeping
  <2>0. call[w] = "restore" /\ base[w] \in Id BY <1>5 DEF RestoreStep
  <2>1. ASSUME pc' \in [Worker -> Busy \cup {"idle"}], arg' \in [Worker -> Hash], RetrieveReturned(w),
               arg'[w] \in want[w], pc'[w] = "idle",
               \A v \in Worker \ {w} : pc'[v] = pc[v] /\ arg'[v] = arg[v]
        PROVE  Kept
    <3>1. /\ todo' \in [Worker -> SUBSET Hash] /\ got' \in [Worker -> SUBSET Hash] /\ UNCHANGED <<base, want>>
          /\ \A v \in Worker : todo'[v] \subseteq todo[v] /\ got'[v] \subseteq want[v]
          /\ \A v \in Worker \ {w} : todo'[v] = todo[v]
      BY <2>1 DEF RetrieveReturned
    <3>2. CASE Leave(w, "failed") /\ UNCHANGED tableVars BY <2>0, <2>1, <3>1, <3>2 DEF Leave
    <3>3. CASE GoOn BY <2>0, <2>1, <3>1, <3>3 DEF GoOn
    <3>4. CASE Restored(w) BY <2>0, <2>1, <3>1, <3>4, CheckpointAssumption DEF Restored, Leave
    <3> QED BY <2>1, <3>2, <3>3, <3>4 DEF RetrieveReturned
  <2>2. ASSUME NEW h \in todo[w], RetrieveCheck(w, h),
               IF h \in index THEN UNCHANGED <<callVars, tableVars>> ELSE RetrieveReturned(w)
        PROVE  Goal
    <3>1. h \in Hash /\ h \in want[w] OBVIOUS
    <3>2. CASE h \in index
      <4>1. Kept BY <2>0, <2>2, <3>1, <3>2 DEF RetrieveCheck
      <4> QED BY <2>2, <3>1, <4>1
    <3>3. CASE h \notin index
      <4>1. Kept BY <2>1, <2>2, <3>1, <3>3 DEF RetrieveCheck
      <4> QED BY <2>2, <3>1, <4>1
    <3> QED BY <3>2, <3>3
  <2>3. CASE (RetrieveProbe(w) \/ RetrieveHeal(w)) /\ UNCHANGED <<callVars, tableVars>>
    BY <2>0, <2>3 DEF RetrieveProbe, RetrieveHeal
  <2>4. CASE (RetrieveRead(w) \/ RetrieveHealed(w)) /\ RetrieveReturned(w)
    <3>1. arg[w] \in want[w] /\ UNCHANGED arg BY <2>4 DEF RetrieveRead, RetrieveHealed
    <3>2. Kept BY <2>1, <2>4, <3>1 DEF RetrieveRead, RetrieveHealed
    <3> QED BY <2>4, <3>2
  <2> QED BY <1>5, <2>2, <2>3, <2>4 DEF RestoreStep
<1>6. ASSUME NEW w \in Worker, GCStep(w) PROVE Goal
  <2> USE DEF StoreNext, SweepStep, LockInv, StoreTypeOK, Storing, Retrieving, Sweeping
  <2>0. call[w] = "gc" BY <1>6 DEF GCStep
  <2>1. CASE /\ SweepStart(w, want[w]) /\ todo' = [todo EXCEPT ![w] = {}]
             /\ UNCHANGED <<call, base, want, got, result, tableVars>>
    <3>1. want[w] \in SUBSET Hash OBVIOUS
    <3> QED BY <2>0, <2>1, <3>1 DEF SweepStart
  <2>2. CASE /\ (\E h \in Hash : DeletePop(w, h)) \/ DeleteFile(w) \/ DeleteSave(w) \/ DeleteSaved(w)
             /\ UNCHANGED <<callVars, tableVars>>
    <3>1. ASSUME NEW h \in Hash, DeletePop(w, h) PROVE Goal
      <4>1. (\A v \in Worker \ {w} : pc'[v] = pc[v]) /\ pc'[w] \in {"sweeping", "removing"}
        BY <3>1 DEF DeletePop
      <4>2. UNCHANGED <<callVars, tableVars>> /\ \A v \in Worker \ {w} : arg'[v] = arg[v]
        BY <2>2, <3>1 DEF DeletePop
      <4>3. pc[w] = "sweeping" BY <3>1 DEF DeletePop
      <4>4. Kept BY <2>0, <4>1, <4>2, <4>3
      <4> QED BY <3>1, <4>4
    <3>2. CASE DeleteFile(w) BY <2>0, <2>2, <3>2 DEF DeleteFile
    <3>3. CASE DeleteSave(w) BY <2>0, <2>2, <3>3 DEF DeleteSave
    <3>4. CASE DeleteSaved(w) BY <2>0, <2>2, <3>4 DEF DeleteSaved
    <3> QED BY <2>2, <3>1, <3>2, <3>3, <3>4
  <2>3. CASE SweepEnd(w) /\ Leave(w, "none") /\ UNCHANGED <<base, want, todo, got, tableVars>>
    BY <2>0, <2>3 DEF SweepEnd, Leave
  <2> QED BY <1>6, <2>1, <2>2, <2>3 DEF GCStep
<1>7. ASSUME NEW i \in Id, Delete(i) PROVE Goal
  <2>1. Kept BY <1>7, CheckpointAssumption DEF Delete, storeVars
  <2> QED BY <1>7, <2>1 DEF Delete
<1>8. CASE Crash
  <2>1. Kept BY <1>8, CheckpointAssumption DEF Crash, StoreCrash, Storing, Retrieving, Sweeping
  <2> QED BY <1>8, <2>1 DEF Crash, StoreNext
<1>9. CASE UNCHANGED vars BY <1>9 DEF vars, storeVars
<1> QED BY <1>1, <1>2, <1>3, <1>4, <1>5, <1>6, <1>7, <1>8, <1>9 DEF Next

\* What each call in progress relies on, and that HEAD is set while checkpoints
\* are left, whatever interleaves: the inductive invariant without any
\* assumption on the schedule.
THEOREM CallInvariant == Spec => []CallInv
<1>1. CallInv /\ [Next]_vars => CallInv' BY CallStep
<1> QED BY <1>1, CallStart, PTL DEF Spec

\* The tables of checkpoints, the calls and the storage keep their types.
THEOREM CheckpointTypeCorrect == Spec => []TypeOK
<1>1. CallInv => TypeOK BY DEF CallInv
<1> QED BY <1>1, CallInvariant, PTL

\* HEAD is unset only when no checkpoint is left, whatever creates, restores,
\* deletions, collections and crashes interleave.
THEOREM HeadIsSet == Spec => []HeadUnlessEmpty
<1>1. CallInv => HeadUnlessEmpty BY DEF CallInv
<1> QED BY <1>1, CallInvariant, PTL

\* What the manager does to the storage is what the storage's specification
\* allows.
THEOREM ManagerUsesStore == Spec => StoreSpec
<1>1. Init => StoreInit BY DEF Init
<1>2. CallInv /\ [Next]_vars => [StoreNext]_storeVars BY CallStep
<1> QED BY <1>1, <1>2, CallInvariant, PTL DEF Spec, StoreSpec

-----------------------------------------------------------------------------
(* Checkpoints keep their content, with gc() undisturbed and no two creates *)
(* storing the same content at a time                                       *)

\* Every file of every checkpoint is indexed, in memory and on disk.
FilesIndexed == \A i \in live : files[i] \subseteq index \cap diskIndex

\* gc() has the manager for itself, keeps what any checkpoint refers to, and
\* will remove nothing of that.
GCKeeps ==
    \A w \in Worker : call[w] = "gc" =>
        /\ \A v \in Worker \ {w} : call[v] = "none"
        /\ \A i \in live : files[i] \subseteq want[w]
        /\ pc[w] \in Sweeping => sweep[w] \cap want[w] = {}

\* What a create no longer has to store is indexed.
CreateStored ==
    \A w \in Worker :
        /\ call[w] = "create" => want[w] \ todo[w] \subseteq index
        /\ pc[w] = "storeSaving" => arg[w] \in index

\* A restore is of a checkpoint that was there, and has read what it no longer
\* has to read, unless the checkpoint has been deleted meanwhile.
RestoreRead ==
    \A w \in Worker :
        /\ call[w] = "restore" \/ result[w] = "restored" => base[w] \in live \cup dead
        /\ call[w] = "restore" /\ base[w] \in live =>
              want[w] = files[base[w]] /\ (want[w] \ todo[w]) \ Empty \subseteq got[w]

CheckpointInv ==
    /\ CallInv /\ QuietInv
    /\ FilesIndexed /\ GCKeeps /\ CreateStored /\ RestoreRead /\ RestoredIsIntact


LEMMA CheckpointStart == Init => CheckpointInv
<1> SUFFICES ASSUME Init PROVE CheckpointInv
  OBVIOUS
<1>1. CallInv /\ QuietInv BY CallStart, QuietInit DEF Init
<1>2. FilesIndexed /\ GCKeeps /\ CreateStored /\ RestoreRead /\ RestoredIsIntact
  BY DEF Init, CallInit, StoreInit, FilesIndexed, GCKeeps, CreateStored, RestoreRead, RestoredIsIntact
<1> QED BY <1>1, <1>2 DEF CheckpointInv

LEMMA CheckpointStep == ASSUME Quiet, CheckpointInv, [Next]_vars PROVE CheckpointInv'
<1>0. CallInv' /\ QuietInv' BY CallStep, QuietStep DEF CheckpointInv
<1> USE DEF CheckpointInv, CallInv, TypeOK, CallOwnsStep, LockInv, StoreTypeOK, callVars, tableVars, At, Goto,
            FilesIndexed, GCKeeps, CreateStored, RestoreRead, RestoredIsIntact
<1> DEFINE Kept == FilesIndexed' /\ GCKeeps' /\ CreateStored' /\ RestoreRead' /\ RestoredIsIntact'
<1> SUFFICES Kept BY <1>0
<1>n. QuietGC BY DEF Quiet
<1>1. ASSUME NEW w \in Worker, NEW S \in SUBSET Hash, CallCreate(w, S) PROVE Kept
  BY <1>1, <1>n DEF CallCreate, Enter, InCall, storeVars
<1>2. ASSUME NEW w \in Worker, NEW i \in Id, CallRestore(w, i) PROVE Kept
  BY <1>2, <1>n DEF CallRestore, Enter, InCall, storeVars
<1>3. ASSUME NEW w \in Worker, CallGC(w) PROVE Kept
  BY <1>3, <1>n DEF CallGC, Enter, InCall, Referenced, storeVars, Sweeping
<1>4. ASSUME NEW w \in Worker, CreateStep(w) PROVE Kept
  <2>0. /\ call[w] = "create" /\ \A v \in Worker : call[v] # "gc" /\ pc[v] \notin Sweeping
    BY <1>4 DEF CreateStep
  <2>1. ASSUME index \subseteq index', StoreReturned(w), UNCHANGED <<crashes>>,
               \A i \in live : files[i] \subseteq diskIndex',
               outcome'[w] = "stored" => index' \subseteq diskIndex',
               arg'[w] \in index', pc'[w] = "idle", \A v \in Worker \ {w} : pc'[v] = pc[v] /\ arg'[v] = arg[v]
        PROVE  Kept
    <3>1. /\ UNCHANGED <<base, want, got>> /\ \A v \in Worker \ {w} : todo'[v] = todo[v]
          /\ todo'[w] = todo[w] \ {arg'[w]}
      BY <2>1 DEF StoreReturned
    <3>2. want[w] \ todo'[w] \subseteq index' BY <2>0, <2>1, <3>1
    <3>3. CASE Leave(w, "failed") /\ UNCHANGED tableVars
      BY <2>0, <2>1, <3>1, <3>3 DEF Leave
    <3>4. CASE GoOn
      BY <2>0, <2>1, <3>1, <3>2, <3>4 DEF GoOn
    <3>5. CASE outcome'[w] = "stored" /\ todo'[w] = {} /\ Commit(w)
      <4>1. PICK i \in Fresh : /\ live' = live \cup {i} /\ UNCHANGED dead /\ Leave(w, "created")
                               /\ files' = [files EXCEPT ![i] = want[w]]
        BY <3>5 DEF Commit
      <4>2. i \in Id /\ i \notin live \cup dead BY DEF Fresh
      <4>3. FilesIndexed' BY <2>1, <3>2, <3>5, <4>1, <4>2
      <4>4. GCKeeps' /\ CreateStored' BY <2>0, <2>1, <3>1, <4>1 DEF Leave
      <4>5. RestoreRead' /\ RestoredIsIntact' BY <2>0, <3>1, <4>1, <4>2 DEF Leave
      <4> QED BY <4>3, <4>4, <4>5
    <3> QED BY <2>1, <3>3, <3>4, <3>5 DEF StoreReturned
  <2>2. ASSUME NEW h \in todo[w], StoreMiss(w, h), UNCHANGED <<callVars, tableVars>> PROVE Kept
    BY <2>0, <2>2 DEF StoreMiss
  <2>3. ASSUME NEW h \in todo[w], StoreHit(w, h), StoreReturned(w) PROVE Kept
    BY <2>0, <2>1, <2>3 DEF StoreHit, IndexIsDurable
  <2>4. CASE (StoreOpen(w) \/ StoreWrite(w)) /\ UNCHANGED <<callVars, tableVars>>
    BY <2>0, <2>4 DEF StoreOpen, StoreWrite
  <2>5. CASE StoreIndex(w) /\ UNCHANGED <<callVars, tableVars>>
    BY <2>0, <2>5 DEF StoreIndex
  <2>6. CASE StoreSaved(w) /\ StoreReturned(w)
    BY <2>0, <2>1, <2>6 DEF StoreSaved
  <2> QED BY <1>4, <2>2, <2>3, <2>4, <2>5, <2>6 DEF CreateStep
<1>5. ASSUME NEW w \in Worker, RestoreStep(w) PROVE Kept
  <2>0. /\ call[w] = "restore" /\ \A v \in Worker : call[v] # "gc" /\ pc[v] \notin Sweeping
        /\ base[w] \in live \cup dead
    BY <1>5 DEF RestoreStep
  <2>1. ASSUME UNCHANGED <<index, diskIndex>>, RetrieveReturned(w), pc'[w] = "idle",
               \A v \in Worker \ {w} : pc'[v] = pc[v] /\ arg'[v] = arg[v],
               base[w] \in live => outcome'[w] \in {"found", "raised"}
        PROVE  Kept
    <3>1. /\ UNCHANGED <<base, want>> /\ \A v \in Worker \ {w} : todo'[v] = todo[v] /\ got'[v] = got[v]
          /\ todo'[w] = todo[w] \ {arg'[w]}
          /\ outcome'[w] = "found" => got'[w] \cup Empty = got[w] \cup {arg'[w]} \cup Empty
      BY <2>1 DEF RetrieveReturned
    <3>2. CASE Leave(w, "failed") /\ UNCHANGED tableVars
      BY <2>0, <2>1, <3>1, <3>2 DEF Leave
    <3>3. outcome'[w] # "raised" /\ base[w] \in live =>
             want[w] = files[base[w]] /\ (want[w] \ todo'[w]) \ Empty \subseteq got'[w]
      BY <2>0, <2>1, <3>1
    <3>4. CASE outcome'[w] # "raised" /\ GoOn
      BY <2>0, <2>1, <3>1, <3>3, <3>4 DEF GoOn
    <3>5. CASE outcome'[w] # "raised" /\ todo'[w] = {} /\ Restored(w)
      BY <2>0, <2>1, <3>1, <3>3, <3>5 DEF Restored, Leave
    <3> QED BY <2>1, <3>2, <3>4, <3>5 DEF RetrieveReturned
  <2>2. ASSUME NEW h \in todo[w], RetrieveCheck(w, h),
               IF h \in index THEN UNCHANGED <<callVars, tableVars>> ELSE RetrieveReturned(w)
        PROVE  Kept
    <3>1. CASE h \in index BY <2>0, <2>2, <3>1 DEF RetrieveCheck
    <3>2. CASE h \notin index
      <4>1. base[w] \notin live BY <2>0, <3>2
      <4> QED BY <2>1, <2>2, <3>2, <4>1 DEF RetrieveCheck
    <3> QED BY <3>1, <3>2
  <2>3. CASE (RetrieveProbe(w) \/ RetrieveHeal(w)) /\ UNCHANGED <<callVars, tableVars>>
    <3>1. ~RetrieveHeal(w) BY DEF QuietInv, NoHealing, RetrieveHeal
    <3> QED BY <2>0, <2>3, <3>1 DEF RetrieveProbe
  <2>4. CASE (RetrieveRead(w) \/ RetrieveHealed(w)) /\ RetrieveReturned(w)
    <3>1. RetrieveRead(w) BY <2>4 DEF QuietInv, NoHealing, RetrieveHealed
    <3>2. outcome'[w] \in {"found", "raised"} BY <3>1 DEF RetrieveRead, Return
    <3> QED BY <2>1, <2>4, <3>1, <3>2 DEF RetrieveRead
  <2> QED BY <1>5, <2>2, <2>3, <2>4 DEF RestoreStep
<1>6. ASSUME NEW w \in Worker, GCStep(w) PROVE Kept
  <2>0. call[w] = "gc" /\ (\A v \in Worker \ {w} : call[v] = "none") /\ pc[w] # "storeSaving"
    BY <1>6 DEF GCStep, Storing
  <2>1. CASE /\ SweepStart(w, want[w]) /\ todo' = [todo EXCEPT ![w] = {}]
             /\ UNCHANGED <<call, base, want, got, result, tableVars>>
    BY <2>0, <2>1 DEF SweepStart
  <2>2. ASSUME NEW h \in Hash, DeletePop(w, h), UNCHANGED <<callVars, tableVars>> PROVE Kept
    <3>1. pc[w] \in Sweeping /\ h \in sweep[w] /\ index' = index \ {h} /\ UNCHANGED diskIndex
      BY <2>2 DEF DeletePop, Sweeping
    <3>2. FilesIndexed' BY <2>0, <2>2, <3>1
    <3>3. sweep'[w] \subseteq sweep[w] /\ (\A v \in Worker \ {w} : pc'[v] = pc[v]) /\ pc'[w] # "storeSaving"
      BY <2>0, <2>2 DEF DeletePop
    <3>4. GCKeeps' BY <2>0, <2>2, <3>1, <3>3
    <3>5. CreateStored' BY <2>0, <2>2, <3>3 DEF Storing
    <3>6. RestoreRead' /\ RestoredIsIntact' BY <2>2
    <3> QED BY <3>2, <3>4, <3>5, <3>6
  <2>3. CASE (DeleteFile(w) \/ DeleteSave(w) \/ DeleteSaved(w)) /\ UNCHANGED <<callVars, tableVars>>
    <3>1. /\ UNCHANGED <<index, sweep, arg>> /\ (\A v \in Worker \ {w} : pc'[v] = pc[v]) /\ pc'[w] # "storeSaving"
          /\ pc[w] \in Sweeping /\ diskIndex' \in {diskIndex, index}
      BY <2>3 DEF DeleteFile, DeleteSave, DeleteSaved, Sweeping
    <3>2. FilesIndexed' BY <2>3, <3>1
    <3>3. GCKeeps' BY <2>0, <2>3, <3>1
    <3>4. CreateStored' BY <2>0, <2>3, <3>1
    <3>5. RestoreRead' /\ RestoredIsIntact' BY <2>3
    <3> QED BY <3>2, <3>3, <3>4, <3>5
  <2>4. CASE SweepEnd(w) /\ Leave(w, "none") /\ UNCHANGED <<base, want, todo, got, tableVars>>
    BY <2>0, <2>4 DEF SweepEnd, Leave
  <2> QED BY <1>6, <2>1, <2>2, <2>3, <2>4 DEF GCStep
<1>7. ASSUME NEW i \in Id, Delete(i) PROVE Kept
  BY <1>7 DEF Delete, storeVars
<1>8. CASE Crash
  <2>1. index' = diskIndex /\ UNCHANGED <<diskIndex, tableVars>> /\ pc' = [w \in Worker |-> "idle"]
    BY <1>8 DEF Crash, StoreCrash
  <2>2. call' = [w \in Worker |-> "none"] /\ result' = [w \in Worker |-> "none"]
    BY <1>8 DEF Crash
  <2> QED BY <2>1, <2>2
<1>9. CASE UNCHANGED vars BY <1>9 DEF vars, storeVars
<1> QED BY <1>1, <1>2, <1>3, <1>4, <1>5, <1>6, <1>7, <1>8, <1>9 DEF Next

\* The inductive invariant of the manager over the storage.
THEOREM CheckpointInvariant == ASSUME Quiet PROVE Spec => []CheckpointInv
<1>1. CheckpointInv /\ [Next]_vars => CheckpointInv' BY CheckpointStep
<1> QED BY <1>1, CheckpointStart, PTL DEF Spec

\* With gc() undisturbed and no two creates storing the same content, every file
\* of every checkpoint is indexed and intact, through deletions and crashes.
THEOREM CheckpointsAreComplete == ASSUME Quiet PROVE Spec => []CheckpointComplete
<1>1. CheckpointInv => CheckpointComplete
  BY DEF CheckpointInv, CheckpointComplete, FilesIndexed, QuietInv, StoredStaysIntact
<1> QED BY <1>1, CheckpointInvariant, PTL

\* ... and a restore that moved HEAD has read every file with content of the
\* checkpoint, unless that was deleted while it read.
THEOREM RestoresAreIntact == ASSUME Quiet PROVE Spec => []RestoredIsIntact
<1>1. CheckpointInv => RestoredIsIntact BY DEF CheckpointInv
<1> QED BY <1>1, CheckpointInvariant, PTL
-----------------------------------------------------------------------------
(* The manager implements CheckpointHistory *)

\* Every checkpoint that is named, by HEAD, as a parent or by a create in
\* progress, is or was there, and no checkpoint is its own parent.
NamesKnown ==
    /\ head \in live \cup dead \cup {NoId}
    /\ \A w \in Worker : call[w] = "create" => base[w] \in live \cup dead \cup {NoId}
    /\ \A i \in live : parent[i] \in (live \cup dead \cup {NoId}) \ {i}

\* A call in progress has no result yet, and content of length 0 is not returned.
CallsOpen == \A w \in Worker : (call[w] # "none" => result[w] = "none") /\ got[w] \cap Empty = {}

HistoryInv == CheckpointInv /\ NamesKnown /\ CallsOpen

LEMMA HistoryStart == Init => HistoryInv
<1> SUFFICES ASSUME Init PROVE HistoryInv
  OBVIOUS
<1>1. CheckpointInv BY CheckpointStart
<1> QED BY <1>1 DEF HistoryInv, Init, CallInit, NamesKnown, CallsOpen

LEMMA HistoryKept == ASSUME Quiet, HistoryInv, [Next]_vars PROVE HistoryInv'
<1>0. CheckpointInv /\ CheckpointInv' BY CheckpointStep DEF HistoryInv
<1>t. /\ TypeOK /\ got \in [Worker -> SUBSET Hash] /\ todo \in [Worker -> SUBSET Hash]
      /\ \A w \in Worker : call[w] = "restore" => base[w] \in live \cup dead
  BY <1>0 DEF CheckpointInv, CallInv, RestoreRead
<1> SUFFICES NamesKnown' /\ CallsOpen'
  BY <1>0 DEF HistoryInv
<1> USE <1>t DEF HistoryInv, TypeOK, NamesKnown, CallsOpen, callVars, tableVars
<1> DEFINE Goal == NamesKnown' /\ CallsOpen'
<1>1. ASSUME NEW w \in Worker, NEW S \in SUBSET Hash, CallCreate(w, S) PROVE Goal
  BY <1>1 DEF CallCreate, Enter
<1>2. ASSUME NEW w \in Worker, NEW i \in Id, CallRestore(w, i) PROVE Goal
  BY <1>2 DEF CallRestore, Enter
<1>3. ASSUME NEW w \in Worker, CallGC(w) PROVE Goal
  BY <1>3 DEF CallGC, Enter
<1>4. ASSUME NEW w \in Worker, CreateStep(w) PROVE Goal
  <2>1. CASE UNCHANGED <<callVars, tableVars>> BY <2>1
  <2>2. CASE StoreReturned(w)
    <3>1. call[w] = "create" BY <1>4 DEF CreateStep
    <3>2. UNCHANGED <<base, got>> BY <2>2 DEF StoreReturned
    <3>3. CASE GoOn BY <3>2, <3>3 DEF GoOn
    <3>4. CASE Leave(w, "failed") /\ UNCHANGED tableVars BY <3>2, <3>4 DEF Leave
    <3>5. CASE Commit(w)
      <4>1. PICK i \in Fresh : /\ live' = live \cup {i} /\ head' = i /\ UNCHANGED dead /\ Leave(w, "created")
                               /\ parent' = [parent EXCEPT ![i] = base[w]]
        BY <3>5 DEF Commit
      <4>2. i \in Id /\ i \notin live \cup dead \cup {NoId} BY CheckpointAssumption DEF Fresh
      <4>3. base[w] \in (live \cup dead \cup {NoId}) \ {i} BY <3>1, <4>2
      <4>4. NamesKnown' BY <3>1, <3>2, <4>1, <4>2, <4>3 DEF Leave
      <4>5. CallsOpen' BY <3>2, <4>1 DEF Leave
      <4> QED BY <4>4, <4>5
    <3> QED BY <2>2, <3>3, <3>4, <3>5 DEF StoreReturned
  <2> QED BY <1>4, <2>1, <2>2 DEF CreateStep
<1>5. ASSUME NEW w \in Worker, RestoreStep(w) PROVE Goal
  <2>1. CASE UNCHANGED <<callVars, tableVars>> BY <2>1
  <2>2. CASE RetrieveReturned(w)
    <3>1. call[w] = "restore" /\ base[w] \in live \cup dead BY <1>5 DEF RestoreStep
    <3>2. UNCHANGED base /\ \A v \in Worker : got'[v] \cap Empty = {} BY <2>2 DEF RetrieveReturned
    <3>3. CASE GoOn BY <3>2, <3>3 DEF GoOn
    <3>4. CASE Leave(w, "failed") /\ UNCHANGED tableVars BY <3>2, <3>4 DEF Leave
    <3>5. CASE Restored(w) BY <3>1, <3>2, <3>5 DEF Restored, Leave
    <3> QED BY <2>2, <3>3, <3>4, <3>5 DEF RetrieveReturned
  <2> QED BY <1>5, <2>1, <2>2 DEF RestoreStep
<1>6. ASSUME NEW w \in Worker, GCStep(w) PROVE Goal
  BY <1>6 DEF GCStep, Leave
<1>7. ASSUME NEW i \in Id, Delete(i) PROVE Goal
  BY <1>7 DEF Delete
<1>8. CASE Crash
  BY <1>8 DEF Crash
<1>9. CASE UNCHANGED vars BY <1>9 DEF vars
<1> QED BY <1>1, <1>2, <1>3, <1>4, <1>5, <1>6, <1>7, <1>8, <1>9 DEF Next

\* Under the invariant the mapping hides nothing: every checkpoint is whole.
LEMMA AllWhole ==
    ASSUME CheckpointInv, CheckpointInv'
    PROVE  Contents = [i \in live |-> files[i]] /\ Contents' = [i \in live' |-> files'[i]]
<1> USE DEF CheckpointInv, CallInv, TypeOK, FilesIndexed, QuietInv, StoredStaysIntact, Whole
<1>1. Whole = live OBVIOUS
<1>2. Whole' = live' OBVIOUS
<1> QED BY <1>1, <1>2 DEF Contents

\* What leaves the tables alone and answers nobody forgets answers at most.
LEMMA Silent ==
    ASSUME CheckpointInv, CheckpointInv', UNCHANGED tableVars,
           \A w \in Worker : result'[w] = "restored" => result[w] = "restored" /\ got'[w] = got[w]
    PROVE  History!HistoryNext
<1>1. Contents' = Contents BY AllWhole DEF tableVars
<1> DEFINE W == {w \in Worker : result'[w] # "restored"}
<1>2. Returned' = [w \in DOMAIN Returned \ W |-> Returned[w]]
  <2>1. DOMAIN Returned \ W = {w \in Worker : result'[w] = "restored"} BY DEF Returned
  <2> QED BY <2>1 DEF Returned
<1>3. History!Forget(W) BY <1>1, <1>2 DEF History!Forget, tableVars
<1> QED BY <1>3 DEF History!HistoryNext

LEMMA HistoryStep == ASSUME Quiet, HistoryInv, [Next]_vars PROVE [History!HistoryNext]_(History!historyVars)
<1>0. CheckpointInv /\ CheckpointInv' BY CheckpointStep DEF HistoryInv
<1>t. TypeOK /\ got \in [Worker -> SUBSET Hash] /\ got' \in [Worker -> SUBSET Hash]
  BY <1>0 DEF CheckpointInv, CallInv
<1>k. Contents = [i \in live |-> files[i]] /\ Contents' = [i \in live' |-> files'[i]]
  BY <1>0, AllWhole
<1> DEFINE Goal == [History!HistoryNext]_(History!historyVars)
<1>s. ASSUME UNCHANGED tableVars,
             \A w \in Worker : result'[w] = "restored" => result[w] = "restored" /\ got'[w] = got[w]
      PROVE  Goal
  BY <1>0, <1>s, Silent
<1>a. ASSUME NEW w \in Worker, call[w] # "none", UNCHANGED tableVars,
             \A v \in Worker \ {w} : result'[v] = result[v] /\ got'[v] = got[v],
             result'[w] \in {result[w], "failed", "none"}
      PROVE  Goal
  <2>1. result[w] = "none" BY <1>a DEF HistoryInv, CallsOpen
  <2> QED BY <1>a, <2>1, <1>s
<1> HIDE DEF Goal
<1>1. ASSUME NEW w \in Worker, NEW S \in SUBSET Hash, CallCreate(w, S) PROVE Goal
  BY <1>1, <1>s, <1>t DEF CallCreate, Enter, TypeOK
<1>2. ASSUME NEW w \in Worker, NEW i \in Id, CallRestore(w, i) PROVE Goal
  BY <1>2, <1>s, <1>t DEF CallRestore, Enter, TypeOK
<1>3. ASSUME NEW w \in Worker, CallGC(w) PROVE Goal
  BY <1>3, <1>s, <1>t DEF CallGC, Enter, TypeOK
<1>4. ASSUME NEW w \in Worker, CreateStep(w) PROVE Goal
  <2>0. call[w] = "create" BY <1>4 DEF CreateStep
  <2>1. CASE UNCHANGED <<callVars, tableVars>> BY <2>1, <1>s DEF callVars
  <2>2. CASE StoreReturned(w)
    <3>1. UNCHANGED got BY <2>2 DEF StoreReturned
    <3>2. CASE GoOn BY <1>s, <3>1, <3>2 DEF GoOn
    <3>3. CASE Leave(w, "failed") /\ UNCHANGED tableVars
      BY <1>a, <1>t, <2>0, <3>1, <3>3 DEF Leave, TypeOK
    <3>4. CASE Commit(w)
      <4>1. PICK i \in Fresh : /\ live' = live \cup {i} /\ head' = i /\ UNCHANGED dead /\ Leave(w, "created")
                               /\ files' = [files EXCEPT ![i] = want[w]]
        BY <3>4 DEF Commit
      <4>2. i \in Id /\ i \notin live \cup dead BY DEF Fresh
      <4>3. want[w] \in SUBSET Hash BY <1>t DEF TypeOK
      <4>4. Returned' = Returned
        <5>1. result[w] = "none" BY <2>0 DEF HistoryInv, CallsOpen
        <5> QED BY <1>t, <3>1, <4>1, <5>1 DEF Returned, Leave, TypeOK
      <4>5. Contents' = [j \in DOMAIN Contents \cup {i} |-> IF j = i THEN want[w] ELSE Contents[j]]
        BY <1>k, <1>t, <4>1, <4>2 DEF TypeOK
      <4>6. i \notin DOMAIN Contents \cup dead BY <1>k, <4>2
      <4>7. History!Save(i, want[w]) BY <4>1, <4>4, <4>5, <4>6 DEF History!Save, History!Known
      <4> QED BY <4>2, <4>3, <4>7 DEF History!HistoryNext, Goal
    <3> QED BY <2>2, <3>2, <3>3, <3>4 DEF StoreReturned
  <2> QED BY <1>4, <2>1, <2>2 DEF CreateStep
<1>5. ASSUME NEW w \in Worker, RestoreStep(w) PROVE Goal
  <2>0. call[w] = "restore" /\ base[w] \in live \cup dead /\ base[w] \in Id
    BY <1>0, <1>5 DEF RestoreStep, CheckpointInv, CallInv, RestoreRead, RestoreNamesOne
  <2>1. CASE UNCHANGED <<callVars, tableVars>> BY <2>1, <1>s DEF callVars
  <2>2. CASE RetrieveReturned(w)
    <3>1. \A v \in Worker \ {w} : got'[v] = got[v] BY <1>t, <2>2 DEF RetrieveReturned
    <3>2. CASE GoOn BY <1>a, <2>0, <3>1, <3>2 DEF GoOn
    <3>3. CASE Leave(w, "failed") /\ UNCHANGED tableVars
      BY <1>a, <1>t, <2>0, <3>1, <3>3 DEF Leave, TypeOK
    <3>4. CASE Restored(w)
      <4>1. /\ head' = base[w] /\ UNCHANGED <<live, dead, files>>
            /\ result' = [result EXCEPT ![w] = "restored"]
        BY <3>4 DEF Restored, Leave
      <4>2. UNCHANGED <<base, want>> BY <2>2 DEF RetrieveReturned
      <4>3. Contents' = Contents BY <1>k, <4>1
      <4>4. got'[w] \subseteq want[w] /\ got'[w] \cap Empty = {}
        <5>1. \A v \in Worker : got'[v] \subseteq want'[v] BY <1>0 DEF CheckpointInv, CallInv, TypeOK
        <5>2. HistoryInv' BY HistoryKept
        <5> QED BY <4>2, <5>1, <5>2 DEF HistoryInv, CallsOpen
      <4>5. base[w] \in live => got'[w] = files[base[w]] \ Empty
        <5>1. base[w] \in live => want[w] = files[base[w]] BY <1>0, <2>0 DEF CheckpointInv, RestoreRead
        <5>2. base[w] \in live => want[w] \ Empty \subseteq got'[w]
          <6>1. RestoredIsIntact' BY <1>0 DEF CheckpointInv
          <6>2. result'[w] = "restored" BY <1>t, <4>1 DEF TypeOK
          <6> QED BY <4>1, <4>2, <6>1, <6>2 DEF RestoredIsIntact
        <5> QED BY <4>4, <5>1, <5>2
      <4>6. Returned' = [v \in DOMAIN Returned \cup {w} |-> IF v = w THEN got'[w] ELSE Returned[v]]
        BY <1>t, <3>1, <4>1 DEF Returned, TypeOK
      <4>7. base[w] \in DOMAIN Contents \cup dead /\ (base[w] \in DOMAIN Contents => got'[w] = Contents[base[w]] \ Empty)
        BY <1>k, <2>0, <4>5
      <4>8. got'[w] \in SUBSET Hash BY <1>t
      <4>9. History!Restore(w, base[w])
        BY <4>1, <4>3, <4>6, <4>7, <4>8 DEF History!Restore, History!Known
      <4> QED BY <2>0, <4>9 DEF History!HistoryNext, Goal
    <3> QED BY <2>2, <3>2, <3>3, <3>4 DEF RetrieveReturned
  <2> QED BY <1>5, <2>1, <2>2 DEF RestoreStep
<1>6. ASSUME NEW w \in Worker, GCStep(w) PROVE Goal
  <2>1. UNCHANGED <<tableVars, got>> BY <1>6 DEF GCStep, callVars
  <2>2. \A v \in Worker : result'[v] \in {result[v], "none"} BY <1>6, <1>t DEF GCStep, Leave, callVars, TypeOK
  <2> QED BY <1>s, <2>1, <2>2
<1>7. ASSUME NEW i \in Id, Delete(i) PROVE Goal
  <2>1. /\ i \in live /\ live' = live \ {i} /\ dead' = dead \cup {i}
        /\ files' = [files EXCEPT ![i] = {}] /\ UNCHANGED <<result, got>>
    BY <1>7 DEF Delete, callVars
  <2>2. Returned' = Returned BY <2>1 DEF Returned
  <2>3. Contents' = [j \in DOMAIN Contents \ {i} |-> Contents[j]] BY <1>k, <1>t, <2>1 DEF TypeOK
  <2>4. DOMAIN Contents = live /\ DOMAIN Contents' = live' BY <1>k
  <2>5. \/ head # i /\ UNCHANGED head
        \/ head = i /\ head' \in (live \cup dead) \ {i}
        \/ head = i /\ head' = NoId /\ live' = {}
    BY <1>7, <2>1 DEF Delete, HistoryInv, NamesKnown
  <2>6. History!Drop(i) BY <2>1, <2>2, <2>3, <2>4, <2>5 DEF History!Drop, History!Known
  <2> QED BY <2>6 DEF History!HistoryNext, Goal
<1>8. ASSUME Crash PROVE Goal BY <1>8, <1>s DEF Crash
<1>9. ASSUME UNCHANGED vars PROVE Goal BY <1>9, <1>s DEF vars, callVars
<1> QED BY <1>1, <1>2, <1>3, <1>4, <1>5, <1>6, <1>7, <1>8, <1>9 DEF Next, Goal

\* With gc() undisturbed and no two creates storing the same content, the
\* manager implements CheckpointHistory: create, restore and delete are atomic,
\* and the storage, the collector and crashes change no checkpoint.
THEOREM HistoryRefinement == ASSUME Quiet PROVE Spec => ImplementsHistory
<1>1. Init => History!HistoryInit
  BY DEF Init, CallInit, History!HistoryInit, Contents, Whole, Returned
<1>2. HistoryInv /\ [Next]_vars => HistoryInv' BY HistoryKept
<1>3. HistoryInv /\ [Next]_vars => [History!HistoryNext]_(History!historyVars) BY HistoryStep
<1> QED BY <1>1, <1>2, <1>3, HistoryStart, PTL DEF Spec, ImplementsHistory, History!HistorySpec
=============================================================================
