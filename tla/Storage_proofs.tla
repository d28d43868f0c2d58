---------------------------- MODULE Storage_proofs ----------------------------
(***************************************************************************)
(* What holds of the caches and the files, for every set of keys, every    *)
(* limit, every value and every sequence of calls and crashes: the two     *)
(* caches of sessions, the files of the metrics, the timeline of           *)
(* checkpoints and the configuration keep what they promise.               *)
(*                                                                         *)
(* Several operators are defined by recursion over a sequence.  What they  *)
(* compute is proved by induction, which is a fact about sets of numbers:  *)
(* a set that has 0, and with each number the next, has all of them.       *)
(***************************************************************************)
EXTENDS MCStores, SequenceTheorems, FiniteSetTheorems, WellFoundedInduction, TLAPS

-----------------------------------------------------------------------------
(* Induction, as a fact about sets of numbers *)

LEMMA LeastNumber == ASSUME NEW T \in SUBSET Nat, T # {} PROVE \E n \in T : \A m \in T : n <= m
<1> DEFINE R == OpToRel(<, Nat)
<1>1. IsWellFoundedOn(R, Nat) BY NatLessThanWellFounded
<1>2. \A x, y \in Nat : x < y => <<x, y>> \in R BY DEF OpToRel
<1> HIDE DEF R
<1>3. PICK n \in T : \A m \in T : ~(<<m, n>> \in R) BY <1>1, WFMin
<1>4. \A m \in T : ~(m < n) BY <1>2, <1>3
<1> QED BY <1>4

\* A set that has 0, and with each number the next, has all up to N.
LEMMA Induction ==
    ASSUME NEW N \in Nat, NEW P \in SUBSET (0 .. N), 0 \in P, \A n \in P : n < N => n + 1 \in P
    PROVE  P = 0 .. N
<1> SUFFICES ASSUME (0 .. N) \ P # {} PROVE FALSE
  OBVIOUS
<1> DEFINE T == (0 .. N) \ P
<1>1. T \in SUBSET Nat OBVIOUS
<1> HIDE DEF T
<1>2. PICK n \in T : \A m \in T : n <= m BY <1>1, LeastNumber DEF T
<1>3. n \in 0 .. N /\ n # 0 /\ n - 1 \in 0 .. N BY <1>2 DEF T
<1>4. n - 1 \in P BY <1>2, <1>3 DEF T
<1> QED BY <1>2, <1>3, <1>4 DEF T
-----------------------------------------------------------------------------
(* Sequences and functions, one step after the other *)

\* A set that has the empty sequence, and with a sequence all that are longer
\* by one, has all sequences.
LEMMA SeqInduction ==
    ASSUME NEW A, NEW P \in SUBSET Seq(A), <<>> \in P, \A t \in P : \A x \in A : Append(t, x) \in P
    PROVE  P = Seq(A)
<1> SUFFICES ASSUME Seq(A) \ P # {} PROVE FALSE
  OBVIOUS
<1> DEFINE T == {Len(s) : s \in Seq(A) \ P}
<1>1. T \in SUBSET Nat /\ T # {}
  <2>1. \A s \in Seq(A) : Len(s) \in Nat OBVIOUS
  <2> QED BY <2>1
<1>2. PICK s \in Seq(A) \ P : \A t \in Seq(A) \ P : Len(s) <= Len(t)
  <2>1. PICK n \in T : \A m \in T : n <= m
    <3> HIDE DEF T
    <3> QED BY <1>1, LeastNumber
  <2> QED BY <2>1
<1>3. s # <<>> OBVIOUS
<1>4. PICK t \in Seq(A), x \in A : s = Append(t, x) BY <1>3, SequenceEmptyOrAppend
<1>5. Len(s) = Len(t) + 1 /\ Len(t) \in Nat BY <1>4
<1>6. t \in P BY <1>2, <1>5
<1> QED BY <1>4, <1>6

\* A function that is given step by step exists,
IsRun(f, N, v, step) == f = [n \in 0 .. N |-> IF n = 0 THEN v ELSE step[n][f[n - 1]]]

LEMMA Recursion ==
    ASSUME NEW N \in Nat, NEW v, NEW step
    PROVE  \E f : IsRun(f, N, v, step)
<1> DEFINE After(f, n) == IF n = 0 THEN v ELSE step[n][f[n - 1]]
           P == {k \in 0 .. N : \E f : f = [n \in 0 .. k |-> After(f, n)]}
<1>1. 0 \in P
  <2> DEFINE only == [n \in 0 .. 0 |-> v]
  <2>1. only = [n \in 0 .. 0 |-> After(only, n)] OBVIOUS
  <2> HIDE DEF only, After
  <2> QED BY <2>1
<1>2. ASSUME NEW k \in P, k < N PROVE k + 1 \in P
  <2>1. PICK f : f = [n \in 0 .. k |-> After(f, n)] OBVIOUS
  <2> DEFINE g == [n \in 0 .. k + 1 |-> After(f, n)]
  <2>2. \A n \in 0 .. k : f[n] = g[n]
    <3>1. \A n \in 0 .. k : n \in 0 .. k + 1 OBVIOUS
    <3> HIDE DEF After, P
    <3> QED BY <2>1, <3>1
  <2> HIDE DEF g
  <2>3. \A n \in 0 .. k + 1 : After(f, n) = After(g, n)
    <3>1. \A n \in 0 .. k + 1 : n = 0 \/ n - 1 \in 0 .. k OBVIOUS
    <3> QED BY <2>2, <3>1
  <2> HIDE DEF After
  <2>4. g = [n \in 0 .. k + 1 |-> After(g, n)] BY <2>3 DEF g
  <2>5. k + 1 \in 0 .. N BY <1>2
  <2>6. \E h : h = [n \in 0 .. k + 1 |-> After(h, n)] BY <2>4
  <2> QED BY <2>5, <2>6
<1>3. P = 0 .. N
  <2>1. P \in SUBSET (0 .. N) OBVIOUS
  <2> HIDE DEF P
  <2> QED BY <1>1, <1>2, <2>1, Induction
<1>4. N \in P BY <1>3
<1>5. PICK f : f = [n \in 0 .. N |-> After(f, n)] BY <1>4
<1>6. IsRun(f, N, v, step) BY <1>5 DEF IsRun
<1> QED BY <1>6

\* and is the only one.
StepAlike(f, g, N) == f[0] = g[0] /\ \A n \in 1 .. N : f[n - 1] = g[n - 1] => f[n] = g[n]
Alike(f, g, N) == \A n \in 0 .. N : f[n] = g[n]

LEMMA Determined == ASSUME NEW N \in Nat, NEW f, NEW g, StepAlike(f, g, N) PROVE Alike(f, g, N)
<1> DEFINE P == {n \in 0 .. N : f[n] = g[n]}
<1>1. 0 \in P BY DEF StepAlike
<1>2. ASSUME NEW n \in P, n < N PROVE n + 1 \in P
  <2>1. n + 1 \in 1 .. N /\ n + 1 \in 0 .. N /\ (n + 1) - 1 = n /\ f[n] = g[n] BY <1>2
  <2> QED BY <2>1 DEF StepAlike
<1>3. P \in SUBSET (0 .. N) OBVIOUS
<1> HIDE DEF P
<1>4. P = 0 .. N BY <1>1, <1>2, <1>3, Induction
<1> QED BY <1>4 DEF P, Alike

-----------------------------------------------------------------------------
(* The files of the metrics *)

\* What the writer and the cleaner have in hand is a file, and the one the
\* writer appends to is there.
InHand ==
    /\ writer = "opened" /\ handle = "file" => currentFile \in onDisk
    /\ writer \in {"read", "compressed"} => currentFile \in File
    /\ cleaning.pc # "idle" => cleaning.file \in File

FilesHold == \A f \in File : (raw[f] # {} => f \in onDisk) /\ (gz[f] # {} => f \in zipped)

\* Without carelessness names are not used twice, the writer and the cleaner
\* are at different files, and each has read all there is in its own and has
\* compressed what it has read, unless that was retired meanwhile.
Apart ==
    /\ handle = "file" /\ currentFile \notin old
    /\ onDisk \cup zipped \cup old \subseteq used
    /\ writer \in {"opened", "read", "compressed"} => currentFile \in onDisk
    /\ cleaning.pc # "idle" =>
        /\ cleaning.file # currentFile /\ cleaning.file \in used
        /\ cleaning.file \in onDisk => cleaning.file \in old

CopiesAgree ==
    /\ \A f \in onDisk : gz[f] \subseteq raw[f] \cup retired
    /\ writer \in {"read", "compressed"} => copy = raw[currentFile]
    /\ writer = "compressed" => copy \subseteq gz[currentFile] \cup retired
    /\ cleaning.pc # "idle" => raw[cleaning.file] \subseteq cleaning.content
                               /\ cleaning.content \subseteq raw[cleaning.file] \cup retired
    /\ cleaning.pc = "read" => gz[cleaning.file] \subseteq raw[cleaning.file] \cup retired
    /\ cleaning.pc = "compressed" => cleaning.content \subseteq gz[cleaning.file] \cup retired

\* An entry is in a file, compressed or not, or retired.
Somewhere(e) == e \in retired \/ \E f \in File : e \in raw[f] \/ e \in gz[f]

MetricsIInv ==
    /\ MetricsTypeOK /\ FilesHold /\ InHand
    /\ ~Careless => Apart /\ CopiesAgree /\ \A e \in written : Somewhere(e)

LEMMA FoundSomewhere == \A e : Somewhere(e) => e \in Found
<1> SUFFICES ASSUME NEW e, Somewhere(e) PROVE e \in Found
  OBVIOUS
<1> DEFINE R == UNION {raw[f] : f \in File}
           G == UNION {gz[f] : f \in File}
<1>1. Found = R \cup G \cup retired BY DEF Found
<1>2. ASSUME NEW f \in File, e \in raw[f] PROVE e \in R BY <1>2
<1>3. ASSUME NEW f \in File, e \in gz[f] PROVE e \in G BY <1>3
<1> HIDE DEF R, G
<1> QED BY <1>1, <1>2, <1>3 DEF Somewhere

LEMMA MetricsStart == MetricsInit => MetricsIInv
<1> SUFFICES ASSUME MetricsInit PROVE MetricsIInv
  OBVIOUS
<1> QED BY MetricsAssumption DEF MetricsInit, MetricsIInv, MetricsTypeOK, FilesHold, InHand, Apart, CopiesAgree, NotCleaning

LEMMA MetricsStep == MetricsIInv /\ [MetricsNext]_metricsVars => MetricsIInv'
<1> SUFFICES ASSUME MetricsIInv, [MetricsNext]_metricsVars PROVE MetricsIInv'
  OBVIOUS
<1> USE MetricsAssumption DEF MetricsIInv, MetricsTypeOK, FilesHold, InHand, Apart, CopiesAgree, Somewhere,
        writerVars, diskVars
<1>1. ASSUME NEW e \in Metric, WriteMetric(e) PROVE MetricsIInv' BY <1>1 DEF WriteMetric
<1>2. CASE Flush BY <1>2 DEF Flush
<1>3. CASE OpenCurrent BY <1>3 DEF OpenCurrent, Create, FreshName, Reusable
<1>4. CASE FlushEnds BY <1>4 DEF FlushEnds, Lands
<1>5. CASE FlushFails BY <1>5 DEF FlushFails, Lands
<1>6. CASE ReadFull BY <1>6 DEF ReadFull
<1>7. CASE CompressFull BY <1>7 DEF CompressFull
<1>8. CASE Rotated
  <2>1. CASE currentFile \notin onDisk BY <1>8, <2>1 DEF Rotated
  <2>2. CASE currentFile \in onDisk
    <3>1. PICK dropRaw \in SUBSET (onDisk \ {currentFile}), dropGz \in SUBSET zipped :
               /\ NewFile(onDisk \ ({currentFile} \cup dropRaw))
               /\ raw' = [f \in File |-> IF f \in dropRaw \cup {currentFile} THEN {} ELSE raw[f]]
               /\ zipped' = zipped \ dropGz
               /\ gz' = [f \in File |-> IF f \in dropGz THEN {} ELSE gz[f]]
               /\ old' = old \ (dropRaw \cup {currentFile'})
               /\ retired' = retired \cup (UNION {raw[f] : f \in dropRaw}) \cup (UNION {gz[f] : f \in dropGz})
      BY <1>8, <2>2 DEF Rotated
    <3>2. PICK n \in File : /\ n \notin onDisk \ ({currentFile} \cup dropRaw) /\ (Careless \/ n \notin used)
                           /\ currentFile' = n /\ onDisk' = (onDisk \ ({currentFile} \cup dropRaw)) \cup {n} /\ used' = used \cup {n}
      BY <3>1 DEF NewFile
    <3>3. /\ writer = "compressed" /\ writer' = "idle" /\ copy' = {}
          /\ UNCHANGED <<buffer, handle, cleaning, written>>
      BY <1>8 DEF Rotated
    <3> DEFINE R == UNION {raw[f] : f \in dropRaw}
               G == UNION {gz[f] : f \in dropGz}
    <3>r. /\ \A f \in dropRaw : raw[f] \subseteq R
          /\ \A f \in dropGz : gz[f] \subseteq G
      OBVIOUS
    <3>s. R \subseteq Metric /\ G \subseteq Metric
      <4>1. \A f \in dropRaw : raw[f] \subseteq Metric OBVIOUS
      <4>2. \A f \in dropGz : gz[f] \subseteq Metric OBVIOUS
      <4> QED BY <4>1, <4>2
    <3>t. retired' = retired \cup R \cup G BY <3>1
    <3> HIDE DEF R, G
    <3>4. retired' \subseteq Metric BY <3>s, <3>t
    <3>5. /\ retired \subseteq retired'
          /\ \A f \in File : raw[f] \subseteq raw'[f] \cup retired' \/ f = currentFile
          /\ \A f \in File : gz[f] \subseteq gz'[f] \cup retired'
          /\ \A f \in File : raw'[f] \subseteq raw[f] /\ gz'[f] \subseteq gz[f]
          /\ \A f \in File : f \in onDisk' => raw'[f] = raw[f] \/ f = n
      BY <3>1, <3>2, <3>r, <3>t
    <3>6. MetricsTypeOK' /\ FilesHold' /\ InHand'
      BY <3>1, <3>2, <3>3, <3>4
    <3>7. ASSUME ~Careless PROVE Apart' BY <3>1, <3>2, <3>3, <3>7
    <3>8. ASSUME ~Careless PROVE CopiesAgree'
      <4>1. raw[n] = {} /\ gz[n] = {} /\ n \notin zipped BY <3>2, <3>8
      <4>2. \A f \in onDisk' : gz'[f] \subseteq raw'[f] \cup retired' BY <3>2, <3>5, <3>8, <4>1
      <4> QED BY <3>3, <3>5, <3>8, <4>2
    <3>9. ASSUME ~Careless PROVE (\A e \in written : Somewhere(e))'
      <4>1. raw[currentFile] \subseteq gz[currentFile] \cup retired BY <3>3, <3>9
      <4>2. \A f \in File : raw[f] \subseteq raw'[f] \cup retired' \cup gz'[currentFile] BY <2>2, <3>5, <4>1
      <4> QED BY <2>2, <3>3, <3>5, <3>9, <4>2
    <3> QED BY <3>6, <3>7, <3>8, <3>9
  <2> QED BY <2>1, <2>2
<1>9. ASSUME NEW f \in File, GrowOld(f) PROVE MetricsIInv' BY <1>9 DEF GrowOld
<1>10. ASSUME NEW f \in File, ReadOld(f) PROVE MetricsIInv' BY <1>10 DEF ReadOld
<1>11. ASSUME NEW f \in File, TakeRaw(f) PROVE MetricsIInv' BY <1>11 DEF TakeRaw, Moved
<1>12. ASSUME NEW f \in File, TakeCompressed(f) PROVE MetricsIInv' BY <1>12 DEF TakeCompressed
<1>13. CASE CompressOld BY <1>13 DEF CompressOld
<1>14. CASE UnlinkOld BY <1>14 DEF UnlinkOld, Moved, NotCleaning
<1>15. CASE MetricsCrash BY <1>15 DEF MetricsCrash, NotCleaning
<1>16. CASE UNCHANGED metricsVars BY <1>16 DEF metricsVars
<1> QED BY <1>1, <1>2, <1>3, <1>4, <1>5, <1>6, <1>7, <1>8, <1>9, <1>10, <1>11, <1>12, <1>13, <1>14, <1>15, <1>16 DEF MetricsNext

LEMMA MetricsImplied == MetricsIInv => MetricsTypeOK /\ MetricsInv
BY FoundSomewhere DEF MetricsIInv, MetricsInv, FilesHold, EntriesAreKept
-----------------------------------------------------------------------------
(* The timeline of checkpoints *)

\* The line upwards from a checkpoint, c itself first.
IsUpwards(up, c) ==
    up = [n \in 0 .. Len(entries) |->
            IF n = 0 THEN c ELSE IF up[n - 1] = NoRevision THEN NoRevision ELSE ParentOf(up[n - 1])]

\* The ancestors are the line, which the definition by recursion describes.
LEMMA Upwards ==
    ASSUME entries \in Seq(TimelineEntry), NEW c
    PROVE  \E up : IsUpwards(up, c) /\ AncestorLine(c) = [n \in 1 .. Len(entries) |-> up[n]]
<1> DEFINE N == Len(entries)
           Above(f, n) == IF n = 0 THEN c ELSE IF f[n - 1] = NoRevision THEN NoRevision ELSE ParentOf(f[n - 1])
           P == {k \in 0 .. N : \E f : f = [n \in 0 .. k |-> Above(f, n)]}
<1>0. N \in Nat OBVIOUS
<1>1. 0 \in P
  <2> DEFINE only == [n \in 0 .. 0 |-> c]
  <2>1. only = [n \in 0 .. 0 |-> Above(only, n)] OBVIOUS
  <2> HIDE DEF only, Above
  <2> QED BY <2>1, <1>0
<1>2. ASSUME NEW k \in P, k < N PROVE k + 1 \in P
  <2>1. PICK f : f = [n \in 0 .. k |-> Above(f, n)] OBVIOUS
  <2> DEFINE g == [n \in 0 .. k + 1 |-> Above(f, n)]
  <2>2. \A n \in 0 .. k : f[n] = g[n] BY <2>1
  <2> HIDE DEF g
  <2>3. \A n \in 0 .. k + 1 : Above(f, n) = Above(g, n)
    <3>1. \A n \in 0 .. k + 1 : n = 0 \/ n - 1 \in 0 .. k BY <1>0
    <3> QED BY <2>2, <3>1
  <2> HIDE DEF Above
  <2>4. g = [n \in 0 .. k + 1 |-> Above(g, n)] BY <2>3 DEF g
  <2> QED BY <2>4, <1>0
<1>3. P = 0 .. N
  <2>1. P \in SUBSET (0 .. N) OBVIOUS
  <2> HIDE DEF P, N
  <2> QED BY <1>0, <1>1, <1>2, <2>1, Induction
<1>4. \E up : up = [n \in 0 .. N |-> Above(up, n)] BY <1>3, <1>0
<1> DEFINE up == CHOOSE up : up = [n \in 0 .. N |-> Above(up, n)]
<1>5. up = [n \in 0 .. N |-> Above(up, n)] BY <1>4
<1>6. AncestorLine(c) = [n \in 1 .. N |-> up[n]] BY DEF AncestorLine
<1> HIDE DEF up
<1> QED BY <1>5, <1>6 DEF IsUpwards

\* The line upwards from a checkpoint on the line is the rest of the line.
LEMMA LineGoesOn ==
    ASSUME entries \in Seq(TimelineEntry), NEW up, NEW c, IsUpwards(up, c),
           NEW n \in 0 .. Len(entries), NEW uq, IsUpwards(uq, up[n])
    PROVE  \A j \in 0 .. Len(entries) - n : up[n + j] = uq[j]
<1> DEFINE N == Len(entries)
           P == {j \in 0 .. N - n : up[n + j] = uq[j]}
<1>0. N \in Nat /\ N - n \in Nat OBVIOUS
<1>1. 0 \in P BY <1>0 DEF IsUpwards
<1>2. ASSUME NEW j \in P, j < N - n PROVE j + 1 \in P
  <2>1. /\ n + (j + 1) \in 0 .. N /\ n + (j + 1) # 0 /\ (n + (j + 1)) - 1 = n + j
        /\ j + 1 \in 0 .. N /\ j + 1 # 0 /\ (j + 1) - 1 = j
    BY <1>0, <1>2
  <2>2. up[n + (j + 1)] = IF up[n + j] = NoRevision THEN NoRevision ELSE ParentOf(up[n + j]) BY <2>1 DEF IsUpwards
  <2>3. uq[j + 1] = IF uq[j] = NoRevision THEN NoRevision ELSE ParentOf(uq[j]) BY <2>1 DEF IsUpwards
  <2> QED BY <1>0, <1>2, <2>2, <2>3
<1>3. P = 0 .. N - n
  <2>1. P \in SUBSET (0 .. N - n) OBVIOUS
  <2> HIDE DEF P, N
  <2> QED BY <1>0, <1>1, <1>2, <2>1, Induction
<1> QED BY <1>3

\* The common ancestor is the nearest, in every state.
LEMMA NearestIsCommon == ASSUME entries \in Seq(TimelineEntry) PROVE CommonIsNearest
<1> SUFFICES ASSUME NEW c, NEW d
             PROVE LET both == AncestorSet(c) \cap AncestorSet(d)
                   IN IF both = {} THEN CommonAncestor(c, d) = NoRevision
                      ELSE /\ CommonAncestor(c, d) \in both
                           /\ both \subseteq AncestorSet(CommonAncestor(c, d)) \cup {CommonAncestor(c, d)}
  BY DEF CommonIsNearest
<1> DEFINE N == Len(entries)
           line == AncestorLine(c)
           both == AncestorSet(c) \cap AncestorSet(d)
           at == {n \in DOMAIN line : line[n] \in AncestorSet(d)}
           near == CHOOSE n \in at : \A m \in at : n <= m
<1>0. N \in Nat OBVIOUS
<1>1. PICK up : IsUpwards(up, c) /\ line = [n \in 1 .. N |-> up[n]] BY Upwards
<1>2. DOMAIN line = 1 .. N /\ \A n \in 1 .. N : line[n] = up[n] BY <1>1
<1>3. NoRevision \notin AncestorSet(d) BY DEF AncestorSet
<1>4. AncestorSet(c) = {up[n] : n \in 1 .. N} \ {NoRevision} BY <1>2 DEF AncestorSet
<1>5. at = {n \in 1 .. N : up[n] \in AncestorSet(d)} BY <1>2
<1>6. both = {up[n] : n \in at} BY <1>3, <1>4, <1>5
<1>7. CommonAncestor(c, d) = IF at = {} THEN NoRevision ELSE line[near] BY DEF CommonAncestor
<1> HIDE DEF line, both, at, near
<1>8. CASE at = {}
  BY <1>6, <1>7, <1>8 DEF both
<1>9. CASE at # {}
  <2>1. at \in SUBSET Nat BY <1>5, <1>0
  <2>2. near \in at /\ \A m \in at : near <= m BY <1>9, <2>1, LeastNumber DEF near
  <2>3. CommonAncestor(c, d) = up[near] BY <1>2, <1>5, <1>7, <1>9, <2>2
  <2>4. up[near] \in both BY <1>6, <2>2
  <2>5. PICK uq : IsUpwards(uq, up[near]) /\ AncestorLine(up[near]) = [n \in 1 .. N |-> uq[n]] BY Upwards
  <2>6. ASSUME NEW m \in at PROVE up[m] \in AncestorSet(up[near]) \cup {up[near]}
    <3>1. near \in 0 .. N /\ m \in 0 .. N /\ m - near \in 0 .. N - near /\ near + (m - near) = m BY <1>0, <1>5, <2>2
    <3>2. up[m] = uq[m - near] BY <1>1, <2>5, <3>1, LineGoesOn
    <3>3. CASE m = near BY <3>3
    <3>4. CASE m # near
      <4>1. m - near \in 1 .. N BY <1>0, <3>1, <3>4
      <4>2. up[m] = AncestorLine(up[near])[m - near] BY <2>5, <3>2, <4>1
      <4>3. up[m] # NoRevision BY <1>3, <1>5
      <4> QED BY <4>1, <4>2, <4>3 DEF AncestorSet
    <3> QED BY <3>3, <3>4
  <2>7. both # {} BY <2>4
  <2>8. both \subseteq AncestorSet(up[near]) \cup {up[near]} BY <1>6, <2>6
  <2> QED BY <2>3, <2>4, <2>7, <2>8 DEF both
<1> QED BY <1>8, <1>9

\* What is inductive: the types, with the entries as sequences, and the
\* properties of the two files.
TimelineIInv ==
    /\ entries \in Seq(TimelineEntry) /\ eventFile.has \in Seq(TimelineEntry)
    /\ TimelineTypeOK /\ HeadsAreTagged /\ FilesAreCurrent /\ HeadsHaveEvents

LEMMA HeadsDef == \A h : h \in Heads <=> /\ h = [b \in DOMAIN h |-> h[b]]
                                         /\ DOMAIN h \subseteq Branch /\ \A b \in DOMAIN h : h[b] \in Revision
<1>1. ASSUME NEW h \in Heads
      PROVE  h = [b \in DOMAIN h |-> h[b]] /\ DOMAIN h \subseteq Branch /\ \A b \in DOMAIN h : h[b] \in Revision
  <2>1. PICK B \in SUBSET Branch : h \in [B -> Revision] BY DEF Heads
  <2> QED BY <2>1
<1>2. ASSUME NEW h, h = [b \in DOMAIN h |-> h[b]], DOMAIN h \subseteq Branch, \A b \in DOMAIN h : h[b] \in Revision
      PROVE  h \in Heads
  <2>1. h \in [DOMAIN h -> Revision] BY <1>2
  <2> QED BY <1>2, <2>1 DEF Heads
<1> QED BY <1>1, <1>2

\* What a call makes of the heads and of the tags.
LEMMA HeadsChange ==
    ASSUME TimelineIInv, NEW b \in Branch, NEW c \in Revision
    PROVE  /\ HeadsMoved(b, c) \in Heads /\ DOMAIN HeadsMoved(b, c) = DOMAIN heads \cup {b}
           /\ \A x \in DOMAIN heads \cup {b} : HeadsMoved(b, c)[x] = IF x = b THEN c ELSE heads[x]
           /\ [x \in DOMAIN heads \ {b} |-> heads[x]] \in Heads
           /\ NoHeads \in Heads /\ DOMAIN NoHeads = {}
<1>1. DOMAIN heads \subseteq Branch /\ \A x \in DOMAIN heads : heads[x] \in Revision
  BY HeadsDef DEF TimelineIInv, TimelineTypeOK
<1>2. /\ DOMAIN HeadsMoved(b, c) = DOMAIN heads \cup {b}
      /\ \A x \in DOMAIN heads \cup {b} : HeadsMoved(b, c)[x] = IF x = b THEN c ELSE heads[x]
      /\ HeadsMoved(b, c) \in [DOMAIN heads \cup {b} -> Revision]
  BY <1>1 DEF HeadsMoved
<1>3. [x \in DOMAIN heads \ {b} |-> heads[x]] \in [DOMAIN heads \ {b} -> Revision] BY <1>1
<1>4. NoHeads \in [{} -> Revision] /\ DOMAIN NoHeads = {} BY DEF NoHeads
<1> QED BY <1>1, <1>2, <1>3, <1>4 DEF Heads

LEMMA TimelineStart == TimelineInit => TimelineIInv
<1> SUFFICES ASSUME TimelineInit PROVE TimelineIInv
  OBVIOUS
<1>1. NoHeads \in Heads /\ DOMAIN NoHeads = {}
  <2>1. NoHeads \in [{} -> Revision] /\ DOMAIN NoHeads = {} BY DEF NoHeads
  <2> QED BY <2>1 DEF Heads
<1>2. NoTags \in [Revision -> SUBSET Branch] BY DEF NoTags
<1>3. entries = <<>> /\ eventFile.has = <<>> /\ headFile.has = NoHeads BY DEF TimelineInit, Whole
<1>4. <<>> \in Seq(TimelineEntry) /\ \A k \in DOMAIN <<>> : <<>>[k] \in TimelineEntry OBVIOUS
<1>5. added \in 0 .. MaxEvents /\ stops \in 0 .. MaxStops /\ tears \in 0 .. stops /\ open \in BOOLEAN
  BY TimelineAssumption DEF TimelineInit
<1>6. TimelineTypeOK BY <1>1, <1>2, <1>3, <1>4, <1>5 DEF TimelineInit, TimelineTypeOK
<1>7. HeadsAreTagged /\ FilesAreCurrent /\ HeadsHaveEvents
  BY <1>1, <1>3 DEF TimelineInit, HeadsAreTagged, FilesAreCurrent, HeadsHaveEvents
<1> QED BY <1>3, <1>4, <1>6, <1>7 DEF TimelineIInv

\* What memory is after a stop; one that tears a file is counted.
LEMMA AfterStop ==
    ASSUME TimelineIInv, NEW t \in BOOLEAN, Stops(t)
    PROVE  /\ entries' = <<>> /\ heads' = NoHeads /\ heads' \in Heads /\ tags' \in [Revision -> SUBSET Branch]
           /\ open' = FALSE /\ stops' \in 0 .. MaxStops /\ tears' \in 0 .. stops'
           /\ tears' = 0 => ~t /\ tears = 0
           /\ HeadsAreTagged' /\ FilesAreCurrent'
<1>1. NoHeads \in Heads /\ DOMAIN NoHeads = {}
  <2>1. NoHeads \in [{} -> Revision] /\ DOMAIN NoHeads = {} BY DEF NoHeads
  <2> QED BY <2>1 DEF Heads
<1>2. NoTags \in [Revision -> SUBSET Branch] BY DEF NoTags
<1>3. stops \in 0 .. MaxStops /\ tears \in 0 .. stops BY DEF TimelineIInv, TimelineTypeOK
<1>4. stops' \in 0 .. MaxStops /\ tears' \in 0 .. stops' /\ (tears' = 0 => ~t /\ tears = 0)
  BY <1>3, TimelineAssumption DEF Stops
<1> QED BY <1>1, <1>2, <1>4 DEF Stops, HeadsAreTagged, FilesAreCurrent

\* The invariant after a step, part by part.
LEMMA TimelineAfter ==
    ASSUME /\ entries' \in Seq(TimelineEntry) /\ heads' \in Heads /\ tags' \in [Revision -> SUBSET Branch]
           /\ eventFile'.has \in Seq(TimelineEntry) /\ headFile'.has \in Heads
           /\ open' \in BOOLEAN /\ added' \in 0 .. MaxEvents /\ stops' \in 0 .. MaxStops /\ tears' \in 0 .. stops'
           /\ HeadsAreTagged' /\ FilesAreCurrent' /\ HeadsHaveEvents'
    PROVE  TimelineIInv'
<1>1. \A es \in Seq(TimelineEntry) : \A k \in DOMAIN es : es[k] \in TimelineEntry OBVIOUS
<1>2. TimelineTypeOK' BY <1>1 DEF TimelineTypeOK
<1> QED BY <1>2 DEF TimelineIInv

\* The steps that add an entry, with the branch it moves.
LEMMA EntryAdded ==
    ASSUME TimelineIInv, open, NEW e \in TimelineEntry, added' = added + 1, added < MaxEvents,
           \/ e.branch = NoBranch /\ Saves(Append(entries, e), heads, tags)
           \/ e.branch = NoBranch /\ SavesTimeline(Append(entries, e))
           \/ e.branch \in Branch /\ Saves(Append(entries, e), HeadsMoved(e.branch, e.id), Tagged(e.id, e.branch))
    PROVE  TimelineIInv'
<1> DEFINE es == Append(entries, e)
<1>1. /\ es \in Seq(TimelineEntry) /\ DOMAIN entries = 1 .. Len(entries) /\ DOMAIN es = 1 .. Len(entries) + 1
      /\ \A k \in DOMAIN entries : es[k] = entries[k]
      /\ es[Len(entries) + 1] = e /\ Len(entries) \in Nat
  BY DEF TimelineIInv
<1>2. e.id \in Revision /\ e.branch \in Branch \cup {NoBranch} BY DEF TimelineEntry
<1>3. NoHeads \in Heads /\ DOMAIN NoHeads = {}
  <2>1. NoHeads \in [{} -> Revision] /\ DOMAIN NoHeads = {} BY DEF NoHeads
  <2> QED BY <2>1 DEF Heads
<1>4. /\ NoTags \in [Revision -> SUBSET Branch] /\ Torn(NoHeads).has = NoHeads /\ Torn(<<>>).has = <<>>
      /\ \A x : Whole(x).has = x
  BY DEF NoTags, Torn, Whole
<1> DEFINE Good(hs, ts) ==
             /\ hs \in Heads /\ ts \in [Revision -> SUBSET Branch]
             /\ \A b \in DOMAIN hs : b \in ts[hs[b]]
             /\ tears = 0 => \A b \in DOMAIN hs : \E k \in DOMAIN es : es[k].branch = b /\ es[k].id = hs[b]
             /\ tears = 0 => \A b \in DOMAIN headFile.has : \E k \in DOMAIN es : es[k].branch = b /\ es[k].id = headFile.has[b]
<1>5. eventFile.has = entries /\ headFile.has = heads BY DEF TimelineIInv, FilesAreCurrent
<1>6. tears = 0 => \A b \in DOMAIN heads : \E k \in DOMAIN es : es[k].branch = b /\ es[k].id = heads[b]
  BY <1>1, <1>5 DEF TimelineIInv, HeadsHaveEvents
<1>7. Good(heads, tags) BY <1>5, <1>6 DEF TimelineIInv, TimelineTypeOK, HeadsAreTagged
<1>8. ASSUME e.branch \in Branch PROVE Good(HeadsMoved(e.branch, e.id), Tagged(e.id, e.branch))
  <2>0. /\ HeadsMoved(e.branch, e.id) \in Heads
        /\ DOMAIN HeadsMoved(e.branch, e.id) = DOMAIN heads \cup {e.branch}
        /\ \A x \in DOMAIN heads \cup {e.branch} :
              HeadsMoved(e.branch, e.id)[x] = IF x = e.branch THEN e.id ELSE heads[x]
    <3> HIDE DEF es, Good
    <3>1. e.branch \in Branch /\ e.id \in Revision BY <1>2, <1>8
    <3> DEFINE b == e.branch
               c == e.id
    <3>2. b \in Branch /\ c \in Revision BY <3>1
    <3> HIDE DEF b, c
    <3>3. /\ HeadsMoved(b, c) \in Heads /\ DOMAIN HeadsMoved(b, c) = DOMAIN heads \cup {b}
          /\ \A x \in DOMAIN heads \cup {b} : HeadsMoved(b, c)[x] = IF x = b THEN c ELSE heads[x]
      BY <3>2, HeadsChange
    <3> QED BY <3>3 DEF b, c
  <2> DEFINE hs == HeadsMoved(e.branch, e.id)
             ts == Tagged(e.id, e.branch)
  <2>1. /\ hs \in Heads /\ DOMAIN hs = DOMAIN heads \cup {e.branch}
        /\ \A x \in DOMAIN heads \cup {e.branch} : hs[x] = IF x = e.branch THEN e.id ELSE heads[x]
    BY <2>0
  <2>2. /\ ts \in [Revision -> SUBSET Branch] /\ e.branch \in ts[e.id]
        /\ \A x \in Revision : tags[x] \subseteq ts[x]
    BY <1>2, <1>8 DEF Tagged, TimelineIInv, TimelineTypeOK
  <2>3. \A b \in DOMAIN heads : heads[b] \in Revision BY HeadsDef DEF TimelineIInv, TimelineTypeOK
  <2> HIDE DEF hs, ts, es
  <2>4. \A b \in DOMAIN hs : b \in ts[hs[b]]
    BY <2>1, <2>2, <2>3 DEF TimelineIInv, HeadsAreTagged
  <2>5. tears = 0 => \A b \in DOMAIN hs : \E k \in DOMAIN es : es[k].branch = b /\ es[k].id = hs[b]
    BY <1>1, <1>6, <2>1
  <2>6. tears = 0 => \A b \in DOMAIN headFile.has : \E k \in DOMAIN es : es[k].branch = b /\ es[k].id = headFile.has[b]
    BY <1>5, <1>6
  <2> QED BY <2>1, <2>2, <2>4, <2>5, <2>6 DEF hs, ts
<1> HIDE DEF es, Good
<1>9. added' \in 0 .. MaxEvents BY TimelineAssumption DEF TimelineIInv, TimelineTypeOK
<1>m. /\ entries \in Seq(TimelineEntry) /\ open \in BOOLEAN /\ stops \in 0 .. MaxStops /\ tears \in 0 .. stops
      /\ headFile.has \in Heads
  BY DEF TimelineIInv, TimelineTypeOK
<1>n. <<>> \in Seq(TimelineEntry) OBVIOUS
<1>10. ASSUME NEW hs, NEW ts, Good(hs, ts), CallEnds(es, hs, ts), eventFile' = Whole(es), headFile'.has = hs
       PROVE  TimelineIInv'
  <2>1. entries' = es /\ heads' = hs /\ tags' = ts /\ open' = open /\ stops' = stops /\ tears' = tears /\ eventFile'.has = es
    BY <1>4, <1>10 DEF CallEnds
  <2>2. HeadsAreTagged' /\ FilesAreCurrent' BY <1>10, <2>1 DEF Good, HeadsAreTagged, FilesAreCurrent
  <2>3. HeadsHaveEvents' BY <1>10, <2>1 DEF Good, HeadsHaveEvents
  <2>4. hs \in Heads /\ ts \in [Revision -> SUBSET Branch] BY <1>10 DEF Good
  <2> HIDE DEF es
  <2> QED BY <1>1, <1>9, <1>m, <1>10, <2>1, <2>2, <2>3, <2>4, TimelineAfter DEF es
<1>11. ASSUME NEW t \in BOOLEAN, Stops(t), eventFile'.has \in {<<>>, es}, headFile'.has \in {heads, NoHeads},
              ~t => eventFile'.has = es /\ headFile'.has = heads
       PROVE  TimelineIInv'
  <2>0. tears' = 0 => ~t /\ tears = 0 BY <1>11, AfterStop
  <2>1. HeadsHaveEvents'
    <3>1. SUFFICES ASSUME tears' = 0
                   PROVE  \A b \in DOMAIN headFile'.has :
                            \E k \in DOMAIN eventFile'.has : eventFile'.has[k].branch = b /\ eventFile'.has[k].id = headFile'.has[b]
      BY DEF HeadsHaveEvents
    <3>2. eventFile'.has = es /\ headFile'.has = heads /\ tears = 0 BY <1>11, <2>0, <3>1
    <3> QED BY <1>7, <3>2 DEF Good
  <2> QED BY <1>1, <1>3, <1>5, <1>9, <1>m, <1>n, <1>11, <2>1, AfterStop, TimelineAfter DEF es
<1>12. ASSUME NEW hs, NEW ts, Good(hs, ts), Saves(es, hs, ts) PROVE TimelineIInv'
  <2>1. CASE CallEnds(es, hs, ts) /\ eventFile' = Whole(es) /\ headFile' = Whole(hs)
    BY <1>4, <1>10, <1>12, <2>1
  <2>2. CASE Stops(TRUE) /\ eventFile' = Torn(<<>>) /\ UNCHANGED headFile
    BY <1>4, <1>5, <1>11, <2>2
  <2>3. CASE Stops(FALSE) /\ eventFile' = Whole(es) /\ UNCHANGED headFile
    BY <1>4, <1>5, <1>11, <2>3
  <2>4. CASE Stops(TRUE) /\ eventFile' = Whole(es) /\ headFile' = Torn(NoHeads)
    BY <1>4, <1>11, <2>4
  <2> QED BY <1>12, <2>1, <2>2, <2>3, <2>4 DEF Saves
<1>13. CASE SavesTimeline(es)
  <2>1. headFile' = headFile BY <1>13 DEF SavesTimeline
  <2>2. CASE CallEnds(es, heads, tags) /\ eventFile' = Whole(es)
    BY <1>5, <1>7, <1>10, <2>1, <2>2
  <2>3. CASE Stops(TRUE) /\ eventFile' = Torn(<<>>)
    BY <1>4, <1>5, <1>11, <2>1, <2>3
  <2> QED BY <1>13, <2>2, <2>3 DEF SavesTimeline
<1> QED BY <1>7, <1>8, <1>12, <1>13 DEF es

LEMMA TimelineStep == TimelineIInv /\ [TimelineNext]_timelineVars => TimelineIInv'
<1> SUFFICES ASSUME TimelineIInv, [TimelineNext]_timelineVars PROVE TimelineIInv'
  OBVIOUS
<1>1. ASSUME NEW c \in Revision, NEW p \in Revision \cup {NoRevision}, NEW b \in Branch \cup {NoBranch}, AddCheckpoint(c, p, b)
      PROVE  TimelineIInv'
  <2> DEFINE e == NewEntry(c, "checkpoint", p, b)
  <2>1. e \in TimelineEntry /\ e.id = c /\ e.branch = b BY DEF NewEntry, TimelineEntry
  <2>2. /\ open /\ added' = added + 1 /\ added < MaxEvents
        /\ \/ b = NoBranch /\ Saves(Append(entries, e), heads, tags)
           \/ b \in Branch /\ Saves(Append(entries, e), HeadsMoved(b, c), Tagged(c, b))
    BY <1>1 DEF AddCheckpoint, Adds
  <2> HIDE DEF e
  <2> QED BY <2>1, <2>2, EntryAdded
<1>2. ASSUME NEW c \in Revision, AddRestore(c) PROVE TimelineIInv'
  <2> DEFINE e == NewEntry(c, "restore", NoRevision, NoBranch)
  <2>1. e \in TimelineEntry /\ e.branch = NoBranch BY DEF NewEntry, TimelineEntry
  <2>2. open /\ added' = added + 1 /\ added < MaxEvents /\ SavesTimeline(Append(entries, e)) BY <1>2 DEF AddRestore, Adds
  <2> HIDE DEF e
  <2> QED BY <2>1, <2>2, EntryAdded
<1>3. ASSUME NEW b \in Branch, NEW c \in Revision, CreateBranch(b, c) PROVE TimelineIInv'
  <2> DEFINE e == NewEntry(c, "branch", NoRevision, b)
  <2>1. e \in TimelineEntry /\ e.id = c /\ e.branch = b BY DEF NewEntry, TimelineEntry
  <2>2. /\ open /\ added' = added + 1 /\ added < MaxEvents
        /\ Saves(Append(entries, e), HeadsMoved(b, c), Tagged(c, b))
    BY <1>3 DEF CreateBranch, Adds
  <2> HIDE DEF e
  <2> QED BY <2>1, <2>2, EntryAdded
<1>4. ASSUME NEW b \in Branch, DeleteBranch(b) PROVE TimelineIInv'
  <2> DEFINE hs == [x \in DOMAIN heads \ {b} |-> heads[x]]
             ts == [tags EXCEPT ![heads[b]] = @ \ {b}]
  <2>1. /\ open /\ b \in DOMAIN heads /\ UNCHANGED added
        /\ \/ CallEnds(entries, hs, ts) /\ headFile' = Whole(hs)
           \/ Stops(TRUE) /\ headFile' = Torn(NoHeads)
        /\ UNCHANGED eventFile
    BY <1>4 DEF DeleteBranch, SavesBranches
  <2>2. heads \in Heads /\ \A x \in DOMAIN heads : heads[x] \in Revision BY HeadsDef DEF TimelineIInv, TimelineTypeOK
  <2>3. hs \in Heads /\ NoHeads \in Heads /\ DOMAIN NoHeads = {} BY <2>1, <2>2, HeadsChange
  <2>4. DOMAIN hs = DOMAIN heads \ {b} /\ \A x \in DOMAIN hs : hs[x] = heads[x] OBVIOUS
  <2>5. ts \in [Revision -> SUBSET Branch] /\ \A x \in Revision : tags[x] \ {b} \subseteq ts[x]
    BY <2>1, <2>2 DEF TimelineIInv, TimelineTypeOK
  <2>6. /\ NoTags \in [Revision -> SUBSET Branch] /\ Torn(NoHeads).has = NoHeads /\ \A x : Whole(x).has = x
    BY DEF NoTags, Torn, Whole
  <2>7. eventFile.has = entries /\ headFile.has = heads BY <2>1 DEF TimelineIInv, FilesAreCurrent
  <2> HIDE DEF hs, ts
  <2>8. /\ entries \in Seq(TimelineEntry) /\ open \in BOOLEAN /\ stops \in 0 .. MaxStops /\ tears \in 0 .. stops
        /\ added \in 0 .. MaxEvents
    BY DEF TimelineIInv, TimelineTypeOK
  <2>9. CASE CallEnds(entries, hs, ts) /\ headFile' = Whole(hs)
    <3>1. entries' = entries /\ heads' = hs /\ tags' = ts /\ open' = open /\ stops' = stops /\ tears' = tears
          /\ eventFile' = eventFile /\ headFile'.has = hs
      BY <2>1, <2>6, <2>9 DEF CallEnds
    <3>2. HeadsAreTagged' BY <2>2, <2>4, <2>5, <3>1 DEF TimelineIInv, HeadsAreTagged
    <3>3. FilesAreCurrent' BY <2>7, <3>1 DEF FilesAreCurrent
    <3>4. HeadsHaveEvents' BY <2>4, <2>7, <3>1 DEF TimelineIInv, HeadsHaveEvents
    <3> QED BY <2>1, <2>3, <2>5, <2>7, <2>8, <3>1, <3>2, <3>3, <3>4, TimelineAfter
  <2>10. CASE Stops(TRUE) /\ headFile' = Torn(NoHeads)
    <3>1. HeadsHaveEvents' BY <2>10, AfterStop DEF HeadsHaveEvents
    <3>2. <<>> \in Seq(TimelineEntry) OBVIOUS
    <3> QED BY <2>1, <2>3, <2>6, <2>7, <2>8, <2>10, <3>1, <3>2, AfterStop, TimelineAfter
  <2> QED BY <2>1, <2>9, <2>10
<1>5. CASE LoadTimeline
  <2>1. \A x \in DOMAIN headFile.has : headFile.has[x] \in Revision BY HeadsDef DEF TimelineIInv, TimelineTypeOK
  <2>2. DOMAIN headFile.has \subseteq Branch BY HeadsDef DEF TimelineIInv, TimelineTypeOK
  <2>3. tags' \in [Revision -> SUBSET Branch] BY <1>5, <2>2 DEF LoadTimeline
  <2> QED BY <1>5, <2>1, <2>3 DEF LoadTimeline, TimelineIInv, TimelineTypeOK, HeadsAreTagged, FilesAreCurrent, HeadsHaveEvents
<1>6. CASE UNCHANGED timelineVars
  BY <1>6 DEF timelineVars, TimelineIInv, TimelineTypeOK, HeadsAreTagged, FilesAreCurrent, HeadsHaveEvents
<1> QED BY <1>1, <1>2, <1>3, <1>4, <1>5, <1>6 DEF TimelineNext

LEMMA TimelineImplied == TimelineIInv => TimelineTypeOK /\ TimelineInv
BY NearestIsCommon DEF TimelineIInv, TimelineInv
-----------------------------------------------------------------------------
(* What OnlyIn returns *)

\* The prefixes' results, which the definition by recursion describes.
IsKept(upto, s, S) ==
    upto = [n \in 0 .. Len(s) |->
              IF n = 0 THEN <<>> ELSE IF s[n] \in S THEN Append(upto[n - 1], s[n]) ELSE upto[n - 1]]

LEMMA KeptExists == ASSUME NEW s, Len(s) \in Nat, NEW S PROVE \E upto : IsKept(upto, s, S) /\ OnlyIn(s, S) = upto[Len(s)]
<1> DEFINE N == Len(s)
           After(f, n) == IF n = 0 THEN <<>> ELSE IF s[n] \in S THEN Append(f[n - 1], s[n]) ELSE f[n - 1]
           P == {k \in 0 .. N : \E f : f = [n \in 0 .. k |-> After(f, n)]}
<1>0. N \in Nat OBVIOUS
<1>1. 0 \in P
  <2> DEFINE only == [n \in 0 .. 0 |-> <<>>]
  <2>1. only = [n \in 0 .. 0 |-> After(only, n)] OBVIOUS
  <2> HIDE DEF only, After
  <2> QED BY <2>1, <1>0
<1>2. ASSUME NEW k \in P, k < N PROVE k + 1 \in P
  <2>1. PICK f : f = [n \in 0 .. k |-> After(f, n)] OBVIOUS
  <2> DEFINE g == [n \in 0 .. k + 1 |-> After(f, n)]
  <2>2. \A n \in 0 .. k : f[n] = g[n]
    <3>1. \A n \in 0 .. k : n \in 0 .. k + 1 BY <1>0
    <3> HIDE DEF After, P
    <3> QED BY <2>1, <3>1
  <2> HIDE DEF g
  <2>3. \A n \in 0 .. k + 1 : After(f, n) = After(g, n)
    <3>1. \A n \in 0 .. k + 1 : n = 0 \/ n - 1 \in 0 .. k BY <1>0
    <3> QED BY <2>2, <3>1
  <2> HIDE DEF After
  <2>4. g = [n \in 0 .. k + 1 |-> After(g, n)] BY <2>3 DEF g
  <2>5. k + 1 \in 0 .. N BY <1>0, <1>2
  <2>6. \E h : h = [n \in 0 .. k + 1 |-> After(h, n)] BY <2>4
  <2> QED BY <2>5, <2>6
<1>3. P = 0 .. N
  <2>1. P \in SUBSET (0 .. N) OBVIOUS
  <2> HIDE DEF P, N
  <2> QED BY <1>0, <1>1, <1>2, <2>1, Induction
<1>4. \E upto : upto = [n \in 0 .. N |-> After(upto, n)] BY <1>3, <1>0
<1> DEFINE upto == CHOOSE upto : upto = [n \in 0 .. N |-> After(upto, n)]
<1>5. upto = [n \in 0 .. N |-> After(upto, n)] BY <1>4
<1>6. OnlyIn(s, S) = upto[N] BY DEF OnlyIn
<1> HIDE DEF upto
<1> QED BY <1>5, <1>6 DEF IsKept

\* What it returns grows with the sequence.
LEMMA OnlyInAppend ==
    ASSUME NEW A, NEW s \in Seq(A), NEW x \in A, NEW S
    PROVE  OnlyIn(Append(s, x), S) = IF x \in S THEN Append(OnlyIn(s, S), x) ELSE OnlyIn(s, S)
<1> DEFINE t == Append(s, x)
           N == Len(s)
<1>1. N \in Nat /\ Len(t) = N + 1 /\ t[N + 1] = x /\ \A n \in 1 .. N : t[n] = s[n] BY AppendProperties
<1>2. PICK f : IsKept(f, s, S) /\ OnlyIn(s, S) = f[N] BY <1>1, KeptExists
<1>3. PICK g : IsKept(g, t, S) /\ OnlyIn(t, S) = g[N + 1]
  <2> HIDE DEF t, N
  <2> QED BY <1>1, KeptExists
<1> HIDE DEF t, N
<1>4. g[0] = <<>> /\ \A n \in 1 .. N + 1 : g[n] = IF t[n] \in S THEN Append(g[n - 1], t[n]) ELSE g[n - 1]
  <2>1. \A n \in 1 .. N + 1 : n \in 0 .. N + 1 /\ n # 0 BY <1>1
  <2>2. 0 \in 0 .. N + 1 BY <1>1
  <2> QED BY <1>1, <1>3, <2>1, <2>2 DEF IsKept
<1>5. f[0] = <<>> /\ \A n \in 1 .. N : f[n] = IF s[n] \in S THEN Append(f[n - 1], s[n]) ELSE f[n - 1]
  <2>1. \A n \in 1 .. N : n \in 0 .. N /\ n # 0 BY <1>1
  <2>2. 0 \in 0 .. N BY <1>1
  <2> QED BY <1>2, <2>1, <2>2 DEF IsKept, N
<1>6. \A n \in 1 .. N : n \in 1 .. N + 1 BY <1>1
<1>7. \A n \in 1 .. N : g[n - 1] = f[n - 1] => g[n] = f[n] BY <1>1, <1>4, <1>5, <1>6
<1>8. \A n \in 0 .. N : g[n] = f[n]
  <2>1. N \in Nat BY <1>1
  <2>2. g[0] = f[0] BY <1>4, <1>5
  <2>3. StepAlike(g, f, N) BY <2>2, <1>7 DEF StepAlike
  <2>4. Alike(g, f, N) BY <2>1, <2>3, Determined
  <2> QED BY <2>4 DEF Alike
<1>9. N + 1 \in 1 .. N + 1 /\ (N + 1) - 1 = N /\ N \in 0 .. N BY <1>1
<1>10. g[N + 1] = IF x \in S THEN Append(f[N], x) ELSE f[N] BY <1>1, <1>4, <1>8, <1>9
<1> QED BY <1>2, <1>3, <1>10 DEF t

LEMMA OnlyInEmpty == ASSUME NEW S PROVE OnlyIn(<<>>, S) = <<>>
<1>1. Len(<<>>) = 0 BY EmptySeq
<1>2. PICK f : IsKept(f, <<>>, S) /\ OnlyIn(<<>>, S) = f[0] BY <1>1, KeptExists
<1> QED BY <1>1, <1>2 DEF IsKept

\* t is s without some of its elements: where each element of t was in s.
Places(g, t, s) ==
    /\ g \in [1 .. Len(t) -> 1 .. Len(s)]
    /\ \A i, j \in 1 .. Len(t) : i < j => g[i] < g[j]
    /\ \A i \in 1 .. Len(t) : t[i] = s[g[i]]

\* t is what is left of s, a sequence over A, by a filter S: its elements that
\* are in S, each once, in their order, and fewer when one is not.
IsFiltered(t, s, A, S) ==
    /\ t \in Seq(A \cap S) /\ t \in Seq(A)
    /\ Len(t) \in Nat /\ Len(t) <= Len(s)
    /\ (\E i \in 1 .. Len(s) : s[i] \notin S) => Len(t) < Len(s)
    /\ \E g : Places(g, t, s)
    /\ \A i \in 1 .. Len(s) : s[i] \in S => \E j \in 1 .. Len(t) : t[j] = s[i]

LEMMA OnlyInFilters == ASSUME NEW A, NEW s \in Seq(A), NEW S PROVE IsFiltered(OnlyIn(s, S), s, A, S)
<1> DEFINE N == Len(s)
<1>0. N \in Nat /\ \A n \in 1 .. N : s[n] \in A OBVIOUS
<1>1. PICK u : IsKept(u, s, S) /\ OnlyIn(s, S) = u[N] BY <1>0, KeptExists
<1> DEFINE FineAs(t, n) ==
             /\ t \in Seq(A \cap S) /\ Len(t) <= n
             /\ (\E i \in 1 .. n : s[i] \notin S) => Len(t) < n
             /\ \E g : /\ g \in [1 .. Len(t) -> 1 .. n]
                       /\ \A i, j \in 1 .. Len(t) : i < j => g[i] < g[j]
                       /\ \A i \in 1 .. Len(t) : t[i] = s[g[i]]
             /\ \A i \in 1 .. n : s[i] \in S => \E j \in 1 .. Len(t) : t[j] = s[i]
           Fine(n) == FineAs(u[n], n)
           P == {n \in 0 .. N : Fine(n)}
<1>2. 0 \in P
  <2>1. u[0] = <<>> BY <1>0, <1>1 DEF IsKept
  <2>2. u[0] \in Seq(A \cap S) /\ Len(u[0]) = 0 BY <2>1, EmptySeq
  <2> DEFINE g == [i \in 1 .. 0 |-> 0]
  <2>3. /\ g \in [1 .. Len(u[0]) -> 1 .. 0]
        /\ \A i, j \in 1 .. Len(u[0]) : i < j => g[i] < g[j]
        /\ \A i \in 1 .. Len(u[0]) : u[0][i] = s[g[i]]
    BY <2>2
  <2> HIDE DEF g
  <2>4. Fine(0) BY <2>2, <2>3
  <2> QED BY <1>0, <2>4
<1>3. ASSUME NEW n \in P, n < N PROVE n + 1 \in P
  <2>1. n \in 0 .. N /\ n \in Nat /\ n + 1 \in 1 .. N /\ n + 1 \in 0 .. N BY <1>0, <1>3
  <2>2. /\ u[n] \in Seq(A \cap S) /\ Len(u[n]) <= n
        /\ (\E i \in 1 .. n : s[i] \notin S) => Len(u[n]) < n
        /\ \A i \in 1 .. n : s[i] \in S => \E j \in 1 .. Len(u[n]) : u[n][j] = s[i]
    OBVIOUS
  <2>3. PICK g : /\ g \in [1 .. Len(u[n]) -> 1 .. n]
                 /\ \A i, j \in 1 .. Len(u[n]) : i < j => g[i] < g[j]
                 /\ \A i \in 1 .. Len(u[n]) : u[n][i] = s[g[i]]
    OBVIOUS
  <2>4. u[n + 1] = IF s[n + 1] \in S THEN Append(u[n], s[n + 1]) ELSE u[n]
    <3>1. n + 1 # 0 /\ (n + 1) - 1 = n BY <2>1
    <3> HIDE DEF Fine, P
    <3> QED BY <1>1, <2>1, <3>1 DEF IsKept
  <2>5. \A i \in 1 .. n + 1 : i \in 1 .. n \/ i = n + 1 BY <2>1
  <2> HIDE DEF P, N
  <2>6. CASE s[n + 1] \in S
    <3> DEFINE L == Len(u[n])
    <3>0. L \in Nat BY <2>2
    <3>1. u[n + 1] = Append(u[n], s[n + 1]) BY <2>4, <2>6
    <3>2. s[n + 1] \in A \cap S BY <1>0, <2>1, <2>6 DEF N
    <3>3. /\ u[n + 1] \in Seq(A \cap S) /\ Len(u[n + 1]) = L + 1
          /\ \A i \in 1 .. L : u[n + 1][i] = u[n][i]
          /\ u[n + 1][L + 1] = s[n + 1]
      BY <2>2, <3>1, <3>2, AppendProperties
    <3> DEFINE h == [i \in 1 .. L + 1 |-> IF i = L + 1 THEN n + 1 ELSE g[i]]
    <3> HIDE DEF L
    <3>4. \A i \in 1 .. L + 1 : i \in 1 .. L \/ i = L + 1 BY <3>0
    <3>40. \A i \in 1 .. L : i \in 1 .. L + 1 /\ i # L + 1 BY <3>0
    <3>41. L + 1 \in 1 .. L + 1 BY <3>0
    <3>42. h[L + 1] = n + 1 /\ \A i \in 1 .. L : h[i] = g[i] BY <3>40, <3>41
    <3>43. \A i \in 1 .. L : g[i] \in 1 .. n /\ g[i] \in 1 .. n + 1 /\ g[i] < n + 1
      <4>1. \A i \in 1 .. L : g[i] \in 1 .. n BY <2>3 DEF L
      <4>2. \A x \in 1 .. n : x \in 1 .. n + 1 /\ x < n + 1 BY <2>1
      <4> QED BY <4>1, <4>2
    <3>44. DOMAIN h = 1 .. L + 1 OBVIOUS
    <3>45. \A i \in 1 .. L + 1 : h[i] \in 1 .. n + 1 BY <2>1, <3>4, <3>42, <3>43
    <3>5. h \in [1 .. L + 1 -> 1 .. n + 1] BY <3>45
    <3> HIDE DEF h
    <3>6. \A i, j \in 1 .. L + 1 : i < j => h[i] < h[j]
      <4> TAKE i, j \in 1 .. L + 1
      <4>1. CASE j = L + 1 BY <3>0, <3>4, <3>42, <3>43, <4>1
      <4>2. CASE j \in 1 .. L BY <3>0, <3>4, <3>42, <2>3, <4>2 DEF L
      <4> QED BY <3>4, <4>1, <4>2
    <3>7. \A i \in 1 .. L + 1 : u[n + 1][i] = s[h[i]] BY <2>3, <3>3, <3>4, <3>42 DEF L
    <3>8. \A i \in 1 .. n + 1 : s[i] \in S => \E j \in 1 .. L + 1 : u[n + 1][j] = s[i]
      BY <2>2, <2>5, <3>3, <3>40, <3>41 DEF L
    <3>9. L + 1 <= n + 1 /\ ((\E i \in 1 .. n + 1 : s[i] \notin S) => L + 1 < n + 1)
      BY <2>1, <2>2, <2>5, <2>6, <3>0 DEF L
    <3>10. Fine(n + 1) BY <3>3, <3>5, <3>6, <3>7, <3>8, <3>9
    <3> QED BY <2>1, <3>10 DEF P
  <2>7. CASE s[n + 1] \notin S
    <3>1. u[n + 1] = u[n] BY <2>4, <2>7
    <3>2. g \in [1 .. Len(u[n]) -> 1 .. n + 1] BY <2>1, <2>3
    <3>3. Len(u[n]) <= n + 1 /\ Len(u[n]) < n + 1 BY <2>1, <2>2
    <3>4. \A i \in 1 .. n + 1 : s[i] \in S => \E j \in 1 .. Len(u[n]) : u[n][j] = s[i] BY <2>2, <2>5, <2>7
    <3>40. \E h : /\ h \in [1 .. Len(u[n]) -> 1 .. n + 1]
                  /\ \A i, j \in 1 .. Len(u[n]) : i < j => h[i] < h[j]
                  /\ \A i \in 1 .. Len(u[n]) : u[n][i] = s[h[i]]
      BY <2>3, <3>2
    <3>5. FineAs(u[n], n + 1) BY <2>2, <3>3, <3>4, <3>40
    <3>6. FineAs(u[n + 1], n + 1)
      <4> HIDE DEF FineAs
      <4> QED BY <3>1, <3>5
    <3> QED BY <2>1, <3>6 DEF P
  <2> QED BY <2>6, <2>7
<1>4. P = 0 .. N
  <2>1. P \in SUBSET (0 .. N) OBVIOUS
  <2> HIDE DEF P, N
  <2> QED BY <1>0, <1>2, <1>3, <2>1, Induction
<1>5. Fine(N)
  <2>1. N \in P
    <3> HIDE DEF P, N
    <3> QED BY <1>0, <1>4
  <2> HIDE DEF Fine
  <2> QED BY <2>1
<1>6. u[N] \in Seq(A) /\ Len(u[N]) \in Nat BY <1>5, SeqMonotonic
<1>7. \E g : Places(g, u[N], s) BY <1>5 DEF Places
<1>8. N = Len(s) OBVIOUS
<1> HIDE DEF N
<1> QED BY <1>1, <1>5, <1>6, <1>7, <1>8 DEF IsFiltered
-----------------------------------------------------------------------------
(* The configuration *)

\* The later of two trees decides,
LEMMA UpdateDecides ==
    ASSUME NEW first, NEW update, NEW k, NEW i, NEW v, HasValue(update, k, i, v)
    PROVE  HasValue(DeepMerge(first, update), k, i, v)
<1> DEFINE both(x) == x \in DOMAIN first /\ x \in DOMAIN update /\ first[x].dict /\ update[x].dict
           t == DeepMerge(first, update)
<1>1. k \in DOMAIN update /\ update[k].dict /\ i \in DOMAIN update[k].items /\ update[k].items[i] = v BY DEF HasValue
<1>2. t = [x \in DOMAIN first \cup DOMAIN update |->
             IF both(x) THEN Dict(Laid(update[x].items, first[x].items))
             ELSE IF x \in DOMAIN update THEN update[x] ELSE first[x]]
  BY DEF DeepMerge
<1> SUFFICES HasValue(t, k, i, v) OBVIOUS
<1> HIDE DEF t
<1>3. k \in DOMAIN t BY <1>1, <1>2
<1>4. CASE both(k)
  <2>1. t[k] = Dict(Laid(update[k].items, first[k].items)) BY <1>1, <1>2, <1>4
  <2>2. t[k].dict /\ t[k].items = Laid(update[k].items, first[k].items) BY <2>1 DEF Dict
  <2>3. i \in DOMAIN Laid(update[k].items, first[k].items) /\ Laid(update[k].items, first[k].items)[i] = v BY <1>1 DEF Laid
  <2> QED BY <1>3, <2>2, <2>3 DEF HasValue
<1>5. CASE ~both(k)
  <2>1. t[k] = update[k] BY <1>1, <1>2, <1>5
  <2> QED BY <1>1, <1>3, <2>1 DEF HasValue
<1> QED BY <1>4, <1>5

\* and where it does not, what was there stays.
LEMMA BaseStays ==
    ASSUME NEW first, NEW update, NEW k, NEW i, NEW v, HasValue(first, k, i, v), ~Decides(update, k, i)
    PROVE  HasValue(DeepMerge(first, update), k, i, v)
<1> DEFINE both(x) == x \in DOMAIN first /\ x \in DOMAIN update /\ first[x].dict /\ update[x].dict
           t == DeepMerge(first, update)
<1>1. k \in DOMAIN first /\ first[k].dict /\ i \in DOMAIN first[k].items /\ first[k].items[i] = v BY DEF HasValue
<1>2. k \notin DOMAIN update \/ (k \in DOMAIN update /\ update[k].dict /\ i \notin DOMAIN update[k].items) BY DEF Decides
<1>3. t = [x \in DOMAIN first \cup DOMAIN update |->
             IF both(x) THEN Dict(Laid(update[x].items, first[x].items))
             ELSE IF x \in DOMAIN update THEN update[x] ELSE first[x]]
  BY DEF DeepMerge
<1> SUFFICES HasValue(t, k, i, v) OBVIOUS
<1> HIDE DEF t
<1>4. k \in DOMAIN t BY <1>1, <1>3
<1>5. CASE k \in DOMAIN update /\ update[k].dict /\ i \notin DOMAIN update[k].items
  <2>1. t[k] = Dict(Laid(update[k].items, first[k].items)) BY <1>1, <1>3, <1>5
  <2>2. t[k].dict /\ t[k].items = Laid(update[k].items, first[k].items) BY <2>1 DEF Dict
  <2>3. i \in DOMAIN Laid(update[k].items, first[k].items) /\ Laid(update[k].items, first[k].items)[i] = v
    BY <1>1, <1>5 DEF Laid
  <2> QED BY <1>4, <2>2, <2>3 DEF HasValue
<1>6. CASE k \notin DOMAIN update
  <2>1. t[k] = first[k] BY <1>1, <1>3, <1>6
  <2> QED BY <1>1, <1>4, <2>1 DEF HasValue
<1> QED BY <1>2, <1>5, <1>6

\* The trees merged one after the other, which the definition by recursion describes.
IsMerged(upto, trees) ==
    upto = [n \in 0 .. Len(trees) |-> IF n = 0 THEN NoItems ELSE DeepMerge(upto[n - 1], trees[n].tree)]

LEMMA MergedExists == ASSUME NEW trees, Len(trees) \in Nat PROVE \E upto : IsMerged(upto, trees) /\ Merge(trees) = upto[Len(trees)]
<1> DEFINE N == Len(trees)
           After(f, n) == IF n = 0 THEN NoItems ELSE DeepMerge(f[n - 1], trees[n].tree)
           P == {k \in 0 .. N : \E f : f = [n \in 0 .. k |-> After(f, n)]}
<1>0. N \in Nat OBVIOUS
<1>1. 0 \in P
  <2> DEFINE only == [n \in 0 .. 0 |-> NoItems]
  <2>1. only = [n \in 0 .. 0 |-> After(only, n)] OBVIOUS
  <2> HIDE DEF only, After
  <2> QED BY <2>1, <1>0
<1>2. ASSUME NEW k \in P, k < N PROVE k + 1 \in P
  <2>1. PICK f : f = [n \in 0 .. k |-> After(f, n)] OBVIOUS
  <2> DEFINE g == [n \in 0 .. k + 1 |-> After(f, n)]
  <2>2. \A n \in 0 .. k : f[n] = g[n]
    <3>1. \A n \in 0 .. k : n \in 0 .. k + 1 BY <1>0
    <3> HIDE DEF After, P
    <3> QED BY <2>1, <3>1
  <2> HIDE DEF g
  <2>3. \A n \in 0 .. k + 1 : After(f, n) = After(g, n)
    <3>1. \A n \in 0 .. k + 1 : n = 0 \/ n - 1 \in 0 .. k BY <1>0
    <3> QED BY <2>2, <3>1
  <2> HIDE DEF After
  <2>4. g = [n \in 0 .. k + 1 |-> After(g, n)] BY <2>3 DEF g
  <2>5. k + 1 \in 0 .. N BY <1>0, <1>2
  <2>6. \E h : h = [n \in 0 .. k + 1 |-> After(h, n)] BY <2>4
  <2> QED BY <2>5, <2>6
<1>3. P = 0 .. N
  <2>1. P \in SUBSET (0 .. N) OBVIOUS
  <2> HIDE DEF P, N
  <2> QED BY <1>0, <1>1, <1>2, <2>1, Induction
<1>4. \E upto : upto = [n \in 0 .. N |-> After(upto, n)] BY <1>3, <1>0
<1> DEFINE upto == CHOOSE upto : upto = [n \in 0 .. N |-> After(upto, n)]
<1>5. upto = [n \in 0 .. N |-> After(upto, n)] BY <1>4
<1>6. Merge(trees) = upto[N] BY DEF Merge
<1> HIDE DEF upto
<1> QED BY <1>5, <1>6 DEF IsMerged

\* The last tree that decides about a setting has the say in what is merged.
LEMMA LastDecides ==
    ASSUME NEW trees, Len(trees) \in Nat, NEW k, NEW i, NEW m \in 1 .. Len(trees), NEW v,
           HasValue(trees[m].tree, k, i, v),
           \A j \in 1 .. Len(trees) : Decides(trees[j].tree, k, i) => j <= m
    PROVE  HasValue(Merge(trees), k, i, v)
<1> DEFINE N == Len(trees)
<1>0. N \in Nat /\ m \in 1 .. N OBVIOUS
<1>1. PICK u : IsMerged(u, trees) /\ Merge(trees) = u[N] BY MergedExists
<1> DEFINE P == {n \in 0 .. N : n >= m => HasValue(u[n], k, i, v)}
<1>2. 0 \in P BY <1>0
<1>3. ASSUME NEW n \in P, n < N PROVE n + 1 \in P
  <2>0. n \in Nat /\ n + 1 \in 0 .. N /\ n + 1 \in 1 .. N /\ n + 1 # 0 /\ (n + 1) - 1 = n BY <1>0, <1>3
  <2>1. u[n + 1] = DeepMerge(u[n], trees[n + 1].tree)
    <3> HIDE DEF P
    <3> QED BY <1>1, <2>0 DEF IsMerged
  <2>2. n >= m => HasValue(u[n], k, i, v) OBVIOUS
  <2>3. CASE n + 1 = m BY <2>0, <2>1, <2>3, UpdateDecides
  <2>4. CASE n >= m
    <3>1. ~Decides(trees[n + 1].tree, k, i) BY <1>0, <2>0, <2>4
    <3> QED BY <2>0, <2>1, <2>2, <2>4, <3>1, BaseStays
  <2>5. CASE ~(n + 1 >= m) BY <2>0, <2>5
  <2> QED BY <1>0, <2>0, <2>3, <2>4, <2>5
<1>4. P = 0 .. N
  <2>1. P \in SUBSET (0 .. N) OBVIOUS
  <2> HIDE DEF P, N
  <2> QED BY <1>0, <1>2, <1>3, <2>1, Induction
<1>5. N \in P /\ N >= m
  <2> HIDE DEF P
  <2> QED BY <1>0, <1>4
<1> QED BY <1>1, <1>5

\* What ConfigTypeOK says, and that the configuration is what was merged.
ConfigIInv ==
    /\ ConfigTypeOK
    /\ holds \in [Source -> Contents] /\ sources \in Seq(Source) /\ observers \in Seq(SourceFile)
    /\ DOMAIN merged = 1 .. Len(merged) /\ Len(merged) \in Nat
    /\ merged # <<>> => config.tree = Merge(merged)

LEMMA ConfigImplied == ASSUME ConfigIInv PROVE ConfigTypeOK /\ LastOneWins
<1>1. ASSUME NEW k \in Sections, NEW i \in {"level", "path"}, NEW n \in DOMAIN merged,
             Decides(merged[n].tree, k, i), merged[n].tree[k].dict,
             \A m \in DOMAIN merged : Decides(merged[m].tree, k, i) => m <= n
      PROVE  HasValue(config.tree, k, i, merged[n].tree[k].items[i])
  <2> DEFINE v == merged[n].tree[k].items[i]
  <2>1. HasValue(merged[n].tree, k, i, v) BY <1>1 DEF Decides, HasValue
  <2>2. n \in 1 .. Len(merged) /\ Len(merged) \in Nat BY DEF ConfigIInv
  <2>3. \A j \in 1 .. Len(merged) : Decides(merged[j].tree, k, i) => j <= n BY <1>1 DEF ConfigIInv
  <2> HIDE DEF v
  <2> DEFINE trees == merged
  <2> HIDE DEF trees
  <2>4. HasValue(Merge(trees), k, i, v) BY <2>1, <2>2, <2>3, LastDecides DEF trees
  <2>5. merged # <<>>
    <3>1. Len(<<>>) = 0 /\ Len(merged) # 0 BY <2>2
    <3> QED BY <3>1
  <2> QED BY <2>4, <2>5 DEF ConfigIInv, trees, v
<1>2. LastOneWins BY <1>1 DEF LastOneWins
<1> QED BY <1>2 DEF ConfigIInv

LEMMA ConfigStart == ASSUME ConfigAssumption, ConfigInit PROVE ConfigIInv
<1>1. sources \in Seq(Source) /\ Len(sources) = 0 /\ DOMAIN sources = {} BY EmptySeq DEF ConfigInit
<1>2. observers \in Seq(SourceFile) /\ Len(observers) = 0 /\ DOMAIN observers = {} BY EmptySeq DEF ConfigInit
<1>3. merged = <<>> /\ Len(merged) = 0 /\ DOMAIN merged = 1 .. Len(merged) BY DEF ConfigInit
<1>30. \A s \in Source : holds[s].kind \in {"tree", "missing", "broken"} BY DEF ConfigInit, ConfigAssumption
<1>31. config.kind = "missing" BY DEF ConfigInit, Missing
<1>32. loads \in 0 .. MaxLoads /\ changes \in 0 .. MaxChanges
  <2>1. MaxLoads \in Nat /\ MaxChanges \in Nat BY DEF ConfigAssumption
  <2> QED BY <2>1 DEF ConfigInit
<1>4. ConfigTypeOK BY <1>1, <1>2, <1>30, <1>31, <1>32 DEF ConfigInit, ConfigTypeOK
<1> QED BY <1>1, <1>2, <1>3, <1>4 DEF ConfigIInv, ConfigInit

LEMMA ConfigStep == ASSUME ConfigAssumption, ConfigIInv, ConfigNext PROVE ConfigIInv'
<1>1. /\ holds \in [Source -> Contents] /\ sources \in Seq(Source) /\ observers \in Seq(SourceFile)
      /\ DOMAIN sources = 1 .. Len(sources) /\ DOMAIN observers = 1 .. Len(observers)
      /\ Len(sources) \in Nat /\ Len(observers) \in Nat
      /\ SourceFile \subseteq Source /\ MaxLoads \in Nat /\ MaxChanges \in Nat
      /\ \A c \in Contents : c.kind \in {"tree", "missing", "broken"}
      /\ ConfigTypeOK
  BY DEF ConfigIInv, ConfigAssumption
<1>2. ASSUME NEW s \in Source, AddSource(s) PROVE ConfigIInv'
  <2>1. UNCHANGED <<holds, environ, config, loading, observers, dead, loads, changes, merged>> BY <1>2 DEF AddSource
  <2>2. PICK before : sources' = OnlyIn(sources, before) \o <<s>> \o OnlyIn(sources, Source \ before)
    BY <1>2 DEF AddSource
  <2> DEFINE x == sources
             a == OnlyIn(x, before)
             b == OnlyIn(x, Source \ before)
  <2>3. a \in Seq(Source) /\ b \in Seq(Source)
    <3>1. x \in Seq(Source) BY <1>1
    <3> HIDE DEF x
    <3>2. IsFiltered(a, x, Source, before) /\ IsFiltered(b, x, Source, Source \ before) BY <3>1, OnlyInFilters
    <3> QED BY <3>2 DEF IsFiltered
  <2>4. sources' = (a \o <<s>>) \o b BY <2>2
  <2> HIDE DEF a, b
  <2>5. <<s>> \in Seq(Source) BY <1>2
  <2>6. sources' \in Seq(Source) BY <2>3, <2>4, <2>5, ConcatProperties
  <2>7. \A k \in DOMAIN sources' : sources'[k] \in Source
    <3>1. DOMAIN sources' = 1 .. Len(sources') BY <2>6
    <3> QED BY <2>6, <3>1
  <2>8. ConfigTypeOK' BY <1>1, <2>1, <2>7 DEF ConfigTypeOK
  <2> QED BY <2>1, <2>6, <2>8 DEF ConfigIInv
<1>3. ASSUME NEW s \in Source, FileChanges(s) PROVE ConfigIInv'
  <2>1. /\ s \in SourceFile /\ changes' = changes + 1 /\ changes < MaxChanges
        /\ dead' = dead \cup {k \in DOMAIN observers : observers[k] = s}
        /\ UNCHANGED <<environ, sources, config, loading, observers, loads, merged>>
    BY <1>3 DEF FileChanges
  <2>2. PICK c \in Contents : holds' = [holds EXCEPT ![s] = c] BY <1>3 DEF FileChanges
  <2>3. holds' \in [Source -> Contents] BY <1>1, <2>2
  <2>4. changes' \in 0 .. MaxChanges BY <1>1, <2>1 DEF ConfigTypeOK
  <2>5. ConfigTypeOK' BY <1>1, <2>1, <2>3, <2>4 DEF ConfigTypeOK
  <2> QED BY <2>1, <2>3, <2>5 DEF ConfigIInv
<1>4. ASSUME LoadConfig PROVE ConfigIInv'
  <2>1. loads' \in 0 .. MaxLoads BY <1>1, <1>4 DEF LoadConfig, ConfigTypeOK
  <2>2. UNCHANGED <<holds, environ, sources, observers, dead, changes>> BY <1>4 DEF LoadConfig
  <2>3. CASE UNCHANGED <<config, loading, merged>>
    <3>1. ConfigTypeOK' BY <1>1, <2>1, <2>2, <2>3 DEF ConfigTypeOK
    <3> QED BY <2>2, <2>3, <3>1 DEF ConfigIInv
  <2>4. CASE config' = Parsed(Merge(Trees)) /\ merged' = Trees /\ loading' = TRUE
    <3>1. config'.kind = "tree" /\ config'.tree = Merge(Trees) BY <2>4 DEF Parsed
    <3>2. ConfigTypeOK' BY <1>1, <2>1, <2>2, <2>4, <3>1 DEF ConfigTypeOK
    <3>3. DOMAIN Trees = 1 .. Len(Trees) /\ Len(Trees) \in Nat
      <4> DEFINE x == sources
                 K == {s \in Source : holds[s].kind # "broken"}
                 kept == OnlyIn(x, K)
                 readFrom(s) == [tree |-> holds[s].tree, priority |-> Priority[s]]
                 env == [tree |-> Variables(environ).tree, priority |-> 0]
                 A == {readFrom(s) : s \in Source} \cup {env}
                 a == [k \in DOMAIN kept |-> readFrom(kept[k])]
      <4>1. Trees = a \o <<env>> BY DEF Trees
      <4>2. kept \in Seq(Source)
        <5>1. x \in Seq(Source) BY <1>1
        <5> HIDE DEF x, K
        <5>2. IsFiltered(kept, x, Source, K) BY <5>1, OnlyInFilters
        <5> QED BY <5>2 DEF IsFiltered
      <4> HIDE DEF kept, readFrom, env
      <4>3. DOMAIN kept = 1 .. Len(kept) /\ Len(kept) \in Nat /\ \A k \in 1 .. Len(kept) : kept[k] \in Source BY <4>2
      <4>4. a \in [1 .. Len(kept) -> A] BY <4>3
      <4>5. env \in A OBVIOUS
      <4> HIDE DEF A, a
      <4>6. a \in Seq(A) /\ <<env>> \in Seq(A) BY <4>3, <4>4, <4>5
      <4>7. a \o <<env>> \in Seq(A) BY <4>6, ConcatProperties
      <4> QED BY <4>1, <4>7
    <3> QED BY <1>1, <2>2, <2>4, <3>1, <3>2, <3>3 DEF ConfigIInv
  <2> QED BY <1>4, <2>3, <2>4 DEF LoadConfig
<1>5. ASSUME SetupHotReload PROVE ConfigIInv'
  <2>1. loading' = FALSE /\ UNCHANGED <<holds, environ, sources, config, dead, loads, changes, merged>>
    BY <1>5 DEF SetupHotReload
  <2>2. observers' \in Seq(SourceFile) /\ DOMAIN observers \subseteq DOMAIN observers'
    <3> DEFINE x == sources
               S == {s \in SourceFile : holds[s].kind # "missing"}
               more == OnlyIn(x, S)
    <3>1. more \in Seq(SourceFile)
      <4>1. x \in Seq(Source) BY <1>1
      <4>2. Source \cap S \subseteq SourceFile OBVIOUS
      <4> HIDE DEF x, S
      <4>3. IsFiltered(more, x, Source, S) BY <4>1, OnlyInFilters
      <4>4. more \in Seq(Source \cap S) BY <4>3 DEF IsFiltered
      <4> HIDE DEF more
      <4> QED BY <4>2, <4>4, SeqMonotonic
    <3>2. observers' = observers \/ observers' = observers \o more BY <1>5 DEF SetupHotReload
    <3> HIDE DEF more
    <3>3. CASE observers' = observers BY <1>1, <3>3
    <3>4. CASE observers' = observers \o more
      <4>1. observers' \in Seq(SourceFile) /\ Len(observers') = Len(observers) + Len(more)
        BY <1>1, <3>1, <3>4, ConcatProperties
      <4>2. Len(more) \in Nat BY <3>1
      <4>3. DOMAIN observers' = 1 .. Len(observers') BY <4>1
      <4> QED BY <1>1, <4>1, <4>2, <4>3
    <3> QED BY <3>2, <3>3, <3>4
  <2>3. \A k \in DOMAIN observers' : observers'[k] \in SourceFile
    <3>1. DOMAIN observers' = 1 .. Len(observers') BY <2>2
    <3> QED BY <2>2, <3>1
  <2>4. ConfigTypeOK' BY <1>1, <2>1, <2>2, <2>3 DEF ConfigTypeOK
  <2> QED BY <2>1, <2>2, <2>4 DEF ConfigIInv
<1>6. ASSUME StopObservers PROVE ConfigIInv'
  <2>1. /\ observers' = <<>> /\ dead' = {}
        /\ UNCHANGED <<holds, environ, sources, config, loading, loads, changes, merged>>
    BY <1>6 DEF StopObservers
  <2>2. observers' \in Seq(SourceFile) /\ DOMAIN observers' = {} BY <2>1, EmptySeq
  <2>3. ConfigTypeOK' BY <1>1, <2>1, <2>2 DEF ConfigTypeOK
  <2> QED BY <2>1, <2>2, <2>3 DEF ConfigIInv
<1> QED BY <1>2, <1>3, <1>4, <1>5, <1>6 DEF ConfigNext
-----------------------------------------------------------------------------
(* The cache with a directory *)

Pair == TKey \X Value
KeysApart(m) == \A i, j \in 1 .. Len(m) : m[i][1] = m[j][1] => i = j
HasKey(m, x) == \E i \in 1 .. Len(m) : m[i][1] = x

\* The sequence without a key.
IsWithout(t, m, k) ==
    /\ t \in Seq(Pair) /\ Len(t) <= Len(m)
    /\ HasKey(m, k) => Len(t) < Len(m)
    /\ KeysApart(m) => KeysApart(t)
    /\ ~HasKey(t, k)
    /\ \A x \in TKey \ {k} : HasKey(m, x) => HasKey(t, x)

LEMMA Without ==
    ASSUME NEW m \in Seq(Pair), NEW k \in TKey
    PROVE  IsWithout(OnlyIn(m, (TKey \ {k}) \X Value), m, k)
<1> DEFINE S == (TKey \ {k}) \X Value
           t == OnlyIn(m, S)
<1>1. \A i \in 1 .. Len(m) : m[i] \in Pair OBVIOUS
<1>2. \A i \in 1 .. Len(m) : m[i] \in S <=> m[i][1] # k BY <1>1 DEF Pair
<1>3. /\ t \in Seq(Pair \cap S) /\ t \in Seq(Pair)
      /\ Len(t) \in Nat /\ Len(t) <= Len(m)
      /\ (\E i \in 1 .. Len(m) : m[i] \notin S) => Len(t) < Len(m)
      /\ \E g : Places(g, t, m)
      /\ \A i \in 1 .. Len(m) : m[i] \in S => \E j \in 1 .. Len(t) : t[j] = m[i]
  <2>1. IsFiltered(t, m, Pair, S) BY OnlyInFilters
  <2> HIDE DEF S, t
  <2> QED BY <2>1 DEF IsFiltered
<1> HIDE DEF t
<1>4. \A j \in 1 .. Len(t) : t[j] \in S BY <1>3
<1>5. \A j \in 1 .. Len(t) : t[j][1] # k
  <2>1. \A p \in S : p[1] # k OBVIOUS
  <2> HIDE DEF S
  <2> QED BY <1>4, <2>1
<1> HIDE DEF S
<1>6. PICK g : Places(g, t, m) BY <1>3
<1>7. KeysApart(m) => KeysApart(t)
  <2> SUFFICES ASSUME KeysApart(m), NEW i \in 1 .. Len(t), NEW j \in 1 .. Len(t), t[i][1] = t[j][1]
               PROVE  i = j
    BY DEF KeysApart
  <2>1. g[i] \in 1 .. Len(m) /\ g[j] \in 1 .. Len(m) /\ t[i] = m[g[i]] /\ t[j] = m[g[j]] BY <1>6 DEF Places
  <2>2. g[i] = g[j] BY <2>1 DEF KeysApart
  <2>3. (i < j => g[i] < g[j]) /\ (j < i => g[j] < g[i]) BY <1>6 DEF Places
  <2> QED BY <1>3, <2>1, <2>2, <2>3
<1>8. HasKey(m, k) => Len(t) < Len(m) BY <1>2, <1>3 DEF HasKey
<1>9. ~HasKey(t, k) BY <1>5 DEF HasKey
<1>10. \A x \in TKey \ {k} : HasKey(m, x) => HasKey(t, x)
  <2> TAKE x \in TKey \ {k}
  <2> HAVE HasKey(m, x)
  <2>1. PICK i \in 1 .. Len(m) : m[i][1] = x BY DEF HasKey
  <2>2. PICK j \in 1 .. Len(t) : t[j] = m[i] BY <1>2, <1>3, <2>1
  <2> QED BY <2>1, <2>2 DEF HasKey
<1>11. IsWithout(t, m, k) BY <1>3, <1>7, <1>8, <1>9, <1>10 DEF IsWithout
<1> QED BY <1>11 DEF t, S

LEMMA WithLast ==
    ASSUME NEW m \in Seq(Pair), NEW p \in Pair, KeysApart(m), ~HasKey(m, p[1]), NEW t, t = Append(m, p)
    PROVE  /\ t \in Seq(Pair) /\ Len(t) = Len(m) + 1 /\ KeysApart(t) /\ HasKey(t, p[1])
           /\ \A x : HasKey(m, x) => HasKey(t, x)
<1> DEFINE L == Len(m)
<1>1. /\ L \in Nat /\ t \in Seq(Pair) /\ Len(t) = L + 1
      /\ \A i \in 1 .. L : t[i] = m[i]
      /\ t[L + 1] = p
  BY AppendProperties
<1> HIDE DEF L
<1>2. \A i \in 1 .. L + 1 : i \in 1 .. L \/ i = L + 1 BY <1>1
<1>3. L + 1 \in 1 .. L + 1 /\ \A i \in 1 .. L : i \in 1 .. L + 1 BY <1>1
<1>4. KeysApart(t)
  <2> SUFFICES ASSUME NEW i \in 1 .. L + 1, NEW j \in 1 .. L + 1, t[i][1] = t[j][1] PROVE i = j
    BY <1>1 DEF KeysApart
  <2>1. CASE i = L + 1 BY <1>1, <1>2, <2>1 DEF HasKey, L
  <2>2. CASE j = L + 1 BY <1>1, <1>2, <2>2 DEF HasKey, L
  <2>3. CASE i \in 1 .. L /\ j \in 1 .. L BY <1>1, <2>3 DEF KeysApart, L
  <2> QED BY <1>2, <2>1, <2>2, <2>3
<1>5. HasKey(t, p[1]) BY <1>1, <1>3 DEF HasKey
<1>6. \A x : HasKey(m, x) => HasKey(t, x) BY <1>1, <1>3 DEF HasKey, L
<1> QED BY <1>1, <1>4, <1>5, <1>6 DEF L

\* Of the writes W of a key that is not among the spoiled ones, one at most has
\* begun; it has the temporary file for itself, and that has its text in the end.
Undisturbed(W, t, sp) ==
    /\ \A v, w \in W : v.key = w.key /\ v.pc # "ready" /\ w.pc # "ready" /\ v.key \notin sp => v = w
    /\ \A w \in W : w.pc # "ready" /\ w.key \notin sp => w.on = "tmp" /\ ~ w.shared
    /\ \A w \in W : w.pc = "closed" /\ w.key \notin sp => t[w.key] = w.value

\* What TieredTypeOK and TieredInv say, that a file that was read had a value,
\* and that the writes of a key are one after the other unless it is spoiled.
TieredIInv ==
    /\ TieredTypeOK /\ TieredInv
    /\ \A c \in TCaller : diskReader[c].pc = "filling" => diskReader[c].value \in Value
    /\ Undisturbed(writes, tmp, spoiled)

Waiting == {w \in WriteBack : w.pc = "ready"}

\* What happens to the memory when entries go, or an entry comes: who goes is
\* to be written, and is with the writes W, who stays is there.
MemoryKept(W) ==
    /\ memory' \in Seq(Pair) /\ Len(memory') <= MaxSize /\ KeysApart(memory')
    /\ writes \subseteq W /\ W \subseteq writes \cup Waiting
    /\ \A x \in TKey : HasKey(memory, x) => HasKey(memory', x) \/ \E w \in W : w.key = x

LEMMA EvictionsWait ==
    ASSUME TieredAssumption, writes \subseteq WriteBack, NEW gone \in SUBSET Pair, Room(gone)
    PROVE  /\ writes \subseteq Evictions(gone) /\ Evictions(gone) \subseteq writes \cup Waiting
           /\ \A m \in gone : \E w \in Evictions(gone) : w.key = m[1]
<1> DEFINE s == CHOOSE s \in FreeSlots : TRUE
<1>1. Evictions(gone) = writes \cup {NewWrite(m[1], m[2], s) : m \in gone} BY DEF Evictions
<1>2. gone # {} => s \in 0 .. MaxWrites
  <2>1. gone # {} => s \in FreeSlots BY DEF Room
  <2> QED BY <2>1 DEF FreeSlots, TieredAssumption
<1> HIDE DEF s
<1>3. \A m \in gone : NewWrite(m[1], m[2], s) \in Waiting /\ NewWrite(m[1], m[2], s).key = m[1]
  BY <1>2 DEF NewWrite, Waiting, WriteBack, Pair
<1> QED BY <1>1, <1>3

LEMMA CachedHasKey == ASSUME NEW m \in Seq(Pair), m = memory, NEW x PROVE Cached(x) <=> HasKey(m, x)
<1>1. DOMAIN memory = 1 .. Len(m) OBVIOUS
<1> QED BY <1>1 DEF Cached, Place, HasKey

LEMMA PutKeeps ==
    ASSUME TieredAssumption,
           memory \in Seq(Pair), KeysApart(memory), writes \subseteq WriteBack, Len(memory) <= MaxSize, MaxSize \in Nat,
           NEW k \in TKey, NEW v \in Value, NEW more \in SUBSET Waiting, TieredPut(k, v, more)
    PROVE  MemoryKept(writes') /\ HasKey(memory', k)
<1> DEFINE L == Len(memory)
<1>1. L \in Nat /\ \A i \in 1 .. L : memory[i] \in Pair OBVIOUS
<1>2. PICK n \in 0 .. L :
        /\ L - n < MaxSize
        /\ memory' = Append(OnlyIn(SubSeq(memory, n + 1, L), (TKey \ {k}) \X Value), <<k, v>>)
        /\ Room({memory[i] : i \in 1 .. n})
        /\ writes' = Evictions({memory[i] : i \in 1 .. n}) \cup more
  BY DEF TieredPut
<1> DEFINE left == SubSeq(memory, n + 1, L)
           t == OnlyIn(left, (TKey \ {k}) \X Value)
<1> HIDE DEF L
<1>3. \A i \in n + 1 .. L : memory[i] \in Pair BY <1>1, <1>2
<1>4. /\ left \in Seq(Pair) /\ Len(left) = L - n
      /\ \A i \in 1 .. L - n : left[i] = memory[n + i]
  <2>1. n + 1 \in Int /\ L \in Int BY <1>1, <1>2
  <2>2. /\ left \in Seq(Pair) /\ Len(left) = IF n + 1 <= L THEN L - (n + 1) + 1 ELSE 0
        /\ \A i \in 1 .. L - (n + 1) + 1 : left[i] = memory[(n + 1) + i - 1]
    BY <1>3, <2>1, SubSeqProperties
  <2>3. L - (n + 1) + 1 = L - n /\ \A i \in 1 .. L - n : (n + 1) + i - 1 = n + i BY <1>1, <1>2
  <2> HIDE DEF left
  <2>4. Len(left) = L - n BY <1>1, <1>2, <2>2
  <2> QED BY <2>2, <2>3, <2>4
<1> HIDE DEF left
<1>5. KeysApart(left)
  <2> SUFFICES ASSUME NEW i \in 1 .. L - n, NEW j \in 1 .. L - n, left[i][1] = left[j][1] PROVE i = j
    BY <1>4 DEF KeysApart
  <2>1. n + i \in 1 .. L /\ n + j \in 1 .. L BY <1>1, <1>2
  <2>2. memory[n + i][1] = memory[n + j][1] BY <1>4
  <2>3. n + i = n + j BY <2>1, <2>2 DEF KeysApart, L
  <2> QED BY <1>1, <1>2, <2>3
<1>61. t = OnlyIn(left, (TKey \ {k}) \X Value) OBVIOUS
<1>62. memory' = Append(t, <<k, v>>) BY <1>2 DEF left
<1> HIDE DEF t
<1>6. /\ t \in Seq(Pair) /\ Len(t) <= L - n /\ KeysApart(t) /\ ~HasKey(t, k)
      /\ \A x \in TKey \ {k} : HasKey(left, x) => HasKey(t, x)
  <2>1. IsWithout(t, left, k) BY <1>4, <1>61, Without
  <2> QED BY <1>4, <1>5, <2>1 DEF IsWithout
<1>8. <<k, v>> \in Pair /\ <<k, v>>[1] = k BY DEF Pair
<1>9. /\ memory' \in Seq(Pair) /\ Len(memory') = Len(t) + 1 /\ KeysApart(memory') /\ HasKey(memory', k)
      /\ \A x : HasKey(t, x) => HasKey(memory', x)
  BY <1>6, <1>62, <1>8, WithLast
<1>10. Len(memory') <= MaxSize
  <2>1. Len(t) \in Nat /\ Len(t) <= L - n /\ Len(memory') = Len(t) + 1 BY <1>6, <1>9
  <2>2. n \in Nat /\ L - n < MaxSize BY <1>1, <1>2
  <2> HIDE DEF t
  <2> QED BY <1>1, <2>1, <2>2
<1>11. \A i \in 1 .. n : i \in 1 .. L /\ memory[i] \in Pair BY <1>1, <1>2
<1>12. /\ writes \subseteq writes' /\ writes' \subseteq writes \cup Waiting
       /\ \A i \in 1 .. n : \E w \in writes' : w.key = memory[i][1]
  <2> DEFINE gone == {memory[i] : i \in 1 .. n}
  <2>1. gone \in SUBSET Pair BY <1>11
  <2>2. Room(gone) /\ writes' = Evictions(gone) \cup more BY <1>2
  <2>3. \A i \in 1 .. n : memory[i] \in gone OBVIOUS
  <2> HIDE DEF gone
  <2> QED BY <2>1, <2>2, <2>3, EvictionsWait
<1>13. ASSUME NEW x \in TKey, HasKey(memory, x)
       PROVE  HasKey(memory', x) \/ \E w \in writes' : w.key = x
  <2>1. PICK i \in 1 .. L : memory[i][1] = x BY <1>13 DEF HasKey, L
  <2>2. CASE i <= n
    <3>1. i \in 1 .. n BY <1>1, <1>2, <2>2
    <3> QED BY <1>12, <2>1, <3>1
  <2>3. CASE ~(i <= n)
    <3>1. i - n \in 1 .. L - n /\ n + (i - n) = i BY <1>1, <1>2, <2>3
    <3>2. left[i - n][1] = x BY <1>4, <2>1, <3>1
    <3>3. HasKey(left, x) BY <1>4, <3>1, <3>2 DEF HasKey
    <3> QED BY <1>6, <1>9, <3>3
  <2> QED BY <2>2, <2>3
<1> QED BY <1>9, <1>10, <1>12, <1>13 DEF MemoryKept

LEMMA DropKeeps ==
    ASSUME TieredAssumption,
           memory \in Seq(Pair), KeysApart(memory), writes \subseteq WriteBack, Len(memory) <= MaxSize, MaxSize \in Nat,
           NEW k \in TKey, memory' = Others(k), Room({memory[i] : i \in Place(k)})
    PROVE  MemoryKept(Evictions({memory[i] : i \in Place(k)}))
<1> DEFINE L == Len(memory)
<1>1. L \in Nat /\ DOMAIN memory = 1 .. L /\ \A i \in 1 .. L : memory[i] \in Pair OBVIOUS
<1>2. memory' = OnlyIn(memory, (TKey \ {k}) \X Value) BY DEF Others
<1> DEFINE t == memory'
<1>21. t = OnlyIn(memory, (TKey \ {k}) \X Value) BY <1>2
<1>3. /\ memory' \in Seq(Pair) /\ Len(memory') <= L /\ KeysApart(memory')
      /\ \A x \in TKey \ {k} : HasKey(memory, x) => HasKey(memory', x)
  <2> HIDE DEF t
  <2>1. /\ t \in Seq(Pair) /\ Len(t) <= L /\ KeysApart(t)
        /\ \A x \in TKey \ {k} : HasKey(memory, x) => HasKey(t, x)
    <3>1. IsWithout(t, memory, k) BY <1>21, Without
    <3> QED BY <3>1 DEF IsWithout
  <2> QED BY <2>1 DEF t
<1> HIDE DEF L
<1>4. Len(memory') <= MaxSize
  <2>1. Len(memory') \in Nat BY <1>3
  <2> QED BY <1>1, <1>3, <2>1 DEF L
<1>5. Place(k) = {i \in 1 .. L : memory[i][1] = k} BY <1>1 DEF Place
<1> DEFINE gone == {memory[i] : i \in Place(k)}
<1>6. gone \in SUBSET Pair /\ Room(gone) BY <1>1, <1>5
<1>7. HasKey(memory, k) => \E m \in gone : m[1] = k BY <1>5 DEF HasKey, L
<1> HIDE DEF gone
<1>8. /\ writes \subseteq Evictions(gone) /\ Evictions(gone) \subseteq writes \cup Waiting
      /\ \A m \in gone : \E w \in Evictions(gone) : w.key = m[1]
  BY <1>6, EvictionsWait
<1>9. \A x \in TKey : HasKey(memory, x) => HasKey(memory', x) \/ \E w \in Evictions(gone) : w.key = x
  BY <1>3, <1>7, <1>8
<1>10. MemoryKept(Evictions(gone)) BY <1>3, <1>4, <1>8, <1>9 DEF MemoryKept
<1> QED BY <1>10 DEF gone

LEMMA GetCachedKeeps ==
    ASSUME memory \in Seq(Pair), KeysApart(memory), writes \subseteq WriteBack, Len(memory) <= MaxSize, MaxSize \in Nat,
           NEW k \in TKey, GetCached(k)
    PROVE  MemoryKept(writes')
<1> DEFINE p == memory[CHOOSE i \in Place(k) : TRUE]
           t == OnlyIn(memory, (TKey \ {k}) \X Value)
<1>1. \A i \in 1 .. Len(memory) : memory[i] \in Pair OBVIOUS
<1>2. p \in Pair /\ p[1] = k /\ HasKey(memory, k)
  <2>1. Place(k) # {} BY DEF GetCached, Cached
  <2>2. Place(k) = {i \in 1 .. Len(memory) : memory[i][1] = k} BY DEF Place
  <2>3. (CHOOSE i \in Place(k) : TRUE) \in Place(k) BY <2>1
  <2> QED BY <1>1, <2>2, <2>3 DEF HasKey
<1>3. memory' = t \o <<p>> /\ writes' = writes BY DEF GetCached, Others
<1>4. IsWithout(t, memory, k) BY Without
<1> HIDE DEF p, t
<1>5. memory' = Append(t, p) BY <1>2, <1>3, <1>4, AppendIsConcat DEF IsWithout
<1>6. /\ memory' \in Seq(Pair) /\ Len(memory') = Len(t) + 1 /\ KeysApart(memory') /\ HasKey(memory', k)
      /\ \A x : HasKey(t, x) => HasKey(memory', x)
  BY <1>2, <1>4, <1>5, WithLast DEF IsWithout
<1>7. Len(memory') <= MaxSize
  <2>1. Len(t) \in Nat /\ Len(memory) \in Nat /\ Len(t) < Len(memory) BY <1>2, <1>4 DEF IsWithout
  <2> QED BY <1>6, <2>1
<1>8. \A x \in TKey : HasKey(memory, x) => HasKey(memory', x) BY <1>4, <1>6 DEF IsWithout
<1> QED BY <1>3, <1>6, <1>7, <1>8 DEF MemoryKept

\* The same, about one session: its copy is not lost as long as the file stays
\* readable and the writes W of it go on.
LEMMA CopiesGoOn ==
    ASSUME memory \in Seq(Pair), NEW W, MemoryKept(W), NEW x \in TKey, Kept(x), inFile[x] \in Value => inFile'[x] \in Value,
           (\E w \in W : w.key = x) => \E w \in writes' : w.key = x
    PROVE  Kept(x)'
<1>1. memory' \in Seq(Pair) BY DEF MemoryKept
<1> DEFINE m == memory
           n == memory'
<1>2. Cached(x) <=> HasKey(m, x)
  <2> HIDE DEF m
  <2> QED BY CachedHasKey DEF m
<1>3. Cached(x)' <=> HasKey(n, x)
  <2>1. DOMAIN memory' = 1 .. Len(memory') BY <1>1
  <2> QED BY <2>1 DEF Cached, Place, HasKey
<1>4. Value' = Value BY DEF Value
<1>5. CASE Cached(x) BY <1>2, <1>3, <1>5 DEF MemoryKept, Kept
<1>6. CASE ~Cached(x) BY <1>4, <1>6 DEF MemoryKept, Kept
<1> QED BY <1>5, <1>6

LEMMA TieredStart == ASSUME TieredAssumption, TieredInit PROVE TieredIInv
<1> USE DEF TieredInit, Value
<1>1. (CHOOSE k \in TKey : TRUE) \in TKey BY DEF TieredAssumption
<1>2. memory \in Seq(TKey \X Value) /\ Len(memory) = 0 BY EmptySeq
<1>3. TieredTypeOK BY <1>1, <1>2 DEF TieredTypeOK, TieredAssumption, Away, NotOnDisk, OnDisk
<1>4. TieredInv BY <1>2 DEF TieredInv, NotOnDisk, TieredAssumption
<1>5. \A c \in TCaller : diskReader[c].pc = "filling" => diskReader[c].value \in Value BY DEF Away
<1>6. Undisturbed(writes, tmp, spoiled) BY DEF Undisturbed
<1> QED BY <1>3, <1>4, <1>5, <1>6 DEF TieredIInv

LEMMA TieredStep == ASSUME TieredAssumption, TieredIInv, TieredNext PROVE TieredIInv'
<1> DEFINE Read == [pc : {"idle", "opening", "filling"}, key : TKey, value : Value \cup {NotOnDisk}]
           Filling == \A c \in TCaller : diskReader[c].pc = "filling" => diskReader[c].value \in Value
           Legible == \A k \in TKey \ spoiled : inFile[k] # Garbled
<1>1. /\ memory \in Seq(Pair) /\ KeysApart(memory) /\ writes \subseteq WriteBack /\ Len(memory) <= MaxSize
      /\ MaxSize \in Nat /\ MaxPuts \in Nat /\ \A k \in persisted \ spoiled : Kept(k)
      /\ inFile \in [TKey -> OnDisk] /\ tmp \in [TKey -> OnDisk] /\ Legible
      /\ diskReader \in [TCaller -> Read] /\ Filling
      /\ puts \in 0 .. MaxPuts /\ persisted \subseteq TKey /\ spoiled \subseteq TKey
      /\ Undisturbed(writes, tmp, spoiled)
  <2>1. DOMAIN memory = 1 .. Len(memory) BY DEF TieredIInv, TieredTypeOK
  <2>2. KeysApart(memory) BY <2>1 DEF TieredIInv, TieredInv, KeysApart
  <2> QED BY <2>2 DEF TieredIInv, TieredTypeOK, TieredInv, TieredAssumption, Pair
<1>2. Away \in Read /\ Away.pc = "idle" /\ Away.value = NotOnDisk
  <2>1. (CHOOSE k \in TKey : TRUE) \in TKey BY DEF TieredAssumption
  <2> QED BY <2>1 DEF Away
<1> DEFINE Disk ==
             /\ inFile' \in [TKey -> OnDisk] /\ tmp' \in [TKey -> OnDisk] /\ Legible' /\ spoiled' \subseteq TKey
             /\ writes' \subseteq WriteBack /\ Undisturbed(writes', tmp', spoiled')
           Calls ==
             /\ diskReader' \in [TCaller -> Read] /\ Filling'
             /\ puts' \in 0 .. MaxPuts /\ persisted' \subseteq TKey
           InMemory == memory' \in Seq(Pair) /\ Len(memory') <= MaxSize /\ KeysApart(memory')
<1> HIDE DEF Read, Filling, Legible, Disk, Calls, InMemory
<1>3. ASSUME InMemory, \A k \in persisted' \ spoiled' : Kept(k)', Disk, Calls PROVE TieredIInv'
  <2>1. DOMAIN memory' = 1 .. Len(memory') BY <1>3 DEF InMemory
  <2>2. TieredTypeOK' BY <1>3 DEF TieredTypeOK, Pair, Disk, Calls, InMemory, Read, OnDisk, WriteBack, Value
  <2>3. TieredInv' BY <1>3, <2>1 DEF TieredInv, KeysApart, InMemory, Disk, Legible, Undisturbed
  <2> QED BY <1>3, <2>2, <2>3 DEF TieredIInv, Disk, Calls, Filling, Value
\* the calls that leave the files alone, but for the tasks they make
<1>4. ASSUME MemoryKept(writes'), UNCHANGED <<inFile, tmp, spoiled>> PROVE InMemory /\ Disk
  <2>1. InMemory BY <1>4 DEF InMemory, MemoryKept
  <2>2. writes \subseteq writes' /\ writes' \subseteq writes \cup Waiting BY <1>4 DEF MemoryKept
  <2>3. writes' \subseteq WriteBack BY <1>1, <2>2 DEF Waiting
  <2>4. \A w \in writes' : w.pc # "ready" => w \in writes BY <2>2 DEF Waiting
  <2>5. Undisturbed(writes', tmp', spoiled') BY <1>1, <1>4, <2>4 DEF Undisturbed
  <2> QED BY <1>1, <1>4, <2>1, <2>3, <2>5 DEF Disk, Legible
<1>5. ASSUME MemoryKept(writes'), UNCHANGED <<inFile, tmp, spoiled>> PROVE \A x \in persisted \ spoiled' : Kept(x)'
  BY <1>1, <1>5, CopiesGoOn
<1>6. ASSUME NEW k \in TKey, GetCached(k) PROVE TieredIInv'
  <2>1. MemoryKept(writes') BY <1>1, <1>6, GetCachedKeeps
  <2>2. UNCHANGED <<inFile, tmp, diskReader, puts, persisted, spoiled>> BY <1>6 DEF GetCached
  <2>3. Calls BY <1>1, <2>2 DEF Calls, Filling
  <2> QED BY <1>3, <1>4, <1>5, <2>1, <2>2, <2>3
<1>61. ASSUME UNCHANGED <<memory, writes>> PROVE MemoryKept(writes')
  BY <1>1, <1>61 DEF MemoryKept
<1>62. ASSUME NEW k \in TKey, Drop(k) PROVE MemoryKept(writes')
  BY <1>1, <1>62, DropKeeps DEF Drop
<1>7. ASSUME NEW c \in TCaller, NEW k \in TKey, GetMisses(c, k) PROVE TieredIInv'
  <2>1. MemoryKept(writes') BY <1>61, <1>62, <1>7 DEF GetMisses
  <2>2. UNCHANGED <<inFile, tmp, puts, persisted, spoiled>> BY <1>7 DEF GetMisses
  <2>3. diskReader' \in [TCaller -> Read] /\ Filling'
    <3> DEFINE r == IF inFile[k] # NotOnDisk THEN [Away EXCEPT !.pc = "opening", !.key = k] ELSE Away
    <3>1. r \in Read /\ r.pc # "filling" BY <1>2 DEF Read
    <3>2. diskReader' = [diskReader EXCEPT ![c] = r] BY <1>7 DEF GetMisses
    <3> HIDE DEF r
    <3>3. diskReader' \in [TCaller -> Read] BY <1>1, <3>1, <3>2
    <3>4. \A d \in TCaller : diskReader'[d] = IF d = c THEN r ELSE diskReader[d] BY <1>1, <3>2
    <3> QED BY <1>1, <3>1, <3>3, <3>4 DEF Filling
  <2>4. Calls BY <1>1, <2>2, <2>3 DEF Calls
  <2> QED BY <1>3, <1>4, <1>5, <2>1, <2>2, <2>4
<1>8. ASSUME NEW c \in TCaller, ReadFile(c) PROVE TieredIInv'
  <2>1. UNCHANGED <<memory, inFile, tmp, writes, puts, persisted, spoiled>> BY <1>8 DEF ReadFile
  <2>2. MemoryKept(writes') BY <1>61, <2>1
  <2>3. diskReader' \in [TCaller -> Read] /\ Filling'
    <3> DEFINE there == inFile[diskReader[c].key]
               r == IF there \notin Value THEN Away ELSE [pc |-> "filling", key |-> diskReader[c].key, value |-> there]
    <3>1. diskReader[c].key \in TKey BY <1>1 DEF Read
    <3> HIDE DEF there
    <3>2. r \in Read /\ (r.pc = "filling" => r.value \in Value) BY <1>2, <3>1 DEF Read
    <3>3. diskReader' = [diskReader EXCEPT ![c] = r] BY <1>8 DEF ReadFile, there
    <3> HIDE DEF r
    <3>4. diskReader' \in [TCaller -> Read] BY <1>1, <3>2, <3>3
    <3>5. \A d \in TCaller : diskReader'[d] = IF d = c THEN r ELSE diskReader[d] BY <1>1, <3>3
    <3> QED BY <1>1, <3>2, <3>4, <3>5 DEF Filling
  <2>4. Calls BY <1>1, <2>1, <2>3 DEF Calls
  <2> QED BY <1>3, <1>4, <1>5, <2>1, <2>2, <2>4
<1>9. ASSUME NEW c \in TCaller, Fill(c) PROVE TieredIInv'
  <2>1. diskReader[c].key \in TKey /\ diskReader[c].value \in Value
    BY <1>1, <1>9 DEF Fill, Filling, Read
  <2>2. TieredPut(diskReader[c].key, diskReader[c].value, {}) BY <1>9 DEF Fill
  <2>3. MemoryKept(writes') BY <1>1, <2>1, <2>2, PutKeeps
  <2>4. UNCHANGED <<inFile, tmp, puts, persisted, spoiled>> /\ diskReader' = [diskReader EXCEPT ![c] = Away]
    BY <1>9 DEF Fill
  <2>5. diskReader' \in [TCaller -> Read] /\ Filling'
    <3>1. diskReader' \in [TCaller -> Read] BY <1>1, <1>2, <2>4
    <3>2. \A d \in TCaller : diskReader'[d] = IF d = c THEN Away ELSE diskReader[d] BY <1>1, <2>4
    <3> QED BY <1>1, <1>2, <3>1, <3>2 DEF Filling
  <2>6. Calls BY <1>1, <2>4, <2>5 DEF Calls
  <2> QED BY <1>3, <1>4, <1>5, <2>3, <2>4, <2>6
<1>10. ASSUME NEW k \in TKey, NEW persist \in BOOLEAN, PutSession(k, persist) PROVE TieredIInv'
  <2> DEFINE more == IF persist THEN {NewWrite(k, puts + 1, 0)} ELSE {}
  <2>1. puts + 1 \in Value /\ puts + 1 \in 0 .. MaxPuts BY <1>1, <1>10 DEF PutSession, Value
  <2>2. more \in SUBSET Waiting BY <2>1 DEF Waiting, WriteBack, NewWrite, TieredAssumption
  <2>3. TieredPut(k, puts + 1, more) BY <1>10 DEF PutSession
  <2> HIDE DEF more
  <2>4. MemoryKept(writes') /\ HasKey(memory', k)
    <3> DEFINE v == puts + 1
    <3>1. v \in Value /\ TieredPut(k, v, more) BY <2>1, <2>3
    <3> HIDE DEF v
    <3> QED BY <1>1, <2>2, <3>1, PutKeeps
  <2>5. /\ UNCHANGED <<inFile, tmp, diskReader, spoiled>> /\ puts' = puts + 1
        /\ persisted' = persisted \cup {k}
    BY <1>10 DEF PutSession
  <2>6. Kept(k)'
    <3>1. DOMAIN memory' = 1 .. Len(memory') BY <2>4 DEF MemoryKept
    <3> QED BY <2>4, <3>1 DEF Kept, Cached, Place, HasKey
  <2>7. Calls BY <1>1, <2>1, <2>5 DEF Calls, Filling
  <2> QED BY <1>3, <1>4, <1>5, <2>4, <2>5, <2>6, <2>7
<1>11. ASSUME EvictAll PROVE TieredIInv'
  <2> DEFINE gone == ToSet(memory)
  <2>1. /\ memory' = <<>> /\ UNCHANGED <<inFile, tmp, diskReader, puts, persisted, spoiled>>
        /\ writes' = Evictions(gone) /\ Room(gone)
    BY <1>11 DEF EvictAll
  <2>2. gone = {memory[i] : i \in 1 .. Len(memory)} /\ gone \in SUBSET Pair
    <3>1. DOMAIN memory = 1 .. Len(memory) /\ \A i \in 1 .. Len(memory) : memory[i] \in Pair BY <1>1
    <3> QED BY <3>1 DEF ToSet
  <2> HIDE DEF gone
  <2>3. /\ writes \subseteq writes' /\ writes' \subseteq writes \cup Waiting
        /\ \A m \in gone : \E w \in writes' : w.key = m[1]
    BY <1>1, <2>1, <2>2, EvictionsWait
  <2>4. memory' \in Seq(Pair) /\ Len(memory') = 0 BY <2>1, EmptySeq
  <2>5. MemoryKept(writes')
    <3>1. KeysApart(memory') /\ Len(memory') <= MaxSize BY <1>1, <2>4 DEF KeysApart
    <3>2. \A x \in TKey : HasKey(memory, x) => \E w \in writes' : w.key = x BY <2>2, <2>3 DEF HasKey
    <3> QED BY <2>3, <2>4, <3>1, <3>2 DEF MemoryKept
  <2>6. Calls BY <1>1, <2>1 DEF Calls, Filling
  <2> QED BY <1>3, <1>4, <1>5, <2>1, <2>5, <2>6
\* the file of a key is unlinked
<1>12. ASSUME NEW k \in TKey, NEW W, MemoryKept(W), Unlinks(k, W), UNCHANGED <<tmp, diskReader, puts, spoiled>>
       PROVE  TieredIInv'
  <2> DEFINE moved(w) == IF w.key = k /\ w.on = "file" THEN [w EXCEPT !.on = "unlinked"] ELSE w
  <2>1. /\ inFile' = [inFile EXCEPT ![k] = NotOnDisk] /\ writes' = {moved(w) : w \in W}
        /\ persisted' = persisted \ {k}
    BY <1>12 DEF Unlinks
  <2>2. W \subseteq WriteBack /\ \A w \in W : w.pc # "ready" => w \in writes
    BY <1>1, <1>12 DEF MemoryKept, Waiting
  <2>3. \A w \in WriteBack : moved(w) \in WriteBack /\ moved(w).key = w.key /\ moved(w).pc = w.pc
    BY DEF WriteBack
  <2>4. \A w \in W : w.pc # "ready" /\ w.key \notin spoiled => moved(w) = w
    BY <1>1, <2>2 DEF Undisturbed
  <2> HIDE DEF moved
  <2>5. Undisturbed(writes', tmp', spoiled')
    <3>1. \A v \in writes' : v.pc # "ready" /\ v.key \notin spoiled => v \in writes
      BY <2>1, <2>2, <2>3, <2>4
    <3> QED BY <1>1, <1>12, <3>1 DEF Undisturbed
  <2>6. writes' \subseteq WriteBack BY <2>1, <2>2, <2>3
  <2>7. inFile' \in [TKey -> OnDisk] /\ \A x \in TKey : inFile'[x] = IF x = k THEN NotOnDisk ELSE inFile[x]
    BY <1>1, <2>1 DEF OnDisk
  <2>8. Legible'
    <3>1. NotOnDisk # Garbled BY DEF NotOnDisk, TieredAssumption
    <3> QED BY <1>1, <1>12, <2>7, <3>1 DEF Legible
  <2>9. Disk BY <1>1, <1>12, <2>5, <2>6, <2>7, <2>8 DEF Disk
  <2>10. \A x \in persisted' \ spoiled' : Kept(x)'
    <3>1. \A x : (\E w \in W : w.key = x) => \E w \in writes' : w.key = x BY <2>1, <2>2, <2>3
    <3> QED BY <1>1, <1>12, <2>1, <2>7, <3>1, CopiesGoOn
  <2>11. InMemory BY <1>12 DEF InMemory, MemoryKept
  <2>12. Calls BY <1>1, <1>12, <2>1 DEF Calls, Filling
  <2> QED BY <1>3, <2>9, <2>10, <2>11, <2>12
<1>121. ASSUME memory' = memory PROVE MemoryKept(writes)
  BY <1>1, <1>121 DEF MemoryKept
<1>13. ASSUME NEW k \in TKey, RemoveSession(k) PROVE TieredIInv'
  <2>1. memory' = Others(k) /\ UNCHANGED <<tmp, diskReader, puts, spoiled>> BY <1>13 DEF RemoveSession
  <2> DEFINE gone == {memory[i] : i \in Place(k)}
  <2>2. CASE Room(gone) /\ Unlinks(k, Evictions(gone))
    <3>1. MemoryKept(Evictions(gone)) BY <1>1, <2>1, <2>2, DropKeeps
    <3> HIDE DEF gone
    <3> QED BY <1>12, <2>1, <2>2, <3>1
  <2>3. CASE ~ Cached(k) /\ Unlinks(k, writes)
    <3>1. gone = {} BY <2>3 DEF Cached
    <3>2. Room(gone) /\ Evictions(gone) = writes BY <3>1 DEF Room, Evictions
    <3> QED BY <2>2, <2>3, <3>2
  <2> QED BY <1>13, <2>2, <2>3 DEF RemoveSession
<1>14. ASSUME NEW k \in TKey, CleanupFiles(k) PROVE TieredIInv'
  BY <1>12, <1>121, <1>14 DEF CleanupFiles
<1>15. ASSUME NEW k \in TKey, CleanupExpired(k) PROVE TieredIInv'
  <2>1. MemoryKept(writes') BY <1>15, <1>62 DEF CleanupExpired
  <2>2. UNCHANGED <<inFile, tmp, diskReader, puts, persisted, spoiled>> BY <1>15 DEF CleanupExpired
  <2>3. Calls BY <1>1, <2>2 DEF Calls, Filling
  <2> QED BY <1>3, <1>4, <1>5, <2>1, <2>2, <2>3
\* the steps of the tasks
<1>16. ASSUME UNCHANGED <<memory, diskReader, puts, persisted>>, Disk,
              \A x \in persisted \ spoiled' : inFile[x] \in Value => inFile'[x] \in Value,
              \A x \in persisted \ spoiled' :
                (\E w \in writes : w.key = x) => inFile'[x] \in Value \/ \E w \in writes' : w.key = x,
              spoiled \subseteq spoiled'
       PROVE  TieredIInv'
  <2>1. InMemory /\ Calls BY <1>1, <1>16 DEF InMemory, Calls, Filling
  <2>2. \A x \in persisted' \ spoiled' : Kept(x)'
    <3> SUFFICES ASSUME NEW x \in persisted \ spoiled' PROVE Kept(x)'
      BY <1>16
    <3>1. Kept(x) BY <1>1, <1>16
    <3>2. Cached(x)' <=> Cached(x) BY <1>16 DEF Cached, Place
    <3> QED BY <1>16, <3>1, <3>2 DEF Kept, Value
  <2> QED BY <1>3, <1>16, <2>1, <2>2
\* ... what those of a key do with its files is nothing to the others
<1>17. ASSUME NEW w \in writes, NEW t \in OnDisk, Receives(w, t)
       PROVE  /\ tmp' \in [TKey -> OnDisk] /\ inFile' \in [TKey -> OnDisk]
              /\ \A k \in TKey \ {w.key} : tmp'[k] = tmp[k] /\ inFile'[k] = inFile[k]
              /\ w.on = "tmp" => tmp'[w.key] = t /\ inFile' = inFile
  BY <1>1, <1>17 DEF Receives, WriteBack
<1>18. Garbled \in OnDisk /\ NotOnDisk \in OnDisk /\ Value \subseteq OnDisk /\ Garbled \notin Value /\ NotOnDisk \notin Value
  BY DEF OnDisk, Value, NotOnDisk, TieredAssumption
<1>19. ASSUME NEW w \in writes, OpenTmp(w) PROVE TieredIInv'
  <2>0. w \in WriteBack /\ w.key \in TKey /\ w.pc = "ready" BY <1>1, <1>19 DEF OpenTmp, WriteBack
  <2> DEFINE o == [w EXCEPT !.pc = "opened", !.on = "tmp", !.shared = Sharing(w) # {}]
             sh(v) == [v EXCEPT !.shared = TRUE]
  <2>1. /\ UNCHANGED <<memory, inFile, diskReader, puts, persisted>>
        /\ tmp' = [tmp EXCEPT ![w.key] = Garbled]
        /\ writes' = (writes \ ({w} \cup Sharing(w))) \cup {o} \cup {sh(v) : v \in Sharing(w)}
        /\ spoiled' = IF Beside(w) = {} THEN spoiled ELSE spoiled \cup {w.key}
    BY <1>19 DEF OpenTmp
  <2>2. o \in WriteBack /\ o.key = w.key /\ o.on = "tmp" /\ o.pc = "opened" /\ o.shared = (Sharing(w) # {})
    BY <2>0 DEF WriteBack
  <2>3. \A v \in Sharing(w) : v \in writes /\ v \in Beside(w) /\ v.key = w.key
    BY DEF Sharing, Beside
  <2>4. \A v \in Sharing(w) : sh(v) \in WriteBack /\ sh(v).key = w.key
    BY <1>1, <2>3 DEF WriteBack
  <2> HIDE DEF o, sh
  <2>5. writes' \subseteq WriteBack BY <1>1, <2>1, <2>2, <2>4
  <2>6. \A v \in writes' : v.key # w.key => v \in writes BY <2>1, <2>2, <2>4
  <2>7. w.key \notin spoiled' =>
          /\ Beside(w) = {} /\ Sharing(w) = {} /\ writes' = (writes \ {w}) \cup {o}
          /\ \A v \in writes \ {w} : v.key = w.key => v.pc = "ready"
    BY <2>1, <2>3 DEF Beside
  <2>8. spoiled \subseteq spoiled' /\ spoiled' \subseteq TKey BY <1>1, <2>0, <2>1
  <2>9. tmp' \in [TKey -> OnDisk] /\ \A k \in TKey \ {w.key} : tmp'[k] = tmp[k] BY <1>1, <1>18, <2>0, <2>1
  <2>10. Undisturbed(writes', tmp', spoiled')
    <3>1. \A v \in writes' : v.pc # "ready" /\ v.key \notin spoiled' => v = o \/ (v \in writes /\ v.key # w.key)
      BY <2>6, <2>7
    <3>2. \A v \in writes : v.key \in TKey BY <1>1 DEF WriteBack
    <3> QED BY <1>1, <2>2, <2>7, <2>8, <2>9, <3>1, <3>2 DEF Undisturbed
  <2>11. Disk BY <1>1, <2>1, <2>5, <2>8, <2>9, <2>10 DEF Disk, Legible
  <2>12. \A x : (\E v \in writes : v.key = x) => \E v \in writes' : v.key = x
    <3>1. o \in writes' BY <2>1
    <3>2. \A v \in writes : v.key # w.key => v \in writes' BY <2>1, <2>3
    <3> QED BY <2>2, <3>1, <3>2
  <2> QED BY <1>16, <2>1, <2>8, <2>11, <2>12
\* ... a write goes on, and what it has open receives t, or nothing changes
<1>20. ASSUME NEW w \in writes, w.pc # "ready", NEW p \in {"written", "closed"},
              writes' = (writes \ {w}) \cup {[w EXCEPT !.pc = p]},
              UNCHANGED <<memory, diskReader, puts, persisted, spoiled>>,
              tmp' \in [TKey -> OnDisk], inFile' \in [TKey -> OnDisk],
              \A k \in TKey \ {w.key} : tmp'[k] = tmp[k] /\ inFile'[k] = inFile[k],
              w.key \notin spoiled => inFile' = inFile /\ (p = "closed" => tmp'[w.key] = w.value)
       PROVE  TieredIInv'
  <2> DEFINE o == [w EXCEPT !.pc = p]
  <2>1. w \in WriteBack /\ w.key \in TKey BY <1>1 DEF WriteBack
  <2>2. o \in WriteBack /\ o.key = w.key /\ o.pc = p /\ o.on = w.on /\ o.shared = w.shared /\ o.value = w.value
    BY <2>1 DEF WriteBack
  <2>3. writes' = (writes \ {w}) \cup {o} BY <1>20
  <2> HIDE DEF o
  <2>4. Undisturbed(writes', tmp', spoiled')
    <3>1. \A v \in writes' : v = o \/ (v \in writes /\ v # w) BY <2>3
    <3>2. \A v \in writes : v.key = w.key /\ v.pc # "ready" /\ v.key \notin spoiled => v = w
      BY <1>1, <1>20 DEF Undisturbed
    <3>3. \A v \in writes : v.key \in TKey BY <1>1 DEF WriteBack
    <3>4. w.key \notin spoiled => w.on = "tmp" /\ ~ w.shared BY <1>1, <1>20 DEF Undisturbed
    <3> QED BY <1>1, <1>20, <2>2, <3>1, <3>2, <3>3, <3>4 DEF Undisturbed
  <2>5. Disk BY <1>1, <1>20, <2>1, <2>2, <2>3, <2>4 DEF Disk, Legible
  <2>6. \A x : (\E v \in writes : v.key = x) => \E v \in writes' : v.key = x BY <2>2, <2>3
  <2>7. \A x \in TKey \ spoiled : inFile'[x] = inFile[x] BY <1>20
  <2> QED BY <1>1, <1>16, <1>20, <2>5, <2>6, <2>7
<1>21. ASSUME NEW w \in writes, WriteText(w) PROVE TieredIInv'
  <2>1. w.pc = "opened" /\ w.key \in TKey BY <1>1, <1>21 DEF WriteText, WriteBack
  <2>2. w.key \notin spoiled => w.on = "tmp" BY <1>1, <2>1 DEF Undisturbed
  <2>3. /\ writes' = (writes \ {w}) \cup {[w EXCEPT !.pc = "written"]}
        /\ UNCHANGED <<memory, diskReader, puts, persisted, spoiled>>
    BY <1>21 DEF WriteText
  <2>4. CASE UNCHANGED <<tmp, inFile>> BY <1>1, <1>20, <2>1, <2>3, <2>4
  <2>5. CASE Receives(w, Garbled) BY <1>17, <1>18, <1>20, <2>1, <2>2, <2>3, <2>5
  <2> QED BY <1>21, <2>4, <2>5 DEF WriteText
<1>22. ASSUME NEW w \in writes, CloseTmp(w) PROVE TieredIInv'
  <2>1. w.pc = "written" /\ w.key \in TKey /\ w.value \in OnDisk BY <1>1, <1>18, <1>22 DEF CloseTmp, WriteBack
  <2>2. w.key \notin spoiled => w.on = "tmp" /\ ~ w.shared BY <1>1, <2>1 DEF Undisturbed
  <2>3. /\ writes' = (writes \ {w}) \cup {[w EXCEPT !.pc = "closed"]}
        /\ UNCHANGED <<memory, diskReader, puts, persisted, spoiled>>
    BY <1>22 DEF CloseTmp
  <2>4. CASE Receives(w, w.value) BY <1>17, <1>20, <2>1, <2>2, <2>3, <2>4
  <2>5. CASE w.shared /\ Receives(w, Garbled) BY <1>17, <1>18, <1>20, <2>1, <2>2, <2>3, <2>5
  <2> QED BY <1>22, <2>4, <2>5 DEF CloseTmp
\* ... a write is over, and others of its key may have their file moved
<1>23. ASSUME NEW w \in writes, writes' \subseteq WriteBack,
              \A v \in writes' : v.pc # "ready" /\ v.key \notin spoiled => v \in writes /\ v.key # w.key,
              \A v \in writes : v.key # w.key => v \in writes',
              UNCHANGED <<memory, diskReader, puts, persisted, spoiled>>,
              tmp' \in [TKey -> OnDisk], inFile' \in [TKey -> OnDisk],
              \A k \in TKey \ {w.key} : tmp'[k] = tmp[k] /\ inFile'[k] = inFile[k],
              w.key \notin spoiled => inFile'[w.key] \in Value
       PROVE  TieredIInv'
  <2>1. \A v \in writes : v.key \in TKey BY <1>1 DEF WriteBack
  <2>2. Undisturbed(writes', tmp', spoiled') BY <1>1, <1>23, <2>1 DEF Undisturbed
  <2>3. Legible' BY <1>1, <1>18, <1>23 DEF Legible
  <2>4. Disk BY <1>1, <1>23, <2>2, <2>3 DEF Disk
  <2>5. \A x \in persisted \ spoiled' :
          (\E v \in writes : v.key = x) => inFile'[x] \in Value \/ \E v \in writes' : v.key = x
    BY <1>23
  <2>6. \A x \in persisted \ spoiled' : inFile[x] \in Value => inFile'[x] \in Value BY <1>1, <1>23
  <2> QED BY <1>16, <1>23, <2>4, <2>5, <2>6
<1>24. ASSUME NEW w \in writes, Rename(w) PROVE TieredIInv'
  <2> DEFINE f(v) == [v EXCEPT !.on = IF @ = "tmp" THEN "file" ELSE "unlinked"]
  <2>1. \A v \in WriteBack : f(v) \in WriteBack /\ f(v).key = v.key BY DEF WriteBack
  <2>2. w.pc = "closed" /\ UNCHANGED <<memory, diskReader, puts, persisted, spoiled>> BY <1>24 DEF Rename
  <2>3. w.key \in TKey /\ w.value \in Value BY <1>1 DEF WriteBack
  <2>4. w.key \notin spoiled => tmp[w.key] = w.value /\ \A v \in writes : v.key = w.key /\ v.pc # "ready" => v = w
    BY <1>1, <2>2 DEF Undisturbed
  <2>5. CASE /\ inFile' = [inFile EXCEPT ![w.key] = tmp[w.key]]
             /\ tmp' = [tmp EXCEPT ![w.key] = NotOnDisk]
             /\ writes' = {IF v \in Beside(w) THEN f(v) ELSE v : v \in writes \ {w}}
    <3>1. /\ tmp' \in [TKey -> OnDisk] /\ inFile' \in [TKey -> OnDisk] /\ inFile'[w.key] = tmp[w.key]
          /\ \A k \in TKey \ {w.key} : tmp'[k] = tmp[k] /\ inFile'[k] = inFile[k]
      BY <1>1, <1>18, <2>3, <2>5
    <3> HIDE DEF f
    <3>2. \A v \in Beside(w) : v \in writes /\ v.key = w.key /\ v.pc # "ready" /\ v # w BY DEF Beside
    <3>3. writes' \subseteq WriteBack BY <1>1, <2>1, <2>5, <3>2
    <3>4. ASSUME NEW v \in writes', v.pc # "ready", v.key \notin spoiled PROVE v \in writes /\ v.key # w.key
      <4>1. PICK u \in writes \ {w} : v = IF u \in Beside(w) THEN f(u) ELSE u BY <2>5
      <4>2. CASE u \in Beside(w) BY <1>1, <2>1, <2>4, <3>2, <3>4, <4>1, <4>2
      <4>3. CASE u \notin Beside(w) BY <2>4, <3>4, <4>1, <4>3
      <4> QED BY <4>2, <4>3
    <3>5. \A v \in writes : v.key # w.key => v \in writes' BY <2>5, <3>2
    <3> QED BY <1>23, <2>2, <2>3, <2>4, <3>1, <3>3, <3>4, <3>5
  <2>6. CASE tmp[w.key] = NotOnDisk /\ writes' = writes \ {w} /\ UNCHANGED <<inFile, tmp>>
    <3>1. w.key \in spoiled BY <1>18, <2>3, <2>4, <2>6
    <3>2. writes' \subseteq WriteBack /\ \A v \in writes : v.key # w.key => v \in writes' BY <1>1, <2>6
    <3>3. \A v \in writes' : v.key \notin spoiled => v \in writes /\ v.key # w.key BY <2>6, <3>1
    <3> QED BY <1>1, <1>23, <2>2, <2>6, <3>1, <3>2, <3>3
  <2> QED BY <1>24, <2>5, <2>6 DEF Rename
<1>25. ASSUME NEW w \in writes, WriteFails(w) PROVE TieredIInv'
  <2>1. /\ writes' = writes \ {w} /\ spoiled' = spoiled \cup {w.key} /\ w.key \in TKey
        /\ UNCHANGED <<memory, diskReader, puts, persisted>>
    BY <1>1, <1>25 DEF WriteFails, WriteBack
  <2>2. /\ tmp' \in [TKey -> OnDisk] /\ inFile' \in [TKey -> OnDisk]
        /\ \A k \in TKey \ {w.key} : tmp'[k] = tmp[k] /\ inFile'[k] = inFile[k]
    <3>1. CASE UNCHANGED <<tmp, inFile>> BY <1>1, <3>1
    <3>2. CASE Receives(w, Garbled) BY <1>17, <1>18, <3>2
    <3> QED BY <1>25, <3>1, <3>2 DEF WriteFails
  <2>3. \A v \in writes : v.key \in TKey BY <1>1 DEF WriteBack
  <2>4. Undisturbed(writes', tmp', spoiled') BY <1>1, <2>1, <2>2, <2>3 DEF Undisturbed
  <2>5. Disk BY <1>1, <2>1, <2>2, <2>4 DEF Disk, Legible
  <2>6. \A v \in writes : v.key \notin spoiled' => v \in writes' BY <2>1
  <2> QED BY <1>1, <1>16, <2>1, <2>2, <2>5, <2>6
<1> QED BY <1>6, <1>7, <1>8, <1>9, <1>10, <1>11, <1>13, <1>14, <1>15, <1>19, <1>21, <1>22, <1>24, <1>25 DEF TieredNext
-----------------------------------------------------------------------------
(* Sequences without repetitions *)

Distinct(s) == \A i, j \in 1 .. Len(s) : s[i] = s[j] => i = j

LEMMA ToSetIs == ASSUME NEW A, NEW s \in Seq(A) PROVE ToSet(s) = {s[i] : i \in 1 .. Len(s)} /\ ToSet(s) \subseteq A
<1>1. DOMAIN s = 1 .. Len(s) /\ \A i \in 1 .. Len(s) : s[i] \in A OBVIOUS
<1> QED BY <1>1 DEF ToSet

LEMMA DistinctCount ==
    ASSUME NEW A, NEW s \in Seq(A), Distinct(s)
    PROVE  IsFiniteSet(ToSet(s)) /\ Cardinality(ToSet(s)) = Len(s)
<1> DEFINE T == ToSet(s)
           L == Len(s)
           f == [i \in 1 .. L |-> s[i]]
<1>1. T = {s[i] : i \in 1 .. L} /\ L \in Nat BY ToSetIs
<1>2. f \in [1 .. L -> T] BY <1>1
<1>3. \A i, j \in 1 .. L : f[i] = f[j] => i = j BY DEF Distinct
<1>4. \A t \in T : \E i \in 1 .. L : f[i] = t BY <1>1
<1> HIDE DEF f, T, L
<1>5. ExistsBijection(1 .. L, T)
  <2>1. f \in Injection(1 .. L, T) BY <1>2, <1>3 DEF Injection, IsInjective
  <2>2. f \in Surjection(1 .. L, T) BY <1>2, <1>4 DEF Surjection
  <2> QED BY <2>1, <2>2 DEF ExistsBijection, Bijection
<1>6. IsFiniteSet(T) /\ Cardinality(T) = L BY <1>1, <1>5, FS_NatBijection, FS_CountingElements
<1> QED BY <1>6 DEF T, L

LEMMA OnlyInSet ==
    ASSUME NEW A, NEW s \in Seq(A), NEW S
    PROVE  /\ OnlyIn(s, S) \in Seq(A) /\ ToSet(OnlyIn(s, S)) = ToSet(s) \cap S
           /\ Len(OnlyIn(s, S)) <= Len(s)
           /\ Distinct(s) => Distinct(OnlyIn(s, S))
<1> DEFINE t == OnlyIn(s, S)
<1>1. IsFiltered(t, s, A, S) BY OnlyInFilters
<1> HIDE DEF t
<1>2. PICK g : Places(g, t, s) BY <1>1 DEF IsFiltered
<1>3. t \in Seq(A) /\ t \in Seq(A \cap S) /\ Len(t) \in Nat BY <1>1 DEF IsFiltered
<1>4. ToSet(t) = {t[j] : j \in 1 .. Len(t)} /\ ToSet(t) \subseteq A \cap S BY <1>3, ToSetIs
<1>5. ToSet(s) = {s[i] : i \in 1 .. Len(s)} BY ToSetIs
<1>6. \A j \in 1 .. Len(t) : g[j] \in 1 .. Len(s) /\ t[j] = s[g[j]] BY <1>2 DEF Places
<1>7. ToSet(t) = ToSet(s) \cap S
  <2>1. ToSet(t) \subseteq ToSet(s) BY <1>4, <1>5, <1>6
  <2>2. ASSUME NEW i \in 1 .. Len(s), s[i] \in S PROVE s[i] \in ToSet(t)
    <3>1. \E j \in 1 .. Len(t) : t[j] = s[i] BY <1>1, <2>2 DEF IsFiltered
    <3> QED BY <1>4, <3>1
  <2> QED BY <1>4, <1>5, <2>1, <2>2
<1>8. ASSUME Distinct(s) PROVE Distinct(t)
  <2> SUFFICES ASSUME NEW i \in 1 .. Len(t), NEW j \in 1 .. Len(t), t[i] = t[j] PROVE i = j
    BY DEF Distinct
  <2>1. g[i] = g[j] BY <1>6, <1>8 DEF Distinct
  <2>2. (i < j => g[i] < g[j]) /\ (j < i => g[j] < g[i]) BY <1>2 DEF Places
  <2> QED BY <1>3, <1>6, <2>1, <2>2
<1>9. Len(t) <= Len(s) BY <1>1 DEF IsFiltered
<1> QED BY <1>3, <1>7, <1>8, <1>9 DEF t

LEMMA DistinctAppend ==
    ASSUME NEW A, NEW s \in Seq(A), Distinct(s), NEW a \in A, a \notin ToSet(s)
    PROVE  Append(s, a) \in Seq(A) /\ Distinct(Append(s, a)) /\ ToSet(Append(s, a)) = ToSet(s) \cup {a}
<1> DEFINE t == Append(s, a)
           L == Len(s)
<1>1. L \in Nat /\ ToSet(s) = {s[i] : i \in 1 .. L} BY ToSetIs
<1>2. t \in Seq(A) /\ Len(t) = L + 1 /\ t[L + 1] = a /\ \A i \in 1 .. L : t[i] = s[i] BY AppendProperties
<1> HIDE DEF t, L
<1>3. ToSet(t) = {t[i] : i \in 1 .. L + 1} BY <1>2, ToSetIs
<1>4. (\A i \in 1 .. L + 1 : i \in 1 .. L \/ i = L + 1) /\ (\A i \in 1 .. L : i \in 1 .. L + 1) /\ L + 1 \in 1 .. L + 1 BY <1>1
<1>5. ToSet(t) = ToSet(s) \cup {a} BY <1>1, <1>2, <1>3, <1>4
<1>6. Distinct(t)
  <2> SUFFICES ASSUME NEW i \in 1 .. L + 1, NEW j \in 1 .. L + 1, t[i] = t[j] PROVE i = j
    BY <1>2 DEF Distinct
  <2>1. CASE i = L + 1 BY <1>1, <1>2, <1>4, <2>1
  <2>2. CASE j = L + 1 BY <1>1, <1>2, <1>4, <2>2
  <2>3. CASE i \in 1 .. L /\ j \in 1 .. L BY <1>2, <2>3 DEF Distinct, L
  <2> QED BY <1>4, <2>1, <2>2, <2>3
<1> QED BY <1>2, <1>5, <1>6 DEF t

\* A sequence cut in two.
LEMMA DistinctSplit ==
    ASSUME NEW A, NEW s \in Seq(A), Distinct(s), NEW n \in 0 .. Len(s)
    PROVE  LET out == ToSet(SubSeq(s, 1, n))
               rest == SubSeq(s, n + 1, Len(s))
           IN /\ rest \in Seq(A) /\ Len(rest) = Len(s) - n /\ Distinct(rest)
              /\ ToSet(rest) = ToSet(s) \ out /\ out \subseteq ToSet(s)
              /\ n = Len(s) => out = ToSet(s)
<1> DEFINE L == Len(s)
           o == SubSeq(s, 1, n)
           r == SubSeq(s, n + 1, L)
<1>1. L \in Nat /\ ToSet(s) = {s[i] : i \in 1 .. L} /\ \A i \in 1 .. L : s[i] \in A BY ToSetIs
<1> HIDE DEF L
<1>0. n \in 0 .. L BY DEF L
<1>2. /\ o \in Seq(A) /\ Len(o) = n /\ \A i \in 1 .. n : o[i] = s[i]
  <2>1. 1 \in Int /\ n \in Int /\ \A i \in 1 .. n : s[i] \in A BY <1>0, <1>1
  <2>2. /\ o \in Seq(A) /\ Len(o) = IF 1 <= n THEN n - 1 + 1 ELSE 0
        /\ \A i \in 1 .. n - 1 + 1 : o[i] = s[1 + i - 1]
    BY <2>1, SubSeqProperties
  <2> HIDE DEF o
  <2>3. n - 1 + 1 = n /\ \A i \in 1 .. n : 1 + i - 1 = i BY <1>0, <1>1
  <2>4. Len(o) = n BY <1>0, <1>1, <2>2
  <2> QED BY <2>2, <2>3, <2>4
<1>3. /\ r \in Seq(A) /\ Len(r) = L - n /\ \A i \in 1 .. L - n : r[i] = s[n + i]
  <2>1. n + 1 \in Int /\ L \in Int /\ \A i \in n + 1 .. L : s[i] \in A BY <1>0, <1>1
  <2>2. /\ r \in Seq(A) /\ Len(r) = IF n + 1 <= L THEN L - (n + 1) + 1 ELSE 0
        /\ \A i \in 1 .. L - (n + 1) + 1 : r[i] = s[(n + 1) + i - 1]
    BY <2>1, SubSeqProperties
  <2> HIDE DEF r
  <2>3. L - (n + 1) + 1 = L - n /\ \A i \in 1 .. L - n : (n + 1) + i - 1 = n + i BY <1>0, <1>1
  <2>4. Len(r) = L - n BY <1>0, <1>1, <2>2
  <2> QED BY <2>2, <2>3, <2>4
<1> HIDE DEF o, r
<1>4. ToSet(o) = {o[i] : i \in 1 .. n} /\ ToSet(r) = {r[i] : i \in 1 .. L - n} BY <1>2, <1>3, ToSetIs
<1>5. ToSet(o) = {s[i] : i \in 1 .. n} BY <1>2, <1>4
<1>6. /\ \A i \in 1 .. L - n : n + i \in 1 .. L /\ n + i \notin 1 .. n
      /\ \A i \in 1 .. L : i \in 1 .. n \/ (i - n \in 1 .. L - n /\ n + (i - n) = i)
      /\ \A i \in 1 .. n : i \in 1 .. L
  BY <1>0, <1>1
<1>7. \A i, j \in 1 .. L : s[i] = s[j] => i = j BY DEF Distinct, L
<1>8. ToSet(r) \subseteq ToSet(s) \ ToSet(o)
  <2> SUFFICES ASSUME NEW i \in 1 .. L - n PROVE r[i] \in ToSet(s) /\ r[i] \notin ToSet(o)
    BY <1>4
  <2>1. r[i] = s[n + i] /\ n + i \in 1 .. L /\ n + i \notin 1 .. n BY <1>3, <1>6
  <2>2. \A j \in 1 .. n : s[j] # r[i] BY <1>6, <1>7, <2>1
  <2> QED BY <1>1, <1>5, <2>1, <2>2
<1>9. ToSet(s) \ ToSet(o) \subseteq ToSet(r)
  <2> SUFFICES ASSUME NEW i \in 1 .. L, s[i] \notin ToSet(o) PROVE s[i] \in ToSet(r)
    BY <1>1
  <2>1. i - n \in 1 .. L - n /\ n + (i - n) = i BY <1>5, <1>6
  <2>2. r[i - n] = s[i] BY <1>3, <2>1
  <2> QED BY <1>4, <2>1, <2>2
<1>10. Distinct(r)
  <2> SUFFICES ASSUME NEW i \in 1 .. L - n, NEW j \in 1 .. L - n, r[i] = r[j] PROVE i = j
    BY <1>3 DEF Distinct
  <2>1. n + i = n + j BY <1>3, <1>6, <1>7
  <2> QED BY <1>0, <1>1, <2>1
<1>11. ToSet(o) \subseteq ToSet(s) /\ (n = L => ToSet(o) = ToSet(s)) BY <1>1, <1>5, <1>6
<1> QED BY <1>3, <1>8, <1>9, <1>10, <1>11 DEF o, r, L
-----------------------------------------------------------------------------
(* The bytes of a set of entries *)

LEMMA BytesFinite ==
    ASSUME NEW K \in SUBSET Key, IsFiniteSet(K), NEW e
    PROVE  /\ IsFiniteSet({b \in K \X (1 .. 2) : b[2] <= e[b[1]].bytes})
           /\ BytesOf(K, e) \in Nat
<1>1. 1 \in Int /\ 2 \in Int OBVIOUS
<1>10. IsFiniteSet(1 .. 2) BY <1>1, FS_Interval
<1>2. IsFiniteSet(K \X (1 .. 2)) BY <1>10, FS_Product
<1> DEFINE U == {b \in K \X (1 .. 2) : b[2] <= e[b[1]].bytes}
<1>3. U \in SUBSET (K \X (1 .. 2)) OBVIOUS
<1>4. BytesOf(K, e) = Cardinality(U) BY DEF BytesOf
<1> HIDE DEF U
<1>5. IsFiniteSet(U) BY <1>2, <1>3, FS_Subset
<1>6. Cardinality(U) \in Nat BY <1>5, FS_CardinalityType
<1> QED BY <1>4, <1>5, <1>6 DEF U

LEMMA BytesSame ==
    ASSUME NEW K \in SUBSET Key, NEW e, NEW f, \A k \in K : e[k].bytes = f[k].bytes
    PROVE  BytesOf(K, e) = BytesOf(K, f)
<1>1. {b \in K \X (1 .. 2) : b[2] <= e[b[1]].bytes} = {b \in K \X (1 .. 2) : b[2] <= f[b[1]].bytes}
  OBVIOUS
<1> QED BY <1>1 DEF BytesOf

\* The bytes of two sets with no key in common add up.
LEMMA BytesSum ==
    ASSUME NEW K \in SUBSET Key, IsFiniteSet(K), NEW J \in SUBSET K, NEW e
    PROVE  /\ IsFiniteSet(J) /\ IsFiniteSet(K \ J) /\ BytesOf(J, e) \in Nat /\ BytesOf(K \ J, e) \in Nat
           /\ BytesOf(K, e) = BytesOf(J, e) + BytesOf(K \ J, e)
<1> DEFINE U(X) == {b \in X \X (1 .. 2) : b[2] <= e[b[1]].bytes}
<1>1. IsFiniteSet(J) /\ IsFiniteSet(K \ J) BY FS_Subset, FS_Difference
<1>2. /\ IsFiniteSet(U(J)) /\ IsFiniteSet(U(K \ J)) /\ BytesOf(J, e) \in Nat /\ BytesOf(K \ J, e) \in Nat
  <2>1. J \in SUBSET Key /\ K \ J \in SUBSET Key OBVIOUS
  <2> QED BY <1>1, <2>1, BytesFinite
<1>3. U(K) = U(J) \cup U(K \ J) /\ U(J) \cap U(K \ J) = {} OBVIOUS
<1>4. /\ BytesOf(K, e) = Cardinality(U(K)) /\ BytesOf(J, e) = Cardinality(U(J))
      /\ BytesOf(K \ J, e) = Cardinality(U(K \ J))
  BY DEF BytesOf
<1> HIDE DEF U
<1>5. Cardinality(U(J) \cup U(K \ J)) = Cardinality(U(J)) + Cardinality(U(K \ J)) - Cardinality(U(J) \cap U(K \ J))
  BY <1>2, FS_Union
<1>6. Cardinality(U(J) \cap U(K \ J)) = 0 BY <1>3, FS_EmptySet
<1>7. BytesOf(K, e) = BytesOf(J, e) + BytesOf(K \ J, e) - 0 BY <1>3, <1>4, <1>5, <1>6
<1> QED BY <1>1, <1>2, <1>7

LEMMA BytesOne == ASSUME NEW k \in Key, NEW e, e[k].bytes \in 0 .. 2 PROVE BytesOf({k}, e) = e[k].bytes
<1> DEFINE n == e[k].bytes
<1>1. {b \in {k} \X (1 .. 2) : b[2] <= e[b[1]].bytes} = {k} \X (1 .. n) OBVIOUS
<1>2. BytesOf({k}, e) = Cardinality({k} \X (1 .. n)) BY <1>1 DEF BytesOf
<1>3. n \in 0 .. 2 OBVIOUS
<1> HIDE DEF n
<1>4. IsFiniteSet(1 .. n) /\ Cardinality(1 .. n) = n
  <2>1. 1 \in Int /\ n \in Int BY <1>3
  <2>2. IsFiniteSet(1 .. n) /\ Cardinality(1 .. n) = IF 1 > n THEN 0 ELSE n - 1 + 1 BY <2>1, FS_Interval
  <2> QED BY <1>3, <2>2
<1>5. IsFiniteSet({k}) /\ Cardinality({k}) = 1 BY FS_Singleton
<1>6. Cardinality({k} \X (1 .. n)) = Cardinality({k}) * Cardinality(1 .. n) BY <1>4, <1>5, FS_Product
<1>7. Cardinality({k} \X (1 .. n)) = n BY <1>3, <1>4, <1>5, <1>6
<1> QED BY <1>2, <1>7 DEF n

LEMMA BytesEmpty == ASSUME NEW e PROVE BytesOf({}, e) = 0
<1>1. {b \in {} \X (1 .. 2) : b[2] <= e[b[1]].bytes} = {} OBVIOUS
<1> QED BY <1>1, FS_EmptySet DEF BytesOf
-----------------------------------------------------------------------------
(* The cache of sessions and its file *)

\* The order of the keys, for a table and totals: what CacheInv says of them.
Holding(o, e, st) ==
    /\ o \in Seq(Key) /\ Distinct(o) /\ e \in [Key -> Entry] /\ st \in [entries : Int, bytes : Int]
    /\ Len(o) = st.entries /\ Len(o) <= MaxEntries
    /\ \A k \in Key : (e[k] # Gone) <=> (k \in ToSet(o))
    /\ BytesOf(ToSet(o), e) <= st.bytes /\ st.bytes <= MaxBytes

\* The entries that were saved could be those of the cache.
Saved(f) ==
    /\ f \in Seq(Key \X Entry) /\ Len(f) <= MaxEntries
    /\ \A i, j \in 1 .. Len(f) : f[i][1] = f[j][1] => i = j
    /\ \A i \in 1 .. Len(f) : f[i][2] # Gone
    /\ \E e \in [Key -> Entry] :
         /\ \A i \in 1 .. Len(f) : e[f[i][1]] = f[i][2]
         /\ BytesOf({f[i][1] : i \in 1 .. Len(f)}, e) <= MaxBytes

\* What the file says of a key is its last value, or the key changed later; what
\* the cache says is the last value, or was loaded from such a file.
SavedLast == \A i \in 1 .. Len(file) : file[i][2].value = newest[file[i][1]] \/ file[i][1] \in behind
HeldLast == \A k \in ToSet(order) : entry[k].value = newest[k] \/ k \in revived

CacheRest ==
    /\ serving \in BOOLEAN /\ sets \in 0 .. MaxSets /\ newest \in [Key -> 0 .. MaxSets]
    /\ behind \subseteq Key /\ revived \subseteq Key

CacheIInv == Holding(order, entry, stats) /\ Saved(file) /\ SavedLast /\ HeldLast /\ CacheRest

LEMMA CacheImplied == ASSUME CacheIInv PROVE CacheTypeOK /\ CacheInv
<1>1. order \in Seq(Key) /\ DOMAIN order = 1 .. Len(order) BY DEF CacheIInv, Holding
<1>2. \A i, j \in DOMAIN order : order[i] = order[j] => i = j BY <1>1 DEF CacheIInv, Holding, Distinct
<1>3. CacheTypeOK BY DEF CacheIInv, Holding, Saved, CacheRest, CacheTypeOK
<1> QED BY <1>2, <1>3 DEF CacheIInv, Holding, HeldLast, CacheInv

LEMMA NothingHeld ==
    ASSUME CacheAssumption, NEW o, o = <<>>, NEW e, e = [k \in Key |-> Gone], NEW st, st = [entries |-> 0, bytes |-> 0]
    PROVE  Holding(o, e, st) /\ ToSet(o) = {}
<1>1. o \in Seq(Key) /\ Len(o) = 0 BY EmptySeq
<1>2. ToSet(o) = {}
  <2>1. DOMAIN o = {} BY <1>1
  <2> QED BY <2>1 DEF ToSet
<1>3. BytesOf(ToSet(o), e) = 0 BY <1>2, BytesEmpty
<1>4. Gone \in Entry BY DEF Gone, Entry, EntryKinds, CacheAssumption
<1> QED BY <1>1, <1>2, <1>3, <1>4 DEF Holding, Distinct, CacheAssumption

LEMMA CacheStart == ASSUME CacheAssumption, CacheInit PROVE CacheIInv
<1>1. Holding(order, entry, stats) /\ ToSet(order) = {}
  <2> DEFINE o == order
             e == entry
             st == stats
  <2>1. o = <<>> /\ e = [k \in Key |-> Gone] /\ st = [entries |-> 0, bytes |-> 0] BY DEF CacheInit
  <2> HIDE DEF o, e, st
  <2>2. Holding(o, e, st) /\ ToSet(o) = {} BY <2>1, NothingHeld
  <2> QED BY <2>2 DEF o, e, st
<1>2. Saved(file)
  <2>1. file \in Seq(Key \X Entry) /\ Len(file) = 0 BY EmptySeq DEF CacheInit
  <2> DEFINE e == [k \in Key |-> Gone]
  <2>2. e \in [Key -> Entry] BY DEF Gone, Entry, EntryKinds, CacheAssumption
  <2> DEFINE K == {file[i][1] : i \in 1 .. Len(file)}
  <2>3. K = {} BY <2>1
  <2> HIDE DEF e, K
  <2>4. BytesOf(K, e) = 0 BY <2>3, BytesEmpty
  <2>5. BytesOf(K, e) <= MaxBytes BY <2>4 DEF CacheAssumption
  <2>6. \E x \in [Key -> Entry] : (\A i \in 1 .. Len(file) : x[file[i][1]] = file[i][2]) /\ BytesOf(K, x) <= MaxBytes
    <3>1. \A i \in 1 .. Len(file) : e[file[i][1]] = file[i][2] BY <2>1
    <3> QED BY <2>2, <2>5, <3>1
  <2>7. Len(file) <= MaxEntries BY <2>1 DEF CacheAssumption
  <2>8. /\ \A i, j \in 1 .. Len(file) : file[i][1] = file[j][1] => i = j
        /\ \A i \in 1 .. Len(file) : file[i][2] # Gone
    BY <2>1
  <2> QED BY <2>1, <2>6, <2>7, <2>8 DEF Saved, K
<1>3. SavedLast /\ CacheRest
  <2>1. Len(file) = 0 BY EmptySeq DEF CacheInit
  <2>2. SavedLast BY <2>1 DEF SavedLast
  <2>3. 0 \in 0 .. MaxSets BY DEF CacheAssumption
  <2>4. newest \in [Key -> 0 .. MaxSets] BY <2>3 DEF CacheInit
  <2> QED BY <2>2, <2>3, <2>4 DEF CacheInit, CacheRest
<1> QED BY <1>1, <1>2, <1>3 DEF CacheIInv, HeldLast

\* Entries go.
LEMMA Fewer ==
    ASSUME CacheAssumption, Holding(order, entry, stats), NEW keys \in SUBSET ToSet(order), Removes(keys)
    PROVE  /\ order' \in Seq(Key) /\ Distinct(order') /\ entry' \in [Key -> Entry]
           /\ Len(order') = Len(order) - Cardinality(keys) /\ Len(order') \in Nat /\ Len(order') <= Len(order)
           /\ \A k \in Key : (entry'[k] # Gone) <=> (k \in ToSet(order'))
           /\ ToSet(order') = ToSet(order) \ keys
           /\ \A k \in ToSet(order') : entry'[k] = entry[k]
           /\ BytesOf(ToSet(order'), entry') = BytesOf(ToSet(order), entry) - BytesOf(keys, entry)
           /\ BytesOf(keys, entry) \in Nat /\ BytesOf(ToSet(order), entry) \in Nat
<1> DEFINE o == order
           S == Key \ keys
           t == OnlyIn(o, S)
<1>0. o \in Seq(Key) /\ Distinct(o) /\ Len(o) \in Nat BY DEF Holding
<1>1. order' = t /\ entry' = [k \in Key |-> IF k \in keys THEN Gone ELSE entry[k]] BY DEF Removes
<1>2. ToSet(o) \subseteq Key
  <2> HIDE DEF o
  <2> QED BY <1>0, ToSetIs
<1>3. t \in Seq(Key) /\ ToSet(t) = ToSet(o) \cap S /\ Len(t) <= Len(o) /\ Distinct(t)
  <2> HIDE DEF o, S
  <2> QED BY <1>0, OnlyInSet DEF t
<1>4. IsFiniteSet(ToSet(o)) /\ Cardinality(ToSet(o)) = Len(o) BY <1>0, DistinctCount
<1>5. Cardinality(ToSet(t)) = Len(t)
  <2> HIDE DEF t
  <2> QED BY <1>3, DistinctCount
<1>6. ToSet(t) = ToSet(o) \ keys BY <1>2, <1>3
<1> HIDE DEF t, S
<1>7. Len(t) = Len(o) - Cardinality(keys) /\ Len(t) \in Nat
  <2>1. Cardinality(ToSet(o) \ keys) = Cardinality(ToSet(o)) - Cardinality(ToSet(o) \cap keys) BY <1>4, FS_Difference
  <2>2. ToSet(o) \cap keys = keys OBVIOUS
  <2>3. Len(t) \in Nat BY <1>3
  <2> QED BY <1>4, <1>5, <1>6, <2>1, <2>2, <2>3
<1>8. Gone \in Entry BY DEF Gone, Entry, EntryKinds, CacheAssumption
<1>9. entry \in [Key -> Entry] /\ \A k \in Key : (entry[k] # Gone) <=> (k \in ToSet(o)) BY DEF Holding
<1>10. entry' \in [Key -> Entry] BY <1>1, <1>8, <1>9
<1>11. \A k \in Key : entry'[k] = IF k \in keys THEN Gone ELSE entry[k] BY <1>1
<1>12. \A k \in Key : (entry'[k] # Gone) <=> (k \in ToSet(t)) BY <1>2, <1>6, <1>9, <1>11
<1>13. \A k \in ToSet(t) : entry'[k] = entry[k] BY <1>2, <1>6, <1>11
<1>14. /\ BytesOf(keys, entry) \in Nat /\ BytesOf(ToSet(o) \ keys, entry) \in Nat
       /\ BytesOf(ToSet(o), entry) = BytesOf(keys, entry) + BytesOf(ToSet(o) \ keys, entry)
  <2>1. ToSet(o) \in SUBSET Key /\ keys \in SUBSET ToSet(o) BY <1>2
  <2> HIDE DEF o
  <2> QED BY <1>4, <2>1, BytesSum
<1>15. BytesOf(ToSet(t), entry') = BytesOf(ToSet(o) \ keys, entry)
  <2>1. ToSet(t) \in SUBSET Key BY <1>2, <1>6
  <2> DEFINE K == ToSet(t)
             e == entry'
             f == entry
  <2>2. K \in SUBSET Key /\ \A k \in K : e[k].bytes = f[k].bytes BY <1>13, <2>1
  <2> HIDE DEF K, e, f
  <2>3. BytesOf(K, e) = BytesOf(K, f) BY <2>2, BytesSame
  <2> QED BY <1>6, <2>3 DEF K, e, f
<1>16. BytesOf(ToSet(t), entry') = BytesOf(ToSet(o), entry) - BytesOf(keys, entry) /\ BytesOf(ToSet(o), entry) \in Nat
  BY <1>14, <1>15
<1> QED BY <1>1, <1>3, <1>6, <1>7, <1>10, <1>12, <1>13, <1>14, <1>16

LEMMA DropsHolds ==
    ASSUME CacheAssumption, Holding(order, entry, stats), NEW keys \in SUBSET ToSet(order), Drops(keys)
    PROVE  Holding(order', entry', stats') /\ ToSet(order') = ToSet(order) \ keys /\ \A k \in ToSet(order') : entry'[k] = entry[k]
<1>1. /\ order' \in Seq(Key) /\ Distinct(order') /\ entry' \in [Key -> Entry]
      /\ Len(order') = Len(order) - Cardinality(keys) /\ Len(order') \in Nat /\ Len(order') <= Len(order)
      /\ \A k \in Key : (entry'[k] # Gone) <=> (k \in ToSet(order'))
      /\ ToSet(order') = ToSet(order) \ keys
      /\ \A k \in ToSet(order') : entry'[k] = entry[k]
      /\ BytesOf(ToSet(order'), entry') = BytesOf(ToSet(order), entry) - BytesOf(keys, entry)
      /\ BytesOf(keys, entry) \in Nat /\ BytesOf(ToSet(order), entry) \in Nat
  BY Fewer DEF Drops
<1>2. stats' = [entries |-> stats.entries - Cardinality(keys), bytes |-> stats.bytes - BytesOf(keys, entry)] BY DEF Drops
<1>3. /\ stats.entries \in Int /\ stats.bytes \in Int /\ Len(order) = stats.entries /\ Len(order) <= MaxEntries
      /\ BytesOf(ToSet(order), entry) <= stats.bytes /\ stats.bytes <= MaxBytes /\ Len(order) \in Nat
  BY DEF Holding
<1>4. MaxEntries \in Nat /\ MaxBytes \in Nat BY DEF CacheAssumption
<1>5. IsFiniteSet(keys) /\ Cardinality(keys) \in Nat
  <2>1. order \in Seq(Key) /\ Distinct(order) BY DEF Holding
  <2>2. IsFiniteSet(ToSet(order)) BY <2>1, DistinctCount
  <2> QED BY <2>2, FS_Subset, FS_CardinalityType
<1> DEFINE c == Cardinality(keys)
           b == BytesOf(keys, entry)
           B == BytesOf(ToSet(order), entry)
<1>6. stats'.entries = stats.entries - c /\ stats'.bytes = stats.bytes - b /\ stats' \in [entries : Int, bytes : Int]
  BY <1>1, <1>2, <1>3, <1>5
<1>7. c \in Nat /\ b \in Nat /\ B \in Nat /\ Len(order') = Len(order) - c /\ BytesOf(ToSet(order'), entry') = B - b /\ B <= stats.bytes
  BY <1>1, <1>3, <1>5
<1> HIDE DEF c, b, B
<1>8. /\ Len(order') = stats'.entries /\ Len(order') <= MaxEntries
      /\ BytesOf(ToSet(order'), entry') <= stats'.bytes /\ stats'.bytes <= MaxBytes
  <2>1. Len(order') = stats'.entries BY <1>3, <1>6, <1>7
  <2>2. Len(order') <= MaxEntries BY <1>1, <1>3, <1>4
  <2>3. BytesOf(ToSet(order'), entry') <= stats'.bytes BY <1>3, <1>6, <1>7
  <2>4. stats'.bytes <= MaxBytes BY <1>3, <1>4, <1>6, <1>7
  <2> QED BY <2>1, <2>2, <2>3, <2>4
<1> QED BY <1>1, <1>6, <1>8 DEF Holding

\* The cache is saved: what the file has then.
LEMMA SavedHolds ==
    ASSUME CacheAssumption, Holding(order, entry, stats), SavePersisted
    PROVE  /\ Saved(file')
           /\ \A i \in 1 .. Len(file') : file'[i][1] \in ToSet(order) /\ file'[i][2] = entry[file'[i][1]]
<1> DEFINE o == order
<1>1. PICK S : LET kept == OnlyIn(o, S) IN file' = [i \in DOMAIN kept |-> <<kept[i], entry[kept[i]]>>]
  BY DEF SavePersisted
<1> DEFINE t == OnlyIn(o, S)
<1>2. o \in Seq(Key) /\ Distinct(o) /\ Len(o) \in Nat /\ Len(o) <= MaxEntries BY DEF Holding
<1>3. t \in Seq(Key) /\ ToSet(t) = ToSet(o) \cap S /\ Len(t) <= Len(o) /\ Distinct(t)
  <2> HIDE DEF o
  <2> QED BY <1>2, OnlyInSet DEF t
<1>4. file' = [i \in DOMAIN t |-> <<t[i], entry[t[i]]>>] BY <1>1
<1> HIDE DEF t
<1>5. ToSet(t) = {t[i] : i \in 1 .. Len(t)} /\ DOMAIN t = 1 .. Len(t) /\ Len(t) \in Nat BY <1>3, ToSetIs
<1>6. \A i \in 1 .. Len(t) : t[i] \in Key /\ t[i] \in ToSet(o) BY <1>3, <1>5
<1>7. entry \in [Key -> Entry] /\ \A k \in ToSet(o) : k \in Key => entry[k] # Gone BY DEF Holding
<1>8. file' \in [1 .. Len(t) -> Key \X Entry] BY <1>4, <1>5, <1>6, <1>7
<1>9. file' \in Seq(Key \X Entry) /\ Len(file') = Len(t) BY <1>5, <1>8
<1>10. \A i \in 1 .. Len(t) : file'[i][1] = t[i] /\ file'[i][2] = entry[t[i]] BY <1>4, <1>5
<1>11. {file'[i][1] : i \in 1 .. Len(file')} = ToSet(t) BY <1>5, <1>9, <1>10
<1>12. BytesOf(ToSet(t), entry) <= MaxBytes
  <2>1. IsFiniteSet(ToSet(o)) BY <1>2, DistinctCount
  <2>2. ToSet(o) \subseteq Key
    <3> HIDE DEF o
    <3> QED BY <1>2, ToSetIs
  <2>3. ToSet(t) \subseteq ToSet(o) BY <1>3
  <2> DEFINE K == ToSet(o)
             J == ToSet(t)
  <2>4. IsFiniteSet(K) /\ K \in SUBSET Key /\ J \in SUBSET K BY <2>1, <2>2, <2>3
  <2>5. BytesOf(K, entry) <= stats.bytes /\ stats.bytes <= MaxBytes /\ stats.bytes \in Int BY DEF Holding
  <2>6. MaxBytes \in Nat BY DEF CacheAssumption
  <2> HIDE DEF K, J
  <2> DEFINE e == entry
  <2> HIDE DEF e
  <2>7. BytesOf(J, e) \in Nat /\ BytesOf(K \ J, e) \in Nat /\ BytesOf(K, e) = BytesOf(J, e) + BytesOf(K \ J, e)
    BY <2>4, BytesSum
  <2>8. BytesOf(J, e) <= MaxBytes BY <2>5, <2>6, <2>7 DEF e
  <2> QED BY <2>8 DEF J, e
<1>13. Saved(file')
  <2> DEFINE f == file'
  <2>1. f \in Seq(Key \X Entry) /\ Len(f) <= MaxEntries
    <3>1. MaxEntries \in Nat BY DEF CacheAssumption
    <3> QED BY <1>2, <1>3, <1>5, <1>9, <3>1
  <2>2. \A i, j \in 1 .. Len(f) : f[i][1] = f[j][1] => i = j BY <1>3, <1>9, <1>10 DEF Distinct
  <2>3. \A i \in 1 .. Len(f) : f[i][2] # Gone BY <1>6, <1>7, <1>9, <1>10
  <2>4. \E e \in [Key -> Entry] :
          /\ \A i \in 1 .. Len(f) : e[f[i][1]] = f[i][2]
          /\ BytesOf({f[i][1] : i \in 1 .. Len(f)}, e) <= MaxBytes
    <3>1. \A i \in 1 .. Len(f) : entry[f[i][1]] = f[i][2] BY <1>9, <1>10
    <3>2. BytesOf({f[i][1] : i \in 1 .. Len(f)}, entry) <= MaxBytes BY <1>11, <1>12
    <3> QED BY <1>7, <3>1, <3>2
  <2> HIDE DEF f
  <2>5. Saved(f) BY <2>1, <2>2, <2>3, <2>4 DEF Saved
  <2> QED BY <2>5 DEF f
<1> QED BY <1>6, <1>9, <1>10, <1>13

\* What a set() leaves: the other keys and the one that is stored, without some
\* at the front.
LeftBySet(k) ==
    LET keys == Append(OnlyIn(order, Key \ {k}), k)
    IN \E n \in 0 .. Len(keys) : order' = SubSeq(keys, n + 1, Len(keys))

\* A value is stored, and entries go from the front until the limits are met.
LEMMA SetHolds ==
    ASSUME CacheAssumption, Holding(order, entry, stats), CacheRest, NEW k \in Key, Set(k)
    PROVE  /\ Holding(order', entry', stats') /\ ToSet(order') \subseteq ToSet(order) \cup {k}
           /\ \A x \in ToSet(order') : IF x = k THEN entry'[x].value = sets + 1 ELSE entry'[x] = entry[x]
           /\ LeftBySet(k)
<1> DEFINE o == order
           S == Key \ {k}
<1>1. PICK v \in Storable :
        LET e == [entry EXCEPT ![k] = [value |-> sets + 1, bytes |-> v.bytes, kind |-> v.kind]]
            keys == Append(OnlyIn(o, S), k)
            bytes == stats.bytes - entry[k].bytes + v.bytes
            n == Evicted(keys, e, bytes)
            out == ToSet(SubSeq(keys, 1, n))
        IN /\ order' = SubSeq(keys, n + 1, Len(keys))
           /\ entry' = [x \in Key |-> IF x \in out THEN Gone ELSE e[x]]
           /\ stats' = [entries |-> Len(keys) - n, bytes |-> bytes - BytesOf(out, e)]
  BY DEF Set
<1> DEFINE new == [value |-> sets + 1, bytes |-> v.bytes, kind |-> v.kind]
           e == [entry EXCEPT ![k] = new]
           t == OnlyIn(o, S)
           keys == Append(t, k)
           bytes == stats.bytes - entry[k].bytes + v.bytes
           n == Evicted(keys, e, bytes)
           out == ToSet(SubSeq(keys, 1, n))
           all == ToSet(keys)
<1>2. /\ order' = SubSeq(keys, n + 1, Len(keys))
      /\ entry' = [x \in Key |-> IF x \in out THEN Gone ELSE e[x]]
      /\ stats' = [entries |-> Len(keys) - n, bytes |-> bytes - BytesOf(out, e)]
  BY <1>1
<1>3. /\ o \in Seq(Key) /\ Distinct(o) /\ entry \in [Key -> Entry] /\ stats \in [entries : Int, bytes : Int]
      /\ BytesOf(ToSet(o), entry) <= stats.bytes /\ stats.bytes <= MaxBytes
      /\ \A x \in Key : (entry[x] # Gone) <=> (x \in ToSet(o))
  BY DEF Holding
<1>4. MaxEntries \in Nat \ {0} /\ MaxBytes \in Nat \ {0} /\ MaxSets \in Nat /\ v.bytes \in 1 .. 2 /\ v.kind \in EntryKinds
  BY DEF CacheAssumption
<1>5. sets \in Nat /\ sets + 1 \in 0 .. MaxSets /\ sets + 1 # 0
  BY <1>4 DEF Set, CacheRest
<1>6. new \in Entry /\ new # Gone /\ Gone \in Entry
  <2>1. Gone.value = 0 /\ new.value = sets + 1 BY DEF Gone
  <2>2. new # Gone BY <1>5, <2>1
  <2>3. v.bytes \in 0 .. 2 BY <1>4
  <2> QED BY <1>4, <1>5, <2>2, <2>3 DEF Entry, Gone, EntryKinds
<1>7. t \in Seq(Key) /\ ToSet(t) = ToSet(o) \cap S /\ Distinct(t)
  <2> HIDE DEF o, S
  <2> QED BY <1>3, OnlyInSet DEF t
<1>8. ToSet(o) \subseteq Key /\ IsFiniteSet(ToSet(o))
  <2> HIDE DEF o
  <2> QED BY <1>3, ToSetIs, DistinctCount
<1>9. ToSet(t) = ToSet(o) \ {k} /\ k \notin ToSet(t) BY <1>7, <1>8
<1> HIDE DEF t, S
<1>10. keys \in Seq(Key) /\ Distinct(keys) /\ all = ToSet(t) \cup {k}
  BY <1>7, <1>9, DistinctAppend
<1> HIDE DEF keys
<1>11. all \subseteq Key /\ IsFiniteSet(all) /\ Len(keys) \in Nat
  <2>1. keys \in Seq(Key) /\ Distinct(keys) BY <1>10
  <2>2. ToSet(keys) \subseteq Key BY <2>1, ToSetIs
  <2>3. IsFiniteSet(ToSet(keys)) BY <2>1, DistinctCount
  <2> QED BY <2>1, <2>2, <2>3
<1>12. e \in [Key -> Entry] /\ e[k] = new /\ \A x \in Key : x # k => e[x] = entry[x] BY <1>3, <1>6
<1> HIDE DEF all, e, new, bytes, out, o
\* the limits can be met
<1>13. /\ n \in 0 .. Len(keys) /\ Len(keys) - n <= MaxEntries
       /\ bytes - BytesOf(out, e) <= MaxBytes \/ n = Len(keys)
  <2> DEFINE fits(m) == /\ Len(keys) - m <= MaxEntries
                        /\ bytes - BytesOf(ToSet(SubSeq(keys, 1, m)), e) <= MaxBytes \/ m = Len(keys)
             T == {m \in 0 .. Len(keys) : fits(m)}
  <2>1. fits(Len(keys)) BY <1>4, <1>11
  <2>2. Len(keys) \in T BY <1>11, <2>1
  <2>3. T \in SUBSET Nat BY <1>11
  <2>4. n = CHOOSE m \in 0 .. Len(keys) : fits(m) /\ \A j \in 0 .. m - 1 : ~fits(j) BY DEF Evicted
  <2> HIDE DEF fits, n
  <2>5. PICK m \in T : \A j \in T : m <= j
    <3>1. T # {} BY <2>2
    <3> HIDE DEF T
    <3> QED BY <2>3, <3>1, LeastNumber
  <2>6. m \in 0 .. Len(keys) /\ fits(m) /\ \A j \in 0 .. m - 1 : ~fits(j)
    <3>1. \A j \in 0 .. m - 1 : j \in 0 .. Len(keys) /\ ~(m <= j) BY <1>11
    <3> QED BY <2>5, <3>1
  <2>7. n \in 0 .. Len(keys) /\ fits(n) BY <2>4, <2>6
  <2> QED BY <2>7 DEF fits, out, n
<1> HIDE DEF n
<1>14. /\ order' \in Seq(Key) /\ Len(order') = Len(keys) - n /\ Distinct(order')
       /\ ToSet(order') = all \ out /\ out \subseteq all /\ (n = Len(keys) => out = all)
  <2>1. LET cut == ToSet(SubSeq(keys, 1, n))
            rest == SubSeq(keys, n + 1, Len(keys))
        IN /\ rest \in Seq(Key) /\ Len(rest) = Len(keys) - n /\ Distinct(rest)
           /\ ToSet(rest) = ToSet(keys) \ cut /\ cut \subseteq ToSet(keys)
           /\ n = Len(keys) => cut = ToSet(keys)
    BY <1>10, <1>13, DistinctSplit
  <2> QED BY <1>2, <2>1 DEF out, all
<1>15. /\ BytesOf(out, e) \in Nat /\ BytesOf(all \ out, e) \in Nat
       /\ BytesOf(all, e) = BytesOf(out, e) + BytesOf(all \ out, e)
  <2>1. all \in SUBSET Key /\ out \in SUBSET all BY <1>11, <1>14
  <2> QED BY <1>11, <2>1, BytesSum
<1>16. BytesOf(all, e) = BytesOf(ToSet(o) \ {k}, entry) + v.bytes /\ BytesOf(ToSet(o) \ {k}, entry) \in Nat
  <2>1. all \ {k} = ToSet(o) \ {k} /\ {k} \in SUBSET all BY <1>9, <1>10
  <2>2. BytesOf(all, e) = BytesOf({k}, e) + BytesOf(all \ {k}, e) /\ BytesOf(all \ {k}, e) \in Nat
    <3>1. all \in SUBSET Key BY <1>11
    <3> DEFINE J == {k}
    <3>2. J \in SUBSET all BY <2>1
    <3> HIDE DEF J
    <3>3. BytesOf(all, e) = BytesOf(J, e) + BytesOf(all \ J, e) /\ BytesOf(all \ J, e) \in Nat
      BY <1>11, <3>1, <3>2, BytesSum
    <3> QED BY <3>3 DEF J
  <2>3. e[k].bytes = v.bytes /\ v.bytes \in 0 .. 2 BY <1>4, <1>12 DEF new
  <2>4. BytesOf({k}, e) = v.bytes BY <2>3, BytesOne
  <2>5. BytesOf(ToSet(o) \ {k}, e) = BytesOf(ToSet(o) \ {k}, entry)
    <3> DEFINE K == ToSet(o) \ {k}
               f == entry
    <3>1. K \in SUBSET Key /\ \A x \in K : e[x].bytes = f[x].bytes BY <1>8, <1>12
    <3> HIDE DEF K, f
    <3>2. BytesOf(K, e) = BytesOf(K, f) BY <3>1, BytesSame
    <3> QED BY <3>2 DEF K, f
  <2> DEFINE a == BytesOf(ToSet(o) \ {k}, entry)
  <2>6. BytesOf(all \ {k}, e) = a /\ a \in Nat BY <2>1, <2>2, <2>5
  <2> HIDE DEF a
  <2>7. BytesOf(all, e) = a + v.bytes BY <2>2, <2>3, <2>4, <2>6
  <2> QED BY <2>6, <2>7 DEF a
<1>17. BytesOf(ToSet(o), entry) = BytesOf(ToSet(o) \ {k}, entry) + entry[k].bytes /\ entry[k].bytes \in 0 .. 2
  <2>0. entry[k].bytes \in 0 .. 2 BY <1>3 DEF Entry
  <2>1. CASE k \in ToSet(o)
    <3> DEFINE K == ToSet(o)
               J == {k}
               f == entry
    <3>1. K \in SUBSET Key /\ IsFiniteSet(K) /\ J \in SUBSET K /\ f[k].bytes \in 0 .. 2 BY <1>8, <2>0, <2>1
    <3> HIDE DEF K, f
    <3>2. BytesOf(J, f) = f[k].bytes BY <3>1, BytesOne
    <3> HIDE DEF J
    <3>3. BytesOf(K, f) = BytesOf(J, f) + BytesOf(K \ J, f) /\ BytesOf(J, f) \in Nat /\ BytesOf(K \ J, f) \in Nat
      BY <3>1, BytesSum
    <3>4. BytesOf(K, f) = BytesOf(K \ J, f) + f[k].bytes BY <3>2, <3>3
    <3> QED BY <2>0, <3>4 DEF K, J, f
  <2>2. CASE k \notin ToSet(o)
    <3>1. entry[k] = Gone /\ Gone.bytes = 0 BY <1>3, <2>2 DEF Gone
    <3>2. ToSet(o) \ {k} = ToSet(o) BY <2>2
    <3> DEFINE a == BytesOf(ToSet(o), entry)
    <3>3. a \in Nat BY <1>16, <3>2
    <3> HIDE DEF a
    <3>4. a = a + entry[k].bytes BY <3>1, <3>3
    <3> QED BY <2>0, <3>2, <3>4 DEF a
  <2> QED BY <2>1, <2>2
<1>18. BytesOf(all, e) <= bytes /\ bytes \in Int /\ (n = Len(keys) => bytes - BytesOf(out, e) <= MaxBytes)
  <2> DEFINE a == BytesOf(ToSet(o) \ {k}, entry)
             c == BytesOf(ToSet(o), entry)
             d == BytesOf(all, e)
             x == entry[k].bytes
             y == v.bytes
             z == stats.bytes
  <2>1. a \in Nat /\ c = a + x /\ d = a + y /\ x \in 0 .. 2 /\ y \in 1 .. 2 /\ z \in Int /\ c <= z /\ z <= MaxBytes
        /\ bytes = z - x + y /\ MaxBytes \in Nat
    BY <1>3, <1>4, <1>16, <1>17 DEF bytes, o
  <2> HIDE DEF a, c, d, x, y, z
  <2>2. d <= bytes /\ bytes \in Int /\ bytes - d <= MaxBytes BY <2>1
  <2>3. n = Len(keys) => bytes - BytesOf(out, e) <= MaxBytes BY <1>14, <2>2 DEF d
  <2> QED BY <2>2, <2>3 DEF d
<1>19. /\ entry' \in [Key -> Entry]
       /\ \A x \in Key : entry'[x] = IF x \in out THEN Gone ELSE e[x]
  BY <1>2, <1>6, <1>12
<1>20. \A x \in ToSet(order') : x \in Key /\ x \in all /\ entry'[x] = e[x] BY <1>11, <1>14, <1>19
<1>21. \A x \in Key : (entry'[x] # Gone) <=> (x \in ToSet(order'))
  <2>1. \A x \in Key : (e[x] # Gone) <=> (x \in all) BY <1>3, <1>6, <1>9, <1>10, <1>12 DEF o
  <2> QED BY <1>14, <1>19, <2>1
<1>22. BytesOf(ToSet(order'), entry') = BytesOf(all \ out, e)
  <2> DEFINE K == ToSet(order')
             f == entry'
  <2>1. K \in SUBSET Key /\ \A x \in K : f[x].bytes = e[x].bytes BY <1>20
  <2> HIDE DEF K, f
  <2>2. BytesOf(K, f) = BytesOf(K, e) BY <2>1, BytesSame
  <2> QED BY <1>14, <2>2 DEF K, f
<1>23. /\ stats' \in [entries : Int, bytes : Int] /\ Len(order') = stats'.entries /\ Len(order') <= MaxEntries
       /\ BytesOf(ToSet(order'), entry') <= stats'.bytes /\ stats'.bytes <= MaxBytes
  <2> DEFINE a == BytesOf(out, e)
             c == BytesOf(all \ out, e)
             d == BytesOf(all, e)
  <2>1. a \in Nat /\ c \in Nat /\ d = a + c /\ d <= bytes /\ bytes \in Int BY <1>15, <1>18
  <2>2. stats' = [entries |-> Len(keys) - n, bytes |-> bytes - a] BY <1>2
  <2>3. bytes - a <= MaxBytes BY <1>13, <1>18
  <2>4. BytesOf(ToSet(order'), entry') = c BY <1>22
  <2> HIDE DEF a, c, d
  <2>5. stats'.entries = Len(keys) - n /\ stats'.bytes = bytes - a /\ Len(keys) - n \in Int /\ bytes - a \in Int
    BY <1>11, <1>13, <2>1, <2>2
  <2>6. c <= bytes - a BY <2>1
  <2> QED BY <1>13, <1>14, <2>2, <2>3, <2>4, <2>5, <2>6
<1>24. ToSet(order') \subseteq ToSet(order) \cup {k} BY <1>9, <1>10, <1>14 DEF o
<1>25. \A x \in ToSet(order') : IF x = k THEN entry'[x].value = sets + 1 ELSE entry'[x] = entry[x]
  BY <1>12, <1>20 DEF new
<1>26. LeftBySet(k) BY <1>2, <1>13 DEF LeftBySet, keys, t, S, o
<1> QED BY <1>14, <1>19, <1>21, <1>23, <1>24, <1>25, <1>26 DEF Holding

LEMMA CacheStep == ASSUME CacheAssumption, CacheIInv, CacheNext PROVE CacheIInv'
<1>1. /\ Holding(order, entry, stats) /\ Saved(file) /\ SavedLast /\ HeldLast /\ CacheRest
      /\ order \in Seq(Key)
  BY DEF CacheIInv, Holding
<1>2. ASSUME Holding(order', entry', stats'), CacheRest', UNCHANGED <<file, newest>>,
             behind \subseteq behind', HeldLast'
      PROVE  CacheIInv'
  BY <1>1, <1>2 DEF CacheIInv, SavedLast
\* entries that go, and nothing else
<1>3. ASSUME NEW keys \in SUBSET ToSet(order), Drops(keys), UNCHANGED <<file, serving, sets, newest, behind, revived>>
      PROVE  CacheIInv'
  <2>1. /\ Holding(order', entry', stats') /\ ToSet(order') \subseteq ToSet(order)
        /\ \A k \in ToSet(order') : entry'[k] = entry[k]
    BY <1>1, <1>3, DropsHolds
  <2>2. HeldLast' BY <1>1, <1>3, <2>1 DEF HeldLast
  <2> QED BY <1>1, <1>2, <1>3, <2>1, <2>2 DEF CacheRest
<1>4. ASSUME NEW k \in Key, Get(k) PROVE CacheIInv'
  <2>1. k \in ToSet(order) /\ UNCHANGED <<file, serving, sets, newest, behind, revived>> BY <1>4 DEF Get
  <2>2. CASE Drops({k}) BY <1>3, <2>1, <2>2
  <2>3. CASE order' = Append(OnlyIn(order, Key \ {k}), k) /\ UNCHANGED <<entry, stats>>
    <3> DEFINE o == order
               S == Key \ {k}
               t == OnlyIn(o, S)
               u == Append(t, k)
    <3>1. o \in Seq(Key) /\ Distinct(o) BY DEF CacheIInv, Holding
    <3>2. ToSet(o) \subseteq Key
      <4> HIDE DEF o
      <4> QED BY <3>1, ToSetIs
    <3>3. t \in Seq(Key) /\ ToSet(t) = ToSet(o) \cap S /\ Distinct(t)
      <4> HIDE DEF o, S
      <4> QED BY <3>1, OnlyInSet DEF t
    <3>4. ToSet(t) = ToSet(o) \ {k} /\ k \notin ToSet(t) BY <3>2, <3>3
    <3>5. order' = u BY <2>3
    <3> HIDE DEF t, S, o
    <3>6. u \in Seq(Key) /\ Distinct(u) /\ ToSet(u) = ToSet(t) \cup {k}
      BY <3>3, <3>4, DistinctAppend
    <3> HIDE DEF u
    <3>7. ToSet(u) = ToSet(o) BY <2>1, <3>4, <3>6 DEF o
    <3>8. Len(u) = Len(o)
      <4>1. Cardinality(ToSet(u)) = Len(u) BY <3>6, DistinctCount
      <4>2. Cardinality(ToSet(o)) = Len(o) BY <3>1, DistinctCount
      <4> QED BY <3>7, <4>1, <4>2
    <3>9. Holding(u, entry, stats) BY <1>1, <3>6, <3>7, <3>8 DEF Holding, o
    <3>10. Holding(order', entry', stats') BY <2>3, <3>5, <3>9
    <3>11. HeldLast' BY <1>1, <2>1, <2>3, <3>5, <3>7 DEF HeldLast, o
    <3> QED BY <1>1, <1>2, <2>1, <3>10, <3>11 DEF CacheRest
  <2> QED BY <1>4, <2>2, <2>3 DEF Get
<1>5. ASSUME NEW k \in Key, Set(k) PROVE CacheIInv'
  <2>1. /\ Holding(order', entry', stats') /\ ToSet(order') \subseteq ToSet(order) \cup {k}
        /\ \A x \in ToSet(order') : IF x = k THEN entry'[x].value = sets + 1 ELSE entry'[x] = entry[x]
    BY <1>1, <1>5, SetHolds
  <2>2. /\ sets < MaxSets /\ sets' = sets + 1 /\ newest' = [newest EXCEPT ![k] = sets + 1]
        /\ behind' = behind \cup {k} /\ revived' = revived \ {k} /\ UNCHANGED <<file, serving>>
    BY <1>5 DEF Set
  <2>3. MaxSets \in Nat /\ sets \in 0 .. MaxSets /\ newest \in [Key -> 0 .. MaxSets] /\ behind \subseteq Key /\ revived \subseteq Key
    BY <1>1 DEF CacheRest, CacheAssumption
  <2>4. sets + 1 \in 0 .. MaxSets BY <2>2, <2>3
  <2>5. CacheRest' BY <1>1, <2>2, <2>3, <2>4 DEF CacheRest
  <2>6. \A x \in Key : newest'[x] = IF x = k THEN sets + 1 ELSE newest[x] BY <2>2, <2>3
  <2>7. ToSet(order) \subseteq Key BY <1>1, ToSetIs
  <2>8. HeldLast' BY <1>1, <2>1, <2>2, <2>6, <2>7 DEF HeldLast
  <2>9. SavedLast'
    <3>1. \A i \in 1 .. Len(file) : file[i][1] \in Key BY <1>1 DEF Saved
    <3> QED BY <1>1, <2>2, <2>6, <3>1 DEF SavedLast
  <2> QED BY <1>1, <2>1, <2>2, <2>5, <2>8, <2>9 DEF CacheIInv
<1>6. ASSUME NEW k \in Key, CacheDelete(k) PROVE CacheIInv'
  <2>1. /\ k \in ToSet(order) /\ Drops({k}) /\ newest' = [newest EXCEPT ![k] = 0] /\ behind' = behind \cup {k}
        /\ revived' = revived \ {k} /\ UNCHANGED <<file, serving, sets>>
    BY <1>6 DEF CacheDelete
  <2>2. /\ Holding(order', entry', stats') /\ ToSet(order') = ToSet(order) \ {k}
        /\ \A x \in ToSet(order') : entry'[x] = entry[x]
    BY <1>1, <2>1, DropsHolds
  <2>3. MaxSets \in Nat /\ newest \in [Key -> 0 .. MaxSets] /\ behind \subseteq Key /\ revived \subseteq Key
    BY <1>1 DEF CacheRest, CacheAssumption
  <2>4. CacheRest' BY <1>1, <2>1, <2>3 DEF CacheRest
  <2>5. \A x \in Key : newest'[x] = IF x = k THEN 0 ELSE newest[x] BY <2>1, <2>3
  <2>6. ToSet(order) \subseteq Key BY <1>1, ToSetIs
  <2>7. HeldLast' BY <1>1, <2>1, <2>2, <2>5, <2>6 DEF HeldLast
  <2>8. SavedLast'
    <3>1. \A i \in 1 .. Len(file) : file[i][1] \in Key BY <1>1 DEF Saved
    <3> QED BY <1>1, <2>1, <2>5, <3>1 DEF SavedLast
  <2> QED BY <1>1, <2>1, <2>2, <2>4, <2>7, <2>8 DEF CacheIInv
\* the memory is gone
<1>7. ASSUME Vanishes PROVE Holding(order', entry', stats') /\ HeldLast' /\ revived' = {}
  <2> DEFINE o == order'
             e == entry'
             st == stats'
  <2>1. o = <<>> /\ e = [k \in Key |-> Gone] /\ st = [entries |-> 0, bytes |-> 0] BY <1>7 DEF Vanishes
  <2> HIDE DEF o, e, st
  <2>2. Holding(o, e, st) /\ ToSet(o) = {} BY <2>1, NothingHeld
  <2> QED BY <1>7, <2>2 DEF o, e, st, HeldLast, Vanishes
<1>8. ASSUME Clear PROVE CacheIInv'
  <2>1. Vanishes /\ newest' = [k \in Key |-> 0] /\ behind' = Key /\ UNCHANGED <<file, serving, sets>>
    BY <1>8 DEF Clear, Vanishes
  <2>2. 0 \in 0 .. MaxSets BY DEF CacheAssumption
  <2>3. newest' \in [Key -> 0 .. MaxSets] BY <2>1, <2>2
  <2>4. CacheRest' BY <1>1, <1>7, <2>1, <2>3 DEF CacheRest
  <2>5. SavedLast'
    <3>1. \A i \in 1 .. Len(file) : file[i][1] \in Key BY <1>1 DEF Saved
    <3> QED BY <2>1, <3>1 DEF SavedLast
  <2> QED BY <1>1, <1>7, <2>1, <2>4, <2>5 DEF CacheIInv
<1>9. ASSUME CleanupStale PROVE CacheIInv'
  <2>1. PICK stale \in SUBSET ToSet(order) : Removes(stale) /\ stats' = [stats EXCEPT !.entries = Len(order')]
    BY <1>9 DEF CleanupStale
  <2>2. UNCHANGED <<file, serving, sets, newest, behind, revived>> BY <1>9 DEF CleanupStale
  <2>3. /\ order' \in Seq(Key) /\ Distinct(order') /\ entry' \in [Key -> Entry]
        /\ Len(order') \in Nat /\ Len(order') <= Len(order)
        /\ \A k \in Key : (entry'[k] # Gone) <=> (k \in ToSet(order'))
        /\ ToSet(order') = ToSet(order) \ stale
        /\ \A k \in ToSet(order') : entry'[k] = entry[k]
        /\ BytesOf(ToSet(order'), entry') = BytesOf(ToSet(order), entry) - BytesOf(stale, entry)
        /\ BytesOf(stale, entry) \in Nat /\ BytesOf(ToSet(order), entry) \in Nat
    BY <1>1, <2>1, Fewer
  <2>4. /\ stats \in [entries : Int, bytes : Int] /\ Len(order) <= MaxEntries /\ Len(order) \in Nat /\ MaxEntries \in Nat
        /\ BytesOf(ToSet(order), entry) <= stats.bytes /\ stats.bytes <= MaxBytes
    BY <1>1 DEF Holding, CacheAssumption
  <2>5. stats' \in [entries : Int, bytes : Int] /\ stats'.entries = Len(order') /\ stats'.bytes = stats.bytes
    BY <2>1, <2>3, <2>4
  <2>6. Len(order') <= MaxEntries BY <2>3, <2>4
  <2>7. BytesOf(ToSet(order'), entry') <= stats'.bytes
    <3> DEFINE a == BytesOf(ToSet(order'), entry')
               b == BytesOf(ToSet(order), entry)
               c == BytesOf(stale, entry)
    <3>1. a = b - c /\ b \in Nat /\ c \in Nat /\ b <= stats.bytes /\ stats.bytes \in Int BY <2>3, <2>4
    <3> HIDE DEF a, b, c
    <3>2. a <= stats.bytes BY <3>1
    <3> QED BY <2>5, <3>2 DEF a
  <2>8. Holding(order', entry', stats') BY <2>3, <2>4, <2>5, <2>6, <2>7 DEF Holding
  <2>9. HeldLast' BY <1>1, <2>2, <2>3 DEF HeldLast
  <2> QED BY <1>1, <1>2, <2>2, <2>8, <2>9 DEF CacheRest
<1>10. ASSUME SweepExpired PROVE CacheIInv'
  <2>1. PICK expired \in SUBSET ToSet(order) : Drops(expired) BY <1>10 DEF SweepExpired
  <2> QED BY <1>3, <1>10, <2>1 DEF SweepExpired
\* the file that was saved agrees with the cache
<1>11. ASSUME SavePersisted, behind' = revived, newest' = newest PROVE Saved(file') /\ SavedLast' /\ behind' \subseteq Key
  <2>1. /\ Saved(file')
        /\ \A i \in 1 .. Len(file') : file'[i][1] \in ToSet(order) /\ file'[i][2] = entry[file'[i][1]]
    BY <1>1, <1>11, SavedHolds
  <2>2. ToSet(order) \subseteq Key BY <1>1, ToSetIs
  <2> QED BY <1>1, <1>11, <2>1, <2>2 DEF SavedLast, HeldLast, CacheRest
<1>12. ASSUME Persist PROVE CacheIInv'
  <2>1. SavePersisted /\ behind' = revived /\ UNCHANGED <<order, entry, stats, serving, sets, newest, revived>>
    BY <1>12 DEF Persist
  <2>2. Saved(file') /\ SavedLast' /\ behind' \subseteq Key BY <1>11, <2>1
  <2>3. HeldLast' BY <1>1, <2>1 DEF HeldLast
  <2> QED BY <1>1, <2>1, <2>2, <2>3 DEF CacheIInv, CacheRest
<1>13. ASSUME Shutdown PROVE CacheIInv'
  <2>1. SavePersisted /\ behind' = revived /\ Vanishes /\ serving' = FALSE /\ UNCHANGED <<sets, newest>>
    BY <1>13 DEF Shutdown
  <2>2. Saved(file') /\ SavedLast' /\ behind' \subseteq Key BY <1>11, <2>1
  <2> QED BY <1>1, <1>7, <2>1, <2>2 DEF CacheIInv, CacheRest
<1>14. ASSUME CacheCrash PROVE CacheIInv'
  BY <1>1, <1>7, <1>14 DEF CacheCrash, CacheIInv, CacheRest, SavedLast
<1>15. ASSUME Initialize PROVE CacheIInv'
  <2>1. PICK expired \in SUBSET DOMAIN file :
          LET keys == [i \in DOMAIN file |-> file[i][1]]
              live == [i \in DOMAIN file \ expired |-> file[i][1]]
              e == [k \in Key |-> IF \E i \in DOMAIN live : live[i] = k
                                   THEN file[CHOOSE i \in DOMAIN live : live[i] = k][2] ELSE Gone]
          IN /\ order' = OnlyIn(keys, {k \in Key : e[k] # Gone}) /\ entry' = e
             /\ stats' = [entries |-> Len(order'), bytes |-> BytesOf(ToSet(order'), e)]
    BY <1>15 DEF Initialize
  <2>2. serving' = TRUE /\ revived' = behind /\ UNCHANGED <<file, sets, newest, behind>> BY <1>15 DEF Initialize
  <2> DEFINE L == Len(file)
             keys == [i \in DOMAIN file |-> file[i][1]]
             live == [i \in DOMAIN file \ expired |-> file[i][1]]
             e == [k \in Key |-> IF \E i \in DOMAIN live : live[i] = k
                                  THEN file[CHOOSE i \in DOMAIN live : live[i] = k][2] ELSE Gone]
             S == {k \in Key : e[k] # Gone}
             t == OnlyIn(keys, S)
             all == ToSet(keys)
  <2>3. /\ file \in Seq(Key \X Entry) /\ L <= MaxEntries /\ L \in Nat /\ DOMAIN file = 1 .. L
        /\ \A i, j \in 1 .. L : file[i][1] = file[j][1] => i = j
        /\ \A i \in 1 .. L : file[i] \in Key \X Entry /\ file[i][2] # Gone
    BY <1>1 DEF Saved
  <2>4. PICK fe \in [Key -> Entry] :
          /\ \A i \in 1 .. L : fe[file[i][1]] = file[i][2]
          /\ BytesOf({file[i][1] : i \in 1 .. L}, fe) <= MaxBytes
    BY <1>1 DEF Saved
  <2>5. order' = t /\ entry' = e /\ stats' = [entries |-> Len(t), bytes |-> BytesOf(ToSet(t), e)] BY <2>1
  <2> HIDE DEF L
  <2>6. keys \in [1 .. L -> Key] /\ \A i \in 1 .. L : keys[i] = file[i][1] BY <2>3
  <2>7. DOMAIN live \subseteq 1 .. L /\ \A i \in DOMAIN live : live[i] = file[i][1] BY <2>3
  <2> HIDE DEF keys, live
  <2>8. keys \in Seq(Key) /\ Len(keys) = L BY <2>3, <2>6
  <2>9. Distinct(keys) BY <2>3, <2>6, <2>8 DEF Distinct
  <2>10. all = {file[i][1] : i \in 1 .. L} /\ all \subseteq Key
    <3>1. all = {keys[i] : i \in 1 .. L} /\ all \subseteq Key BY <2>8, ToSetIs
    <3> QED BY <2>6, <3>1
  <2>11. ASSUME NEW k \in Key
         PROVE  \/ e[k] = Gone
                \/ \E i \in 1 .. L : file[i][1] = k /\ e[k] = file[i][2]
    <3>1. CASE \E i \in DOMAIN live : live[i] = k
      <4> DEFINE i == CHOOSE i \in DOMAIN live : live[i] = k
      <4>1. i \in DOMAIN live /\ live[i] = k BY <3>1
      <4>2. e[k] = file[i][2] BY <3>1
      <4> HIDE DEF i, e
      <4> QED BY <2>7, <4>1, <4>2
    <3>2. CASE ~ \E i \in DOMAIN live : live[i] = k BY <3>2
    <3> QED BY <3>1, <3>2
  <2>12. Gone \in Entry BY DEF Gone, Entry, EntryKinds, CacheAssumption
  <2>13. e \in [Key -> Entry]
    <3>1. \A k \in Key : e[k] \in Entry
      <4> HIDE DEF e
      <4> QED BY <2>3, <2>11, <2>12
    <3>2. e = [k \in Key |-> e[k]] OBVIOUS
    <3> HIDE DEF e
    <3> QED BY <3>1, <3>2
  <2>14. S = {k \in Key : e[k] # Gone} OBVIOUS
  <2> HIDE DEF e, S
  <2>15. t \in Seq(Key) /\ ToSet(t) = all \cap S /\ Distinct(t) /\ Len(t) <= L
    BY <2>8, <2>9, OnlyInSet
  <2> HIDE DEF t
  <2>16. ToSet(t) = S BY <2>10, <2>11, <2>14, <2>15
  <2>17. \A k \in S : k \in all /\ e[k] = fe[k] /\ \E i \in 1 .. L : file[i][1] = k /\ e[k] = file[i][2]
    BY <2>4, <2>10, <2>11, <2>14
  <2>18. IsFiniteSet(all) BY <2>8, <2>9, DistinctCount
  <2> HIDE DEF all
  <2>19. BytesOf(S, e) <= MaxBytes /\ BytesOf(S, e) \in Nat
    <3>1. S \in SUBSET all /\ all \in SUBSET Key /\ S \in SUBSET Key BY <2>10, <2>17
    <3>2. BytesOf(S, e) = BytesOf(S, fe)
      <4>1. \A k \in S : e[k].bytes = fe[k].bytes BY <2>17
      <4> QED BY <3>1, <4>1, BytesSame
    <3>3. BytesOf(S, fe) \in Nat /\ BytesOf(all \ S, fe) \in Nat /\ BytesOf(all, fe) = BytesOf(S, fe) + BytesOf(all \ S, fe)
      BY <2>18, <3>1, BytesSum
    <3>4. BytesOf(all, fe) <= MaxBytes BY <2>4, <2>10
    <3>5. MaxBytes \in Nat BY DEF CacheAssumption
    <3> QED BY <3>2, <3>3, <3>4, <3>5
  <2>20. Holding(t, e, stats')
    <3>1. stats'.entries = Len(t) /\ stats'.bytes = BytesOf(S, e) /\ stats' = [entries |-> Len(t), bytes |-> BytesOf(S, e)]
      BY <2>5, <2>16
    <3>2. Len(t) \in Nat /\ Len(t) <= MaxEntries /\ MaxEntries \in Nat BY <2>3, <2>15 DEF CacheAssumption
    <3>3. stats' \in [entries : Int, bytes : Int] BY <2>19, <3>1, <3>2
    <3>4. BytesOf(ToSet(t), e) <= stats'.bytes /\ stats'.bytes <= MaxBytes BY <2>16, <2>19, <3>1
    <3> QED BY <2>13, <2>14, <2>15, <2>16, <3>1, <3>2, <3>3, <3>4 DEF Holding
  <2>21. HeldLast'
    <3>1. \A k \in S : e[k].value = newest[k] \/ k \in behind BY <1>1, <2>17 DEF SavedLast, L
    <3> QED BY <2>2, <2>5, <2>16, <3>1 DEF HeldLast
  <2>22. Holding(order', entry', stats') BY <2>5, <2>20
  <2> QED BY <1>1, <1>2, <2>2, <2>21, <2>22 DEF CacheRest
<1> QED BY <1>4, <1>5, <1>6, <1>8, <1>9, <1>10, <1>12, <1>13, <1>14, <1>15 DEF CacheNext
-----------------------------------------------------------------------------
(* What was used before what, when keys go and come *)

LEMMA BeforeIs ==
    ASSUME NEW A, NEW s \in Seq(A), NEW x, NEW y
    PROVE  /\ Before(x, y, s) <=> \E i, j \in 1 .. Len(s) : i < j /\ s[i] = x /\ s[j] = y
           /\ Before(x, y, s) => x \in ToSet(s) /\ y \in ToSet(s)
<1>1. DOMAIN s = 1 .. Len(s) OBVIOUS
<1>2. ToSet(s) = {s[i] : i \in 1 .. Len(s)} BY ToSetIs
<1> QED BY <1>1, <1>2 DEF Before

\* A filter keeps the order of what it keeps.
LEMMA OnlyInOrder ==
    ASSUME NEW A, NEW s \in Seq(A), Distinct(s), NEW S, NEW x \in S, NEW y \in S, Before(x, y, s)
    PROVE  Before(x, y, OnlyIn(s, S))
<1> DEFINE t == OnlyIn(s, S)
<1>1. IsFiltered(t, s, A, S) BY OnlyInFilters
<1> HIDE DEF t
<1>2. PICK g : Places(g, t, s) BY <1>1 DEF IsFiltered
<1>3. PICK i \in 1 .. Len(s), j \in 1 .. Len(s) : i < j /\ s[i] = x /\ s[j] = y BY BeforeIs
<1>4. PICK a \in 1 .. Len(t), b \in 1 .. Len(t) : t[a] = s[i] /\ t[b] = s[j] BY <1>1, <1>3 DEF IsFiltered
<1>5. t \in Seq(A) /\ Len(t) \in Nat /\ Len(s) \in Nat BY <1>1 DEF IsFiltered
<1>6. g[a] \in 1 .. Len(s) /\ g[b] \in 1 .. Len(s) /\ s[g[a]] = s[i] /\ s[g[b]] = s[j]
  BY <1>2, <1>4 DEF Places
<1>7. g[a] = i /\ g[b] = j BY <1>6 DEF Distinct
<1>8. (b < a => g[b] < g[a]) /\ (a = b => g[a] = g[b]) BY <1>2, <1>4 DEF Places
<1>9. a < b BY <1>3, <1>4, <1>5, <1>7, <1>8
<1>10. Before(x, y, t) BY <1>3, <1>4, <1>5, <1>9, BeforeIs
<1> QED BY <1>10 DEF t

\* What is appended is last, and everything else before it.
LEMMA AppendOrder ==
    ASSUME NEW A, NEW s \in Seq(A), NEW a \in A
    PROVE  LET t == Append(s, a)
           IN /\ t \in Seq(A) /\ Len(t) = Len(s) + 1 /\ t[Len(t)] = a
              /\ \A x, y : Before(x, y, s) => Before(x, y, t)
              /\ \A x \in ToSet(s) : Before(x, a, t)
<1> DEFINE t == Append(s, a)
           L == Len(s)
<1>1. L \in Nat /\ ToSet(s) = {s[i] : i \in 1 .. L} BY ToSetIs
<1>2. t \in Seq(A) /\ Len(t) = L + 1 /\ t[L + 1] = a /\ \A i \in 1 .. L : t[i] = s[i] BY AppendProperties
<1> HIDE DEF t
<1>3. (\A i \in 1 .. L : i \in 1 .. L + 1 /\ i < L + 1) /\ L + 1 \in 1 .. L + 1 BY <1>1
<1>4. ASSUME NEW x, NEW y, Before(x, y, s) PROVE Before(x, y, t)
  <2>1. PICK i \in 1 .. L, j \in 1 .. L : i < j /\ s[i] = x /\ s[j] = y BY <1>4, BeforeIs
  <2> QED BY <1>2, <1>3, <2>1, BeforeIs
<1>5. ASSUME NEW x \in ToSet(s) PROVE Before(x, a, t)
  <2>1. PICK i \in 1 .. L : s[i] = x BY <1>1
  <2> HIDE DEF L
  <2> QED BY <1>2, <1>3, <2>1, BeforeIs
<1> QED BY <1>2, <1>4, <1>5 DEF t

\* Of a sequence cut in two, what is left after the cut was after the rest.
LEMMA SplitOrder ==
    ASSUME NEW A, NEW s \in Seq(A), Distinct(s), NEW n \in 0 .. Len(s)
    PROVE  LET rest == SubSeq(s, n + 1, Len(s))
           IN /\ \A x \in ToSet(rest) : \A y : Before(x, y, s) => Before(x, y, rest)
              /\ ToSet(rest) \subseteq ToSet(s)
              /\ s[Len(s)] \in ToSet(rest) => s[Len(s)] = rest[Len(rest)]
<1> DEFINE L == Len(s)
           r == SubSeq(s, n + 1, L)
<1>0. L \in Nat /\ n \in 0 .. L /\ \A i \in 1 .. L : s[i] \in A OBVIOUS
<1> HIDE DEF L
<1>1. /\ r \in Seq(A) /\ Len(r) = L - n /\ \A i \in 1 .. L - n : r[i] = s[n + i]
  <2>1. n + 1 \in Int /\ L \in Int /\ \A i \in n + 1 .. L : s[i] \in A BY <1>0
  <2>2. /\ r \in Seq(A) /\ Len(r) = IF n + 1 <= L THEN L - (n + 1) + 1 ELSE 0
        /\ \A i \in 1 .. L - (n + 1) + 1 : r[i] = s[(n + 1) + i - 1]
    BY <2>1, SubSeqProperties
  <2> HIDE DEF r
  <2>3. L - (n + 1) + 1 = L - n /\ \A i \in 1 .. L - n : (n + 1) + i - 1 = n + i BY <1>0
  <2>4. Len(r) = L - n BY <1>0, <2>2
  <2> QED BY <2>2, <2>3, <2>4
<1> HIDE DEF r
<1>2. ToSet(r) = {r[i] : i \in 1 .. L - n} BY <1>1, ToSetIs
<1>3. \A i, j \in 1 .. L : s[i] = s[j] => i = j BY DEF Distinct, L
<1>4. \A i \in 1 .. L - n : n + i \in 1 .. L BY <1>0
<1>5. ASSUME NEW x \in ToSet(r), NEW y, Before(x, y, s) PROVE Before(x, y, r)
  <2>1. PICK i \in 1 .. L, j \in 1 .. L : i < j /\ s[i] = x /\ s[j] = y BY <1>5, BeforeIs DEF L
  <2>2. PICK k \in 1 .. L - n : r[k] = x BY <1>2
  <2>3. n + k = i BY <1>1, <1>3, <1>4, <2>1, <2>2
  <2>4. j - n \in 1 .. L - n /\ k < j - n /\ n + (j - n) = j BY <1>0, <2>1, <2>2, <2>3
  <2>5. r[j - n] = y BY <1>1, <2>1, <2>4
  <2> QED BY <1>1, <2>2, <2>4, <2>5, BeforeIs
<1>6. ToSet(r) \subseteq ToSet(s)
  <2>1. ToSet(s) = {s[i] : i \in 1 .. L} BY ToSetIs DEF L
  <2> QED BY <1>1, <1>2, <1>4, <2>1
<1>7. ASSUME s[L] \in ToSet(r) PROVE s[L] = r[Len(r)]
  <2>1. PICK k \in 1 .. L - n : r[k] = s[L] BY <1>2, <1>7
  <2>2. L - n \in 1 .. L - n /\ n + (L - n) = L BY <1>0, <2>1
  <2> QED BY <1>1, <2>2
<1> QED BY <1>5, <1>6, <1>7 DEF r, L
-----------------------------------------------------------------------------
(* The least recently used go first *)

\* A process that does not serve holds nothing, and no value is newer than the
\* last one.
CacheResting == (~serving => order = <<>>) /\ \A k \in Key : newest[k] <= sets

LEMMA RestingStep == ASSUME CacheAssumption, CacheIInv, CacheResting, CacheNext PROVE CacheResting'
<1>1. sets \in Nat /\ newest \in [Key -> Nat] /\ \A k \in Key : newest[k] <= sets
  BY DEF CacheIInv, CacheRest, CacheAssumption, CacheResting
<1>2. ASSUME NEW k \in Key, Get(k) PROVE CacheResting'
  BY <1>2 DEF Get, CacheResting
<1>3. ASSUME NEW k \in Key, Set(k) PROVE CacheResting'
  <2>1. serving /\ serving' = serving /\ sets' = sets + 1 /\ newest' = [newest EXCEPT ![k] = sets + 1] BY <1>3 DEF Set
  <2> QED BY <1>1, <2>1 DEF CacheResting
<1>4. ASSUME NEW k \in Key, CacheDelete(k) PROVE CacheResting'
  <2>1. serving /\ serving' = serving /\ sets' = sets /\ newest' = [newest EXCEPT ![k] = 0] BY <1>4 DEF CacheDelete
  <2> QED BY <1>1, <2>1 DEF CacheResting
<1>5. CASE Clear BY <1>1, <1>5 DEF Clear, CacheResting
<1>6. CASE CleanupStale BY <1>6 DEF CleanupStale, CacheResting
<1>7. CASE SweepExpired BY <1>7 DEF SweepExpired, CacheResting
<1>8. CASE Persist BY <1>8 DEF Persist, CacheResting
<1>9. CASE Initialize BY <1>9 DEF Initialize, CacheResting
<1>10. CASE Shutdown BY <1>10 DEF Shutdown, Vanishes, CacheResting
<1>11. CASE CacheCrash BY <1>11 DEF CacheCrash, Vanishes, CacheResting
<1> QED BY <1>2, <1>3, <1>4, <1>5, <1>6, <1>7, <1>8, <1>9, <1>10, <1>11 DEF CacheNext

\* Every step of the cache keeps the order of use and evicts from its front.
LEMMA OldestStep == ASSUME CacheAssumption, CacheIInv, CacheResting, CacheNext PROVE OldestGoFirst
<1>1. order \in Seq(Key) /\ Distinct(order) /\ sets \in Nat /\ newest \in [Key -> Nat]
  BY DEF CacheIInv, Holding, CacheRest, CacheAssumption
<1>e. ToSet(order) \subseteq Key BY <1>1, ToSetIs
\* entries that go, and none that come
<1>2. ASSUME NEW keys, Removes(keys), sets' = sets PROVE OldestGoFirst
  <2> DEFINE o == order
             S == Key \ keys
             t == OnlyIn(o, S)
  <2>1. o \in Seq(Key) /\ Distinct(o) /\ order' = t BY <1>1, <1>2 DEF Removes
  <2> HIDE DEF o, S
  <2>2. ToSet(t) = ToSet(o) \cap S BY <2>1, OnlyInSet
  <2>3. \A x, y \in S : Before(x, y, o) => Before(x, y, t) BY <2>1, OnlyInOrder
  <2> HIDE DEF t
  <2> QED BY <1>2, <2>1, <2>2, <2>3 DEF OldestGoFirst, o
<1>3. ASSUME order' = <<>>, sets' = sets PROVE OldestGoFirst
  <2>1. ToSet(<<>>) = {} BY DEF ToSet
  <2> QED BY <1>3, <2>1 DEF OldestGoFirst
\* a key comes to the end of what is left of the order
<1>4. ASSUME NEW k \in Key
      PROVE  LET t == Append(OnlyIn(order, Key \ {k}), k)
             IN /\ t \in Seq(Key) /\ Distinct(t) /\ Len(t) \in Nat /\ t[Len(t)] = k
                /\ \A x, y : Before(x, y, order) => x = k \/ Before(x, y, t)
  <2> DEFINE o == order
             S == Key \ {k}
             u == OnlyIn(o, S)
             t == Append(u, k)
  <2>1. o \in Seq(Key) /\ Distinct(o) BY <1>1
  <2>2. \A x, y : Before(x, y, o) => x \in Key /\ y \in Key /\ x \in ToSet(o)
    <3>1. \A x, y : Before(x, y, o) => x \in ToSet(o) /\ y \in ToSet(o)
      <4> HIDE DEF o
      <4> QED BY <2>1, BeforeIs
    <3> QED BY <1>e, <3>1
  <2>s. S = Key \ {k} OBVIOUS
  <2> HIDE DEF o, S
  <2>3. u \in Seq(Key) /\ ToSet(u) = ToSet(o) \cap S /\ Distinct(u) BY <2>1, OnlyInSet
  <2>4. \A x, y \in S : Before(x, y, o) => Before(x, y, u) BY <2>1, OnlyInOrder
  <2> HIDE DEF u
  <2>5. k \notin ToSet(u) BY <2>3, <2>s
  <2>6. /\ t \in Seq(Key) /\ Len(t) = Len(u) + 1 /\ t[Len(t)] = k
        /\ \A x, y : Before(x, y, u) => Before(x, y, t)
        /\ \A x \in ToSet(u) : Before(x, k, t)
    BY <2>3, AppendOrder
  <2>7. Distinct(t) BY <2>3, <2>5, DistinctAppend
  <2> HIDE DEF t
  <2>8. ASSUME NEW x, NEW y, Before(x, y, o), x # k PROVE Before(x, y, t)
    <3>1. x \in Key /\ y \in Key /\ x \in ToSet(o) /\ x \in S BY <2>2, <2>8, <2>s
    <3>2. CASE y = k BY <2>3, <2>6, <3>1, <3>2
    <3>3. CASE y # k BY <2>4, <2>6, <2>8, <2>s, <3>1, <3>3
    <3> QED BY <3>2, <3>3
  <2>9. Len(t) \in Nat BY <2>6
  <2> QED BY <2>6, <2>7, <2>8, <2>9 DEF t, u, S, o
<1>5. ASSUME NEW k \in Key, Get(k) PROVE OldestGoFirst
  <2>1. sets' = sets BY <1>5 DEF Get
  <2>2. CASE Drops({k}) BY <1>2, <2>1, <2>2 DEF Drops
  <2>3. CASE order' = Append(OnlyIn(order, Key \ {k}), k)
    BY <1>4, <2>1, <2>3 DEF OldestGoFirst
  <2> QED BY <1>5, <2>2, <2>3 DEF Get
<1>6. ASSUME NEW k \in Key, Set(k) PROVE OldestGoFirst
  <2> DEFINE keys == Append(OnlyIn(order, Key \ {k}), k)
  <2>1. /\ keys \in Seq(Key) /\ Distinct(keys) /\ Len(keys) \in Nat /\ keys[Len(keys)] = k
        /\ \A x, y : Before(x, y, order) => x = k \/ Before(x, y, keys)
    BY <1>4
  <2>2. PICK n \in 0 .. Len(keys) : order' = SubSeq(keys, n + 1, Len(keys))
    BY <1>6, SetHolds DEF CacheIInv, LeftBySet
  <2> HIDE DEF keys
  <2>3. /\ \A x \in ToSet(order') : \A y : Before(x, y, keys) => Before(x, y, order')
        /\ ToSet(order') \subseteq ToSet(keys)
        /\ k \in ToSet(order') => k = order'[Len(order')]
    BY <2>1, <2>2, SplitOrder
  <2>4. order' \in Seq(Key) BY <1>6, SetHolds DEF CacheIInv, Holding
  <2>5. ToSet(order') \subseteq Key BY <2>4, ToSetIs
  <2>6. \A x, y : Before(x, y, order') => y \in ToSet(order') BY <2>4, BeforeIs
  <2>7. sets' = sets + 1 /\ newest' = [newest EXCEPT ![k] = sets + 1] BY <1>6 DEF Set
  <2>8. newest'[k] = sets' /\ \A x \in Key : newest'[x] = sets' => x = k
    BY <1>1, <2>7 DEF CacheResting
  <2>9. \A x \in ToSet(order') : \A y : Before(x, y, order) => x = k \/ Before(x, y, order') BY <2>1, <2>3
  <2> QED BY <2>3, <2>5, <2>6, <2>8, <2>9 DEF OldestGoFirst
<1>7. ASSUME NEW k \in Key, CacheDelete(k) PROVE OldestGoFirst
  BY <1>2, <1>7 DEF CacheDelete, Drops
<1>8. ASSUME Clear PROVE OldestGoFirst BY <1>3, <1>8 DEF Clear
<1>9. ASSUME CleanupStale PROVE OldestGoFirst BY <1>2, <1>9 DEF CleanupStale
<1>10. ASSUME SweepExpired PROVE OldestGoFirst BY <1>2, <1>10 DEF SweepExpired, Drops
<1>11. ASSUME Persist PROVE OldestGoFirst BY <1>11 DEF Persist, OldestGoFirst
<1>12. ASSUME Initialize PROVE OldestGoFirst
  <2>1. order = <<>> /\ sets' = sets BY <1>12 DEF Initialize, CacheResting
  <2>2. \A x, y : ~Before(x, y, order) BY <2>1 DEF Before
  <2> QED BY <2>1, <2>2 DEF OldestGoFirst
<1>13. ASSUME Shutdown PROVE OldestGoFirst BY <1>3, <1>13 DEF Shutdown, Vanishes
<1>14. ASSUME CacheCrash PROVE OldestGoFirst BY <1>3, <1>14 DEF CacheCrash, Vanishes
<1> QED BY <1>5, <1>6, <1>7, <1>8, <1>9, <1>10, <1>11, <1>12, <1>13, <1>14 DEF CacheNext
-----------------------------------------------------------------------------
(* The stores run: each component takes the steps of its own module *)

everything == <<storeVars, toolVars, processVars, dataVars, focus>>

\* A step of the stores is, for each component, a step of its module or none.
LEMMA StepsOfStorage ==
    ASSUME [Next]_everything
    PROVE  /\ [CacheNext]_cacheVars /\ [TieredNext]_tieredVars
           /\ [MetricsNext]_metricsVars /\ [TimelineNext]_timelineVars /\ [ConfigNext]_configVars
           /\ focus' = focus
BY DEF Next, StoreNext, ToolNext, ProcessNext, DataNext, everything, storeVars, toolVars, processVars, dataVars

LEMMA CacheGoesOn == CacheIInv /\ [Next]_everything => CacheIInv'
<1> SUFFICES ASSUME CacheIInv, [Next]_everything PROVE CacheIInv'
  OBVIOUS
<1>1. [CacheNext]_cacheVars BY StepsOfStorage
<1>2. CacheNext => CacheIInv' BY CacheStep, CacheAssumption
<1>3. ASSUME UNCHANGED cacheVars PROVE CacheIInv'
  <2>1. /\ order' = order /\ entry' = entry /\ stats' = stats /\ file' = file
        /\ newest' = newest /\ behind' = behind /\ revived' = revived /\ serving' = serving /\ sets' = sets
    BY <1>3 DEF cacheVars
  <2>2. Holding(order, entry, stats)' /\ Saved(file)' BY <2>1 DEF CacheIInv
  <2>3. SavedLast' /\ HeldLast' /\ CacheRest' BY <2>1 DEF CacheIInv, SavedLast, HeldLast, CacheRest
  <2> QED BY <2>2, <2>3 DEF CacheIInv
<1> QED BY <1>1, <1>2, <1>3

\* However sessions are stored, read, evicted, expired, saved and loaded, and
\* whenever the process crashes: the cache's totals and limits hold and it
\* answers no value that was replaced or deleted, but one that a start found in
\* a file older than a crash; and a session of the cache with a directory is in
\* memory, whole in its file or being written, unless two of its write-backs
\* have overlapped or one has failed.
THEOREM CachesSafe == Spec => []CachesInv
<1>1. Init => CacheIInv /\ TieredIInv
  BY CacheStart, TieredStart, CacheAssumption, TieredAssumption DEF Init
<1>2. CacheIInv /\ TieredIInv /\ [Next]_everything => (CacheIInv /\ TieredIInv)'
  <2> SUFFICES ASSUME CacheIInv, TieredIInv, [Next]_everything PROVE CacheIInv' /\ TieredIInv'
    OBVIOUS
  <2>1. [TieredNext]_tieredVars BY StepsOfStorage
  <2>2. TieredNext => TieredIInv' BY TieredStep, TieredAssumption
  <2>3. UNCHANGED tieredVars => TieredIInv'
    BY DEF tieredVars, TieredIInv, TieredTypeOK, TieredInv, Kept, Cached, Place, Undisturbed
  <2>4. CacheIInv' BY CacheGoesOn
  <2>5. TieredIInv' BY <2>1, <2>2, <2>3
  <2> QED BY <2>4, <2>5
<1>3. CacheIInv /\ TieredIInv => CachesInv
  BY CacheImplied DEF TieredIInv, CachesInv
<1> QED BY <1>1, <1>2, <1>3, PTL DEF Spec, everything

\* However the sessions of the cache are used, replaced, evicted, expired, saved
\* and loaded, the order of use is kept and what set() evicts is what has been
\* unused the longest.
THEOREM EvictionInOrder == Spec => CacheEvictsOldest
<1>1. Init => CacheIInv /\ CacheResting
  <2> SUFFICES ASSUME Init PROVE CacheIInv /\ CacheResting
    OBVIOUS
  <2>1. CacheInit BY DEF Init
  <2>2. CacheIInv BY <2>1, CacheStart, CacheAssumption
  <2>3. order = <<>> /\ sets = 0 /\ newest = [k \in Key |-> 0] BY <2>1 DEF CacheInit
  <2>4. \A k \in Key : newest[k] <= sets BY <2>3
  <2>5. CacheResting BY <2>3, <2>4 DEF CacheResting
  <2> QED BY <2>2, <2>5
<1>2. CacheIInv /\ [Next]_everything => CacheIInv' BY CacheGoesOn
<1>3. CacheIInv /\ CacheResting /\ [Next]_everything => CacheResting'
  <2> SUFFICES ASSUME CacheIInv, CacheResting, [Next]_everything PROVE CacheResting'
    OBVIOUS
  <2>1. [CacheNext]_cacheVars BY StepsOfStorage
  <2>2. CacheNext => CacheResting' BY RestingStep, CacheAssumption
  <2>3. UNCHANGED cacheVars => CacheResting' BY DEF cacheVars, CacheResting
  <2> QED BY <2>1, <2>2, <2>3
<1>4. CacheIInv /\ CacheResting /\ [Next]_everything => [focus = "cache" => OldestGoFirst]_cacheVars
  <2> SUFFICES ASSUME CacheIInv, CacheResting, [Next]_everything PROVE [focus = "cache" => OldestGoFirst]_cacheVars
    OBVIOUS
  <2>1. [CacheNext]_cacheVars BY StepsOfStorage
  <2> QED BY <2>1, OldestStep, CacheAssumption
<1> QED BY <1>1, <1>2, <1>3, <1>4, PTL DEF Spec, everything, CacheEvictsOldest

\* Whatever is written, rotated, compressed, cleaned up, merged or reloaded,
\* and wherever a write is torn: no metric leaves the files before it is found
\* elsewhere, the timeline in memory and in its files agree and give the
\* nearest common ancestor, and each setting has the value of the last source
\* that decides about it.
THEOREM FilesSafe == Spec => []FilesInv
<1>1. Init => MetricsIInv /\ TimelineIInv /\ ConfigIInv
  BY MetricsStart, TimelineStart, ConfigStart, ConfigAssumption DEF Init
<1>2. MetricsIInv /\ TimelineIInv /\ ConfigIInv /\ [Next]_everything => (MetricsIInv /\ TimelineIInv /\ ConfigIInv)'
  <2> SUFFICES ASSUME MetricsIInv, TimelineIInv, ConfigIInv, [Next]_everything
               PROVE  MetricsIInv' /\ TimelineIInv' /\ ConfigIInv'
    OBVIOUS
  <2>1. [MetricsNext]_metricsVars /\ [TimelineNext]_timelineVars /\ [ConfigNext]_configVars BY StepsOfStorage
  <2>2. MetricsIInv' /\ TimelineIInv' BY <2>1, MetricsStep, TimelineStep
  <2>3. ConfigNext => ConfigIInv' BY ConfigStep, ConfigAssumption
  <2>4. UNCHANGED configVars => ConfigIInv'
    BY DEF configVars, ConfigIInv, ConfigTypeOK
  <2> QED BY <2>1, <2>2, <2>3, <2>4
<1>3. MetricsIInv /\ TimelineIInv /\ ConfigIInv => FilesInv
  BY MetricsImplied, TimelineImplied, ConfigImplied DEF FilesInv
<1> QED BY <1>1, <1>2, <1>3, PTL DEF Spec, everything
===============================================================================
