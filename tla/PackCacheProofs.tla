--------------------------- MODULE PackCacheProofs ---------------------------
(***************************************************************************)
(* Proofs about the weight cache for any number of processes, threads,      *)
(* tensors, chunks, layouts, faults and replacements of the model: the name *)
(* of the cache only leads to complete files while one process at a time    *)
(* builds it, and whoever loads runs with the weights of the model it       *)
(* mapped.                                                                  *)
(***************************************************************************)
EXTENDS PackCache, FiniteSetTheorems, TLAPS

\* A process that may write the file it has open, and one that reads it.
Writer(p) == fd[p] # None /\ at[p] \notin {"table", "read"}
Reader(p) == at[p] \in {"table", "read"}

\* Where load_packed_weights() is goes with the file it has open, the tensor at
\* hand, and whether there is a stamp.
Control(p) ==
  /\ at[p] \in {"idle", "stamp", "open", "build", "done", "failed"} => fd[p] = None
  /\ at[p] \in {"table", "read", "finish", "header", "sync", "rename"} => fd[p] # None
  /\ at[p] \in {"read", "wave", "pack", "upload"} => next[p] \in Tasks
  /\ at[p] \in {"finish", "header", "sync", "rename"} => next[p] = NTasks + 1
  /\ at[p] = "done" /\ ~opts[p].verify => next[p] = NTasks + 1
  /\ at[p] \in {"idle", "stamp"} => stamp[p] = None
  /\ fd[p] # None \/ at[p] = "open" => stamp[p] # None

\* What is packed of a wave: nothing before its threads start, then what none
\* of them has still to pack, then all of what is not uploaded yet.
Taken(p, c) == \E t \in Threads : busy[p][t] = c

Packing(p) ==
  /\ left[p] \subseteq WaveChunks(next[p])
  /\ \A t \in Threads : busy[p][t] \in WaveChunks(next[p]) \cup {None, Returned}
  /\ \A c \in Chunks :
       IF c \in WaveChunks(next[p])
       THEN host[p][c] = map[p] \/ c \in left[p] \/ Taken(p, c) \/ err[p]
       ELSE host[p][c] = None
  /\ \A t \in Threads : busy[p][t] = Returned => left[p] = {} \/ err[p]

Uploading(p) ==
  \E e \in next[p]..NTasks :
    \A c \in Chunks : host[p][c] = IF c[1] \in next[p]..e THEN map[p] ELSE None

Waves(p) ==
  /\ at[p] \notin {"pack", "upload", "failed"} => host[p] = NoHost
  /\ at[p] = "pack" => Packing(p)
  /\ at[p] = "upload" => Uploading(p)

Progress == \A p \in Procs : Control(p) /\ Waves(p)

-----------------------------------------------------------------------------
(* Types.                                                                   *)

LEMMA TaskFacts ==
  /\ NTasks \in Nat \ {0} /\ 1 \in Tasks /\ NTasks \in Tasks
  /\ Tasks \subseteq Nat /\ \A i \in Tasks : i + 1 \in 1..(NTasks + 1)
  /\ 1 \in 1..(NTasks + 1) /\ Tasks \subseteq 1..(NTasks + 1)
BY PackAssumption DEF Tasks

LEMMA BelowNext == \A i, j \in Tasks : j < i + 1 => j < i \/ j = i
BY TaskFacts

\* A chunk belongs to a tensor, and every tensor has a first one.
LEMMA ChunkFacts ==
  /\ \A c \in Chunks : c[1] \in Tasks
  /\ \A i \in Tasks, k \in Nat : k \in 1..Parts[i] => <<i, k>> \in Chunks
  /\ \A i \in Tasks : <<i, 1>> \in Chunks
<1>1. \A c \in Chunks : \E i \in Tasks : c \in {i} \X (1..Parts[i])
  BY DEF Chunks
<1>2. \A i \in Tasks : \A c \in {i} \X (1..Parts[i]) : c \in Chunks
  BY DEF Chunks
<1>3. \A i \in Tasks : Parts[i] \in Nat \ {0}
  BY PackAssumption
<1>. QED
  BY <1>1, <1>2, <1>3

\* A wave ends at a tensor up to which all fit under the cap.
LEMMA WaveEndFacts ==
  ASSUME NEW a \in Tasks
  PROVE  WaveEnd(a) \in a..NTasks /\ Fits(a, WaveEnd(a))
<1>. a \in Nat /\ NTasks \in Nat /\ a \in a..NTasks
  BY TaskFacts DEF Tasks
<1> DEFINE S == {b \in a..NTasks : Fits(a, b)}
           After(b) == (b + 1)..NTasks
           Afters == {After(b) : b \in S}
<1>1. IsWellFoundedOn(StrictSubsetOrdering(a..NTasks), SUBSET (a..NTasks))
  <2>1. IsFiniteSet(a..NTasks)
    BY FS_Interval
  <2>. QED
    BY <2>1, FS_StrictSubsetOrderingWellFounded, FS_FiniteSubsetsOfFinite
<1>2. Afters \subseteq SUBSET (a..NTasks)
  OBVIOUS
<1>3. Afters # {}
  <2>1. a \in S
    BY DEF Fits
  <2>. QED
    BY <2>1
<1>4. PICK x \in Afters : \A y \in Afters : <<y, x>> \notin StrictSubsetOrdering(a..NTasks)
  <2> HIDE DEF Afters
  <2>. QED
    BY <1>1, <1>2, <1>3, WFMin
<1>5. PICK b \in S : x = After(b)
  OBVIOUS
<1>6. \A c \in (b + 1)..NTasks : ~Fits(a, c)
  <2> SUFFICES ASSUME NEW c \in (b + 1)..NTasks, Fits(a, c) PROVE FALSE
    OBVIOUS
  <2>1. b \in a..NTasks /\ b \in Nat /\ c \in Nat /\ b < c
    OBVIOUS
  <2>2. c \in S
    BY <2>1
  <2>3. After(c) \in Afters /\ After(b) \in Afters
    BY <2>2
  <2>4. After(c) \subseteq After(b) /\ c \in After(b) /\ c \notin After(c)
    BY <2>1
  <2>5. <<After(c), After(b)>> \in StrictSubsetOrdering(a..NTasks)
    <3> DEFINE u == After(c)
               v == After(b)
    <3>1. u \in SUBSET (a..NTasks) /\ v \in SUBSET (a..NTasks) /\ u \subseteq v /\ u # v
      BY <1>2, <2>3, <2>4
    <3> HIDE DEF u, v
    <3>2. <<u, v>> \in StrictSubsetOrdering(a..NTasks)
      BY <3>1 DEF StrictSubsetOrdering
    <3>. QED
      BY <3>2 DEF u, v
  <2>. QED
    BY <1>4, <1>5, <2>3, <2>5
<1>7. \E e \in a..NTasks : Fits(a, e) /\ \A c \in (e + 1)..NTasks : ~Fits(a, c)
  BY <1>5, <1>6
<1>. QED
  BY <1>7 DEF WaveEnd

LEMMA PackedEntry ==
  ASSUME TypeOK, NEW p \in Procs, NEW i \in Tasks
  PROVE  Packed(p, i) \in Entries
<1>1. \A c \in 1..Parts[i] : <<i, c>> \in Chunks /\ host[p][<<i, c>>] \in Version
  BY ChunkFacts, PackAssumption DEF TypeOK, WaveTyped
<1>2. opts[p].lay \in Layouts \cup {None}
  BY DEF TypeOK, JobTyped, Options
<1>3. Packed(p, i) \in Entry(i)
  BY <1>1, <1>2 DEF Packed, Entry
<1>. QED
  BY <1>3 DEF Entries

LEMMA PackEntry ==
  ASSUME NEW v \in Version, NEW lay \in Layouts \cup {None}, NEW i \in Tasks
  PROVE  Pack(v, lay, i) \in Entries
<1>1. Pack(v, lay, i) \in Entry(i)
  BY DEF Pack, Entry
<1>. QED
  BY <1>1 DEF Entries

LEMMA InitTypes == Init => TypeOK
<1> SUFFICES ASSUME Init PROVE TypeOK
  OBVIOUS
<1>1. NoTable \in Content
  BY DEF NoTable, Content
<1>2. Blank \in File
  BY <1>1 DEF Blank, File
<1>3. \A lay \in Layouts : Written(lay) \in File
  <2>1. SUFFICES ASSUME NEW lay \in Layouts PROVE Written(lay) \in File
    OBVIOUS
  <2>2. 1 \in Versions
    BY PackAssumption DEF Versions
  <2>3. \A i \in Tasks : Pack(1, lay, i) \in Entries
    BY <2>2, PackEntry DEF Version
  <2>4. [i \in Tasks |-> Pack(1, lay, i)] \in Content
    BY <2>3 DEF Content
  <2>. QED
    BY <2>2, <2>4 DEF Written, File, Header, Version
<1>4. 1 \in Versions /\ NoOpts \in Options /\ NoHost \in [Chunks -> Version]
  BY PackAssumption DEF Versions, NoOpts, Options, NoHost, Version
<1>5. (CHOOSE f \in Inodes : TRUE) \in Inodes
  BY PackAssumption
<1>6. /\ model \in Versions /\ cache \in Inodes \cup {None} /\ tmp \in Inodes \cup {None}
      /\ files \in [Inodes -> File]
  BY <1>2, <1>3, <1>4, <1>5 DEF Init
<1>7. /\ at \in [Procs -> Places] /\ opts \in [Procs -> Options]
      /\ map \in [Procs -> Versions] /\ stamp \in [Procs -> Version]
      /\ fd \in [Procs -> Inodes \cup {None}]
      /\ table \in [Procs -> Content] /\ next \in [Procs -> 1..(NTasks + 1)]
  BY <1>1, <1>4, TaskFacts DEF Init, Places, Version
<1>8. /\ host \in [Procs -> [Chunks -> Version]] /\ left \in [Procs -> SUBSET Chunks]
      /\ busy \in [Procs -> [Threads -> Chunks \cup {None, Returned}]]
      /\ err \in [Procs -> BOOLEAN] /\ weights \in [Procs -> Content]
      /\ loads \in 0..MaxLoads /\ faults \in 0..MaxFaults
      /\ swapped \in BOOLEAN /\ shared \in {"no", "same", "mixed"}
  <2>1. host \in [Procs -> [Chunks -> Version]] /\ weights \in [Procs -> Content]
    BY <1>1, <1>4 DEF Init
  <2>2. 0 \in 0..MaxLoads /\ 0 \in 0..MaxFaults
    BY PackAssumption
  <2>. QED
    BY <2>1, <2>2 DEF Init
<1>. QED
  BY <1>6, <1>7, <1>8 DEF TypeOK, DiskTyped, JobTyped, WaveTyped, HistoryTyped

-----------------------------------------------------------------------------
(* Types are kept.                                                          *)

\* The steps of one process that leave its packed data alone.
LEMMA LoadTypes ==
  ASSUME TypeOK, Progress, NEW p \in Procs,
         \/ \E lay \in Layouts, m \in Modes : Open(p, lay, m)
         \/ Stamp(p)
         \/ OpenCache(p)
         \/ ReadTable(p)
         \/ ReadEntry(p)
         \/ VerifyEntry(p)
         \/ NoTmp(p)
         \/ BlankFails(p)
         \/ FormWave(p)
         \/ Join(p)
         \/ UploadThrows(p)
         \/ WriteTable(p)
         \/ WriteHeader(p)
         \/ Fsync(p)
         \/ Rename(p)
         \/ FinishFails(p)
  PROVE  TypeOK'
<1>. DiskTyped /\ JobTyped /\ WaveTyped /\ HistoryTyped
  BY DEF TypeOK
<1>1. ASSUME NEW lay \in Layouts, NEW m \in Modes, Open(p, lay, m) PROVE TypeOK'
  <2>1. DiskTyped'
    BY <1>1, PackAssumption DEF DiskTyped, JobTyped, File, Open, Goto, disk, wave
  <2>2. JobTyped'
    BY <1>1, PackAssumption, TaskFacts DEF DiskTyped, JobTyped, Places, Options, File, Progress, Control, Open, Goto, disk, wave
  <2>3. WaveTyped'
    BY <1>1, PackAssumption DEF WaveTyped, DiskTyped, JobTyped, File, Content, Progress, Control, Open, Goto, disk, wave
  <2>4. HistoryTyped'
    BY <1>1, PackAssumption DEF HistoryTyped, Open, Goto, disk, wave
  <2>. QED
    BY <2>1, <2>2, <2>3, <2>4 DEF TypeOK
<1>2. CASE Stamp(p)
  <2>1. DiskTyped'
    BY <1>2 DEF DiskTyped, JobTyped, File, Stamp, Goto, Fault, disk, wave, Version
  <2>2. JobTyped'
    BY <1>2, TaskFacts DEF DiskTyped, JobTyped, Places, Options, File, Progress, Control, Stamp, Goto, Fault, disk, wave, Version
  <2>3. WaveTyped'
    BY <1>2 DEF WaveTyped, DiskTyped, JobTyped, File, Content, Progress, Control, Stamp, Goto, Fault, disk, wave, Version
  <2>4. HistoryTyped'
    BY <1>2, PackAssumption DEF HistoryTyped, Stamp, Goto, Fault, disk, wave, Version
  <2>. QED
    BY <2>1, <2>2, <2>3, <2>4 DEF TypeOK
<1>3. CASE OpenCache(p)
  <2>0. Rejected(p) \in Places
    BY DEF Rejected, Places
  <2>1. DiskTyped'
    BY <1>3 DEF DiskTyped, JobTyped, File, OpenCache, Goto, Use, Rejected, disk, wave, job, history
  <2>2. JobTyped'
    BY <1>3, <2>0 DEF DiskTyped, JobTyped, Places, OpenCache, Goto, Use, disk, job
  <2>3. WaveTyped'
    BY <1>3 DEF WaveTyped, DiskTyped, JobTyped, File, Content, Progress, Control, OpenCache, Goto, Use, Rejected, disk, wave, job, history
  <2>4. HistoryTyped'
    BY <1>3, PackAssumption DEF HistoryTyped, OpenCache, Goto, Use, Rejected, disk, wave, job, history
  <2>. QED
    BY <2>1, <2>2, <2>3, <2>4 DEF TypeOK
<1>4. CASE ReadTable(p)
  <2>0. Rejected(p) \in Places /\ fd[p] \in Inodes /\ files[fd[p]].table \in Content
    BY <1>4 DEF Rejected, Places, DiskTyped, JobTyped, File, Progress, Control, ReadTable
  <2>1. DiskTyped'
    BY <1>4 DEF DiskTyped, JobTyped, File, ReadTable, Goto, Use, Rejected, disk, wave, job, history
  <2>2. JobTyped'
    BY <1>4, <2>0, TaskFacts DEF JobTyped, Places, ReadTable, Goto, Use, job
  <2>3. WaveTyped'
    BY <1>4 DEF WaveTyped, DiskTyped, JobTyped, File, Content, Progress, Control, ReadTable, Goto, Use, Rejected, disk, wave, job, history
  <2>4. HistoryTyped'
    BY <1>4, PackAssumption DEF HistoryTyped, ReadTable, Goto, Use, Rejected, disk, wave, job, history
  <2>. QED
    BY <2>1, <2>2, <2>3, <2>4 DEF TypeOK
<1>5. CASE ReadEntry(p)
  <2>0. /\ fd[p] \in Inodes /\ next[p] \in Tasks /\ next[p] + 1 \in 1..(NTasks + 1)
        /\ files[fd[p]].body[next[p]] \in Entries \cup {None}
    BY <1>5, TaskFacts DEF DiskTyped, JobTyped, File, Content, Progress, Control, ReadEntry
  <2>1. DiskTyped'
    BY <1>5 DEF DiskTyped, JobTyped, File, ReadEntry, Goto, Use, disk, wave, job, history
  <2>2. JobTyped'
    BY <1>5, <2>0 DEF JobTyped, Places, ReadEntry, Goto, Use, job
  <2>3. WaveTyped'
    <3>1. \/ weights' = weights
          \/ \E e \in Entries \cup {None} : weights' = [weights EXCEPT ![p][next[p]] = e]
      BY <1>5, <2>0 DEF ReadEntry
    <3>2. ASSUME NEW e \in Entries \cup {None},
                 weights' = [weights EXCEPT ![p][next[p]] = e]
          PROVE  weights' \in [Procs -> Content]
      <4>1. weights \in [Procs -> [Tasks -> Entries \cup {None}]] /\ next[p] \in Tasks
        BY <2>0 DEF WaveTyped, Content
      <4>. QED
        BY <3>2, <4>1 DEF Content
    <3>3. weights' \in [Procs -> Content]
      BY <3>1, <3>2 DEF WaveTyped
    <3>. QED
      BY <1>5, <3>3 DEF WaveTyped, ReadEntry, wave
  <2>4. HistoryTyped'
    BY <1>5, PackAssumption DEF HistoryTyped, ReadEntry, Goto, Use, disk, wave, job, history
  <2>. QED
    BY <2>1, <2>2, <2>3, <2>4 DEF TypeOK
<1>6. CASE VerifyEntry(p)
  <2>1. DiskTyped'
    BY <1>6 DEF DiskTyped, JobTyped, File, VerifyEntry, Goto, Use, disk, wave, job, history
  <2>2. JobTyped'
    BY <1>6, TaskFacts DEF DiskTyped, JobTyped, Places, Options, File, Progress, Control, VerifyEntry, Goto, Use, disk, wave, job, history
  <2>3. WaveTyped'
    BY <1>6 DEF WaveTyped, DiskTyped, JobTyped, File, Content, Progress, Control, VerifyEntry, Goto, Use, disk, wave, job, history
  <2>4. HistoryTyped'
    BY <1>6, PackAssumption DEF HistoryTyped, VerifyEntry, Goto, Use, disk, wave, job, history
  <2>. QED
    BY <2>1, <2>2, <2>3, <2>4 DEF TypeOK
<1>7. CASE NoTmp(p)
  <2>1. DiskTyped'
    BY <1>7 DEF DiskTyped, JobTyped, File, NoTmp, Goto, Fault, disk, wave, job
  <2>2. JobTyped'
    BY <1>7, TaskFacts DEF DiskTyped, JobTyped, Places, Options, File, Progress, Control, NoTmp, Goto, Fault, disk, wave, job
  <2>3. WaveTyped'
    BY <1>7 DEF WaveTyped, DiskTyped, JobTyped, File, Content, Progress, Control, NoTmp, Goto, Fault, disk, wave, job
  <2>4. HistoryTyped'
    BY <1>7, PackAssumption DEF HistoryTyped, NoTmp, Goto, Fault, disk, wave, job
  <2>. QED
    BY <2>1, <2>2, <2>3, <2>4 DEF TypeOK
<1>8. CASE FormWave(p)
  <2>1. DiskTyped'
    BY <1>8 DEF DiskTyped, JobTyped, File, FormWave, WaveChunks, Goto, disk, job, history
  <2>2. JobTyped'
    BY <1>8, TaskFacts DEF DiskTyped, JobTyped, Places, Options, File, Progress, Control, FormWave, WaveChunks, Goto, disk, job, history
  <2>3. WaveTyped'
    BY <1>8 DEF WaveTyped, DiskTyped, JobTyped, File, Content, Progress, Control, FormWave, WaveChunks, Goto, disk, job, history
  <2>4. HistoryTyped'
    BY <1>8, PackAssumption DEF HistoryTyped, FormWave, WaveChunks, Goto, disk, job, history
  <2>. QED
    BY <2>1, <2>2, <2>3, <2>4 DEF TypeOK
<1>9. CASE Join(p)
  <2>1. DiskTyped'
    BY <1>9 DEF DiskTyped, JobTyped, File, Join, Goto, Use, wave, job, history
  <2>2. JobTyped'
    BY <1>9, TaskFacts DEF DiskTyped, JobTyped, Places, Options, File, Progress, Control, Join, Goto, Use, wave, job, history
  <2>3. WaveTyped'
    BY <1>9 DEF WaveTyped, DiskTyped, JobTyped, File, Content, Progress, Control, Join, Goto, Use, wave, job, history
  <2>4. HistoryTyped'
    BY <1>9, PackAssumption DEF HistoryTyped, Join, Goto, Use, wave, job, history
  <2>. QED
    BY <2>1, <2>2, <2>3, <2>4 DEF TypeOK
<1>10. CASE UploadThrows(p)
  <2>1. DiskTyped'
    BY <1>10 DEF DiskTyped, JobTyped, File, UploadThrows, Goto, Use, Fault, disk, wave, job
  <2>2. JobTyped'
    BY <1>10, TaskFacts DEF DiskTyped, JobTyped, Places, Options, File, Progress, Control, UploadThrows, Goto, Use, Fault, disk, wave, job
  <2>3. WaveTyped'
    BY <1>10 DEF WaveTyped, DiskTyped, JobTyped, File, Content, Progress, Control, UploadThrows, Goto, Use, Fault, disk, wave, job
  <2>4. HistoryTyped'
    BY <1>10, PackAssumption DEF HistoryTyped, UploadThrows, Goto, Use, Fault, disk, wave, job
  <2>. QED
    BY <2>1, <2>2, <2>3, <2>4 DEF TypeOK
<1>11. CASE WriteTable(p)
  <2>1. DiskTyped'
    BY <1>11 DEF DiskTyped, JobTyped, File, WriteTable, Goto, wave, job, history
  <2>2. JobTyped'
    BY <1>11, TaskFacts DEF DiskTyped, JobTyped, Places, Options, File, Progress, Control, WriteTable, Goto, wave, job, history
  <2>3. WaveTyped'
    BY <1>11 DEF WaveTyped, DiskTyped, JobTyped, File, Content, Progress, Control, WriteTable, Goto, wave, job, history
  <2>4. HistoryTyped'
    BY <1>11, PackAssumption DEF HistoryTyped, WriteTable, Goto, wave, job, history
  <2>. QED
    BY <2>1, <2>2, <2>3, <2>4 DEF TypeOK
<1>12. CASE WriteHeader(p)
  <2>0. Want(p) \in Header /\ fd[p] \in Inodes
    BY <1>12 DEF JobTyped, Want, Header, Options, Version, Progress, Control, WriteHeader
  <2>1. DiskTyped'
    BY <1>12, <2>0 DEF DiskTyped, File, WriteHeader
  <2>2. JobTyped'
    BY <1>12, TaskFacts DEF DiskTyped, JobTyped, Places, Options, File, Progress, Control, WriteHeader, Goto, wave, job, history
  <2>3. WaveTyped'
    BY <1>12 DEF WaveTyped, DiskTyped, JobTyped, File, Content, Progress, Control, WriteHeader, Goto, wave, job, history
  <2>4. HistoryTyped'
    BY <1>12, PackAssumption DEF HistoryTyped, WriteHeader, Goto, wave, job, history
  <2>. QED
    BY <2>1, <2>2, <2>3, <2>4 DEF TypeOK
<1>13. CASE Fsync(p)
  <2>1. DiskTyped'
    BY <1>13 DEF DiskTyped, JobTyped, File, Fsync, Goto, wave, job, history
  <2>2. JobTyped'
    BY <1>13, TaskFacts DEF DiskTyped, JobTyped, Places, Options, File, Progress, Control, Fsync, Goto, wave, job, history
  <2>3. WaveTyped'
    BY <1>13 DEF WaveTyped, DiskTyped, JobTyped, File, Content, Progress, Control, Fsync, Goto, wave, job, history
  <2>4. HistoryTyped'
    BY <1>13, PackAssumption DEF HistoryTyped, Fsync, Goto, wave, job, history
  <2>. QED
    BY <2>1, <2>2, <2>3, <2>4 DEF TypeOK
<1>14. CASE Rename(p)
  <2>1. DiskTyped'
    BY <1>14 DEF DiskTyped, JobTyped, File, Rename, Goto, Use, wave, job, history
  <2>2. JobTyped'
    BY <1>14, TaskFacts DEF DiskTyped, JobTyped, Places, Options, File, Progress, Control, Rename, Goto, Use, wave, job, history
  <2>3. WaveTyped'
    BY <1>14 DEF WaveTyped, DiskTyped, JobTyped, File, Content, Progress, Control, Rename, Goto, Use, wave, job, history
  <2>4. HistoryTyped'
    BY <1>14, PackAssumption DEF HistoryTyped, Rename, Goto, Use, wave, job, history
  <2>. QED
    BY <2>1, <2>2, <2>3, <2>4 DEF TypeOK
<1>15. CASE FinishFails(p)
  <2>1. DiskTyped'
    BY <1>15 DEF DiskTyped, JobTyped, File, FinishFails, Goto, Use, Fault, wave, job
  <2>2. JobTyped'
    BY <1>15, TaskFacts DEF DiskTyped, JobTyped, Places, Options, File, Progress, Control, FinishFails, Goto, Use, Fault, wave, job
  <2>3. WaveTyped'
    BY <1>15 DEF WaveTyped, DiskTyped, JobTyped, File, Content, Progress, Control, FinishFails, Goto, Use, Fault, wave, job
  <2>4. HistoryTyped'
    BY <1>15, PackAssumption DEF HistoryTyped, FinishFails, Goto, Use, Fault, wave, job
  <2>. QED
    BY <2>1, <2>2, <2>3, <2>4 DEF TypeOK
<1>16. CASE BlankFails(p)
  <2>1. DiskTyped'
    BY <1>16 DEF DiskTyped, JobTyped, File, BlankFails, Use, Fault, disk, wave, job
  <2>2. JobTyped'
    BY <1>16 DEF JobTyped, BlankFails, Use, Fault, disk, wave, job
  <2>3. WaveTyped'
    BY <1>16 DEF WaveTyped, BlankFails, Use, Fault, disk, wave, job
  <2>4. HistoryTyped'
    BY <1>16, PackAssumption DEF HistoryTyped, BlankFails, Use, Fault, disk, wave, job
  <2>. QED
    BY <2>1, <2>2, <2>3, <2>4 DEF TypeOK
<1>. QED
  BY <1>1, <1>2, <1>3, <1>4, <1>5, <1>6, <1>7, <1>8, <1>9, <1>10, <1>11, <1>12, <1>13, <1>14, <1>15, <1>16

\* OpenTmp takes an inode: the one of the tmp name, or one nobody else has.
LEMMA NewFile ==
  ASSUME TypeOK, NEW p \in Procs, fd[p] = None, tmp = None
  PROVE  (CHOOSE g \in Inodes : Free(g)) \in Inodes /\ Free(CHOOSE g \in Inodes : Free(g))
<1>1. fd \in [Procs -> Inodes \cup {None}] /\ cache \in Inodes \cup {None}
  BY DEF TypeOK, DiskTyped, JobTyped
<1>2. \E g \in Inodes : g # cache /\ \A q \in Procs : fd[q] # g
  BY <1>1, InodeAssumption
<1>3. \A g \in Inodes : g # None
  BY PackAssumption
<1>4. \E g \in Inodes : Free(g)
  BY <1>2, <1>3 DEF Free
<1>. QED
  BY <1>4

\* The file OpenTmp takes.
TmpFile == IF tmp # None THEN tmp ELSE CHOOSE g \in Inodes : Free(g)

LEMMA TmpFileFacts ==
  ASSUME TypeOK, Progress, NEW p \in Procs, OpenTmp(p)
  PROVE  /\ TmpFile \in Inodes
         /\ tmp # None => tmp = TmpFile
         /\ tmp = None => Free(TmpFile)
         /\ tmp' = TmpFile /\ fd' = [fd EXCEPT ![p] = TmpFile]
         /\ files' = [files EXCEPT ![TmpFile] = Blank]
         /\ shared' = IF \E q \in Writers(TmpFile) : Want(q) # Want(p) THEN "mixed"
                      ELSE IF Writers(TmpFile) # {} /\ shared = "no" THEN "same" ELSE shared
<1>1. fd[p] = None
  BY DEF OpenTmp, Progress, Control
<1>2. tmp \in Inodes \cup {None}
  BY DEF TypeOK, DiskTyped
<1>3. tmp = None => TmpFile \in Inodes /\ Free(TmpFile)
  BY <1>1, NewFile DEF TmpFile
<1>4. tmp' = TmpFile /\ fd' = [fd EXCEPT ![p] = TmpFile]
  BY DEF OpenTmp, Use, TmpFile
<1>5. files' = [files EXCEPT ![TmpFile] = Blank]
  BY DEF OpenTmp, TmpFile
<1>6. shared' = IF \E q \in Writers(TmpFile) : Want(q) # Want(p) THEN "mixed"
                ELSE IF Writers(TmpFile) # {} /\ shared = "no" THEN "same" ELSE shared
  BY DEF OpenTmp, TmpFile
<1>7. TmpFile \in Inodes
  BY <1>2, <1>3 DEF TmpFile
<1>8. tmp # None => tmp = TmpFile
  BY DEF TmpFile
<1>9. tmp = None => Free(TmpFile)
  BY <1>3
<1>. QED
  BY <1>4, <1>5, <1>6, <1>7, <1>8, <1>9

\* The steps of the slow path that touch packed data, and the environment's.
LEMMA WaveTypes ==
  ASSUME TypeOK, Progress, NEW p \in Procs,
         \/ OpenTmp(p) \/ UploadTask(p) \/ WriteFails(p)
         \/ \E t \in Threads : Worker(p, t)
         \/ Close(p) \/ Kill(p)
  PROVE  TypeOK'
<1>. DiskTyped /\ JobTyped /\ WaveTyped /\ HistoryTyped
  BY DEF TypeOK
<1>1. NoTable \in Content /\ Blank \in File /\ NoHost \in [Chunks -> Version] /\ NoOpts \in Options
      /\ 1 \in Versions
  <2>1. NoTable \in Content
    BY DEF NoTable, Content
  <2>. QED
    BY <2>1, PackAssumption DEF Blank, File, NoHost, Version, NoOpts, Options, Versions
<1>2. CASE OpenTmp(p)
  <2>1. /\ TmpFile \in Inodes
        /\ tmp' = TmpFile /\ fd' = [fd EXCEPT ![p] = TmpFile]
        /\ files' = [files EXCEPT ![TmpFile] = Blank]
        /\ shared' \in {"mixed", "same", shared}
    BY <1>2, TmpFileFacts
  <2>2. /\ table' = [table EXCEPT ![p] = NoTable] /\ next' = [next EXCEPT ![p] = 1]
        /\ at' = [at EXCEPT ![p] = "wave"]
        /\ UNCHANGED <<model, cache, job, wave, weights, loads, faults, swapped>>
    BY <1>2 DEF OpenTmp, Goto
  <2>3. DiskTyped'
    BY <1>1, <2>1, <2>2 DEF DiskTyped
  <2>4. JobTyped'
    BY <1>1, <2>1, <2>2, TaskFacts DEF JobTyped, Places, job
  <2>5. WaveTyped' /\ HistoryTyped'
    BY <2>1, <2>2 DEF WaveTyped, HistoryTyped, wave
  <2>. QED
    BY <2>3, <2>4, <2>5 DEF TypeOK
<1>3. ASSUME Uploaded(p, next[p]), fd' = fd \/ fd' = [fd EXCEPT ![p] = None]
      PROVE  /\ weights' \in [Procs -> Content] /\ host' \in [Procs -> [Chunks -> Version]]
             /\ next' \in [Procs -> 1..(NTasks + 1)] /\ at' \in [Procs -> Places]
             /\ fd' \in [Procs -> Inodes \cup {None}]
  <2>1. next[p] \in Tasks /\ next[p] + 1 \in 1..(NTasks + 1)
    BY <1>3, TaskFacts DEF Uploaded, Progress, Control
  <2>2. Packed(p, next[p]) \in Entries
    BY <2>1, PackedEntry
  <2>3. weights' \in [Procs -> Content]
    BY <1>3, <2>1, <2>2 DEF Uploaded, WaveTyped, Content
  <2>4. Release(p, next[p]) \in [Chunks -> Version]
    BY DEF Release, WaveTyped, Version
  <2>5. host' \in [Procs -> [Chunks -> Version]]
    BY <1>3, <2>4 DEF Uploaded, WaveTyped
  <2>6. next' \in [Procs -> 1..(NTasks + 1)]
    BY <1>3, <2>1 DEF Uploaded, JobTyped
  <2>7. \E a \in Places : at' = [at EXCEPT ![p] = a]
    BY <1>3 DEF Uploaded, AfterUpload, Goto, Places
  <2>8. at' \in [Procs -> Places]
    BY <2>7 DEF JobTyped
  <2>. QED
    BY <1>3, <2>3, <2>5, <2>6, <2>8 DEF JobTyped
<1>4. CASE UploadTask(p)
  <2>1. Uploaded(p, next[p]) /\ fd' = fd
        /\ UNCHANGED <<model, cache, tmp, job, left, busy, err, history>>
    BY <1>4 DEF UploadTask
  <2>2. next[p] \in Tasks
    BY <2>1 DEF Uploaded, Progress, Control
  <2>3. Packed(p, next[p]) \in Entries
    BY <2>2, PackedEntry
  <2>4. files' \in [Inodes -> File] /\ table' \in [Procs -> Content]
    <3>1. CASE fd[p] # None
      <4> DEFINE e == Packed(p, next[p])
      <4>1. /\ files' = [files EXCEPT ![fd[p]].body[next[p]] = e, ![fd[p]].synced = FALSE]
            /\ table' = [table EXCEPT ![p][next[p]] = e]
        BY <1>4, <3>1 DEF UploadTask
      <4>2. fd[p] \in Inodes
        BY <3>1 DEF JobTyped
      <4> HIDE DEF e
      <4>3. e \in Entries
        BY <2>3 DEF e
      <4>4. files' \in [Inodes -> File]
        BY <2>2, <4>1, <4>2, <4>3 DEF DiskTyped, File, Content
      <4>5. table' \in [Procs -> Content]
        BY <2>2, <4>1, <4>3 DEF JobTyped, Content
      <4>. QED
        BY <4>4, <4>5
    <3>2. CASE fd[p] = None
      BY <1>4, <3>2 DEF UploadTask, DiskTyped, JobTyped
    <3>. QED
      BY <3>1, <3>2
  <2>. QED
    BY <1>3, <2>1, <2>4 DEF TypeOK, DiskTyped, JobTyped, WaveTyped, HistoryTyped, job, history
<1>5. CASE WriteFails(p)
  <2>1. /\ Uploaded(p, next[p]) /\ fd' = [fd EXCEPT ![p] = None] /\ tmp' = None
        /\ faults < MaxFaults /\ faults' = faults + 1
        /\ UNCHANGED <<model, cache, files, job, table, left, busy, err, loads, swapped, shared>>
    BY <1>5 DEF WriteFails, Use, Fault
  <2>2. HistoryTyped'
    BY <2>1, PackAssumption DEF HistoryTyped
  <2>. QED
    BY <1>3, <2>1, <2>2 DEF TypeOK, DiskTyped, JobTyped, WaveTyped, job
<1>6. ASSUME NEW t \in Threads, Worker(p, t) PROVE TypeOK'
  <2>1. CASE Take(p, t)
    <3>1. \/ left' = left
          \/ \E c \in left[p] : left' = [left EXCEPT ![p] = @ \ {c}]
      BY <2>1 DEF Take
    <3>2. \E b \in Chunks \cup {Returned} : busy' = [busy EXCEPT ![p][t] = b]
      BY <2>1 DEF Take, WaveTyped
    <3>3. left' \in [Procs -> SUBSET Chunks]
      BY <3>1 DEF WaveTyped
    <3>4. busy' \in [Procs -> [Threads -> Chunks \cup {None, Returned}]]
      BY <3>2 DEF WaveTyped
    <3>. QED
      BY <2>1, <3>3, <3>4 DEF Take, TypeOK, DiskTyped, JobTyped, WaveTyped, HistoryTyped,
         disk, job, history
  <2>2. CASE PackChunk(p, t)
    <3>1. map[p] \in Version /\ busy[p][t] \in Chunks
      BY <2>2 DEF PackChunk, JobTyped, Version
    <3>2. WaveTyped'
      BY <2>2, <3>1 DEF PackChunk, WaveTyped
    <3>. QED
      BY <2>2, <3>2 DEF PackChunk, TypeOK, DiskTyped, JobTyped, HistoryTyped, disk, job, history
  <2>3. CASE PackThrows(p, t)
    <3>1. HistoryTyped'
      BY <2>3, PackAssumption DEF PackThrows, Fault, HistoryTyped
    <3>. QED
      BY <2>3, <3>1 DEF PackThrows, TypeOK, DiskTyped, JobTyped, WaveTyped, disk, job
  <2>. QED
    BY <1>6, <2>1, <2>2, <2>3 DEF Worker
<1>7. ASSUME Reset(p)
      PROVE  JobTyped' /\ WaveTyped'
  <2>1. JobTyped'
    BY <1>1, <1>7, TaskFacts DEF Reset, Goto, Use, JobTyped, Places, Version
  <2>2. WaveTyped'
    BY <1>1, <1>7 DEF Reset, WaveTyped
  <2>. QED
    BY <2>1, <2>2
<1>8. CASE Close(p)
  BY <1>7, <1>8 DEF Close, TypeOK, DiskTyped, HistoryTyped, disk, history
<1>9. CASE Kill(p)
  <2>1. HistoryTyped'
    BY <1>9, PackAssumption DEF Kill, Fault, HistoryTyped
  <2>. QED
    BY <1>7, <1>9, <2>1 DEF Kill, TypeOK, DiskTyped, disk
<1>. QED
  BY <1>2, <1>4, <1>5, <1>6, <1>8, <1>9

LEMMA PowerTypes ==
  ASSUME TypeOK, PowerLoss \/ Replace PROVE TypeOK'
<1>. DiskTyped /\ JobTyped /\ WaveTyped /\ HistoryTyped
  BY DEF TypeOK
<1>1. NoTable \in Content /\ Blank \in File
  <2>1. NoTable \in Content
    BY DEF NoTable, Content
  <2>. QED
    BY <2>1 DEF Blank, File
<1>2. CASE PowerLoss
  <2>1. \A f \in Inodes : Survivors(files[f]) \subseteq File
    <3>1. SUFFICES ASSUME NEW f \in Inodes, NEW g \in Survivors(files[f]) PROVE g \in File
      OBVIOUS
    <3>2. files[f] \in File
      BY DEF DiskTyped
    <3>3. PICK h \in {files[f].hdr, None}, B \in SUBSET Tasks, t \in BOOLEAN :
            g = [hdr |-> h, body |-> [i \in Tasks |-> IF i \in B THEN files[f].body[i] ELSE None],
                 table |-> IF t THEN files[f].table ELSE NoTable, synced |-> TRUE]
      BY DEF Survivors
    <3>4. [i \in Tasks |-> IF i \in B THEN files[f].body[i] ELSE None] \in Content
      BY <3>2 DEF File, Content
    <3>. QED
      BY <1>1, <3>2, <3>3, <3>4 DEF File
  <2>2. \E g \in File : files' = [f \in Inodes |-> IF f = cache THEN g ELSE Blank]
    BY <1>1, <1>2, <2>1 DEF PowerLoss, DiskTyped
  <2>3. DiskTyped'
    BY <1>1, <1>2, <2>2 DEF PowerLoss, DiskTyped
  <2>4. HistoryTyped'
    BY <1>2, PackAssumption DEF PowerLoss, Fault, HistoryTyped
  <2>. QED
    BY <1>2, <2>3, <2>4 DEF PowerLoss, TypeOK, JobTyped, WaveTyped, job, wave
<1>3. CASE Replace
  BY <1>3, PackAssumption DEF Replace, TypeOK, DiskTyped, JobTyped, WaveTyped, HistoryTyped,
     disk, job, wave, history, Versions
<1>. QED
  BY <1>2, <1>3

LEMMA TypesKept == ASSUME TypeOK, Progress, [Next]_vars PROVE TypeOK'
<1>1. CASE \E p \in Procs : Start(p) \/ Load(p) \/ Close(p) \/ Kill(p)
  BY <1>1, LoadTypes, WaveTypes DEF Start, Load
<1>2. CASE \E p \in Procs, t \in Threads : Worker(p, t)
  BY <1>2, WaveTypes
<1>3. CASE PowerLoss \/ Replace
  BY <1>3, PowerTypes
<1>4. CASE UNCHANGED vars
  BY <1>4 DEF vars, disk, wave, history, job, TypeOK, DiskTyped, JobTyped, WaveTyped, HistoryTyped
<1>. QED
  BY <1>1, <1>2, <1>3, <1>4 DEF Next

-----------------------------------------------------------------------------
(* A step of one process leaves the others where they are.                  *)

Step(p) ==
  Start(p) \/ Load(p) \/ Close(p) \/ Kill(p) \/ \E t \in Threads : Worker(p, t)

Same(q) ==
  /\ at'[q] = at[q] /\ opts'[q] = opts[q] /\ map'[q] = map[q] /\ stamp'[q] = stamp[q]
  /\ fd'[q] = fd[q] /\ table'[q] = table[q] /\ next'[q] = next[q]
  /\ host'[q] = host[q] /\ left'[q] = left[q] /\ busy'[q] = busy[q] /\ err'[q] = err[q]
  /\ weights'[q] = weights[q]

LEMMA OthersSame ==
  ASSUME TypeOK, NEW p \in Procs, Step(p), NEW q \in Procs, q # p
  PROVE  Same(q)
<1>. /\ JobTyped /\ WaveTyped
  BY DEF TypeOK
<1>1. CASE Start(p)
  BY <1>1 DEF Same, JobTyped, WaveTyped, Start, Open, Goto, wave
<1>2. CASE Stamp(p)
  BY <1>2 DEF Same, JobTyped, WaveTyped, Stamp, Goto, wave
<1>3. CASE OpenCache(p)
  BY <1>3 DEF Same, JobTyped, WaveTyped, OpenCache, Goto, Use, wave, job
<1>4. CASE ReadTable(p)
  BY <1>4 DEF Same, JobTyped, WaveTyped, ReadTable, Goto, Use, wave, job
<1>5. CASE ReadEntry(p)
  BY <1>5 DEF Same, JobTyped, WaveTyped, ReadEntry, Goto, Use, wave, job
<1>6. CASE VerifyEntry(p)
  BY <1>6 DEF Same, JobTyped, WaveTyped, VerifyEntry, Goto, Use, wave, job
<1>7. CASE OpenTmp(p)
  BY <1>7 DEF Same, JobTyped, WaveTyped, OpenTmp, Goto, Use, wave, job
<1>8. CASE NoTmp(p)
  BY <1>8 DEF Same, JobTyped, WaveTyped, NoTmp, Goto, wave, job
<1>9. CASE FormWave(p)
  BY <1>9 DEF Same, JobTyped, WaveTyped, FormWave, Goto, job
<1>10. CASE Join(p)
  BY <1>10 DEF Same, JobTyped, WaveTyped, Join, Goto, Use, wave, job
<1>11. CASE UploadTask(p)
  BY <1>11 DEF Same, JobTyped, WaveTyped, UploadTask, Uploaded, AfterUpload, Goto, job
<1>12. CASE WriteFails(p)
  BY <1>12 DEF Same, JobTyped, WaveTyped, WriteFails, Uploaded, AfterUpload, Goto, Use, job
<1>13. CASE UploadThrows(p)
  BY <1>13 DEF Same, JobTyped, WaveTyped, UploadThrows, Goto, Use, wave, job
<1>14. CASE WriteTable(p)
  BY <1>14 DEF Same, JobTyped, WaveTyped, WriteTable, Goto, wave, job
<1>15. CASE WriteHeader(p)
  BY <1>15 DEF Same, JobTyped, WaveTyped, WriteHeader, Goto, wave, job
<1>16. CASE Fsync(p)
  BY <1>16 DEF Same, JobTyped, WaveTyped, Fsync, Goto, wave, job
<1>17. CASE Rename(p)
  BY <1>17 DEF Same, JobTyped, WaveTyped, Rename, Goto, Use, wave, job
<1>18. CASE FinishFails(p)
  BY <1>18 DEF Same, JobTyped, WaveTyped, FinishFails, Goto, Use, wave, job
<1>19. CASE Close(p) \/ Kill(p)
  BY <1>19 DEF Same, JobTyped, WaveTyped, Close, Kill, Reset, Goto, Use
<1>20. ASSUME NEW t \in Threads, Worker(p, t) PROVE Same(q)
  BY <1>20 DEF Same, JobTyped, WaveTyped, Worker, Take, PackChunk, PackThrows, job
<1>21. CASE BlankFails(p)
  BY <1>21 DEF Same, JobTyped, WaveTyped, BlankFails, Use, wave, job
<1>. QED
  BY <1>1, <1>2, <1>3, <1>4, <1>5, <1>6, <1>7, <1>8, <1>9, <1>10, <1>11, <1>12, <1>13, <1>14, <1>15, <1>16, <1>17, <1>18, <1>19, <1>20, <1>21 DEF Step, Load

-----------------------------------------------------------------------------
(* Where a load is.                                                         *)

LEMMA SameProgress ==
  ASSUME NEW q \in Procs, Same(q), Control(q), Waves(q) PROVE Control(q)' /\ Waves(q)'
<1>1. Control(q)'
  BY DEF Same, Control
<1>2. Packing(q) => Packing(q)'
  BY DEF Same, Packing, Taken, WaveChunks
<1>3. Uploading(q) => Uploading(q)'
  BY DEF Same, Uploading
<1>4. Waves(q)'
  BY <1>2, <1>3 DEF Same, Waves
<1>. QED
  BY <1>1, <1>4

LEMMA InitProgress == Init => Progress
BY TaskFacts DEF Init, Progress, Control, Waves

\* What is packed of a task being uploaded is all of it, from the mapping.
LEMMA PackedWhole ==
  ASSUME TypeOK, NEW p \in Procs, next[p] \in Tasks, Uploading(p)
  PROVE  Packed(p, next[p]) = Pack(map[p], opts[p].lay, next[p])
<1>1. PICK e \in next[p]..NTasks :
        \A c \in Chunks : host[p][c] = IF c[1] \in next[p]..e THEN map[p] ELSE None
  BY DEF Uploading
<1>2. \A k \in 1..Parts[next[p]] : <<next[p], k>> \in Chunks
  BY ChunkFacts, PackAssumption
<1>3. next[p] \in next[p]..e
  BY <1>1, TaskFacts
<1>4. \A k \in 1..Parts[next[p]] : host[p][<<next[p], k>>] = map[p]
  BY <1>1, <1>2, <1>3
<1>. QED
  BY <1>4 DEF Packed, Pack

\* After an upload.
LEMMA UploadedFacts ==
  ASSUME TypeOK, Progress, NEW p \in Procs, Uploaded(p, next[p]),
         fd' \in [Procs -> Inodes \cup {None}], map' = map
  PROVE  /\ next[p] \in Tasks /\ next'[p] = next[p] + 1
         /\ weights' = [weights EXCEPT ![p][next[p]] = Pack(map[p], opts[p].lay, next[p])]
         /\ \/ at'[p] = "upload" /\ next'[p] \in Tasks /\ Uploading(p)'
            \/ at'[p] = "wave" /\ next'[p] \in Tasks /\ host'[p] = NoHost
            \/ at'[p] = "finish" /\ fd'[p] # None /\ next[p] = NTasks /\ host'[p] = NoHost
            \/ at'[p] = "done" /\ fd'[p] = None /\ next[p] = NTasks /\ host'[p] = NoHost
<1> DEFINE i == next[p]
<1>1. at[p] = "upload" /\ i \in Tasks /\ Uploading(p)
  BY DEF Uploaded, Progress, Control, Waves
<1>2. next'[p] = i + 1
  BY DEF Uploaded, TypeOK, JobTyped
<1>3. weights' = [weights EXCEPT ![p][i] = Pack(map[p], opts[p].lay, i)]
  BY <1>1, PackedWhole DEF Uploaded
<1>4. host'[p] = Release(p, i)
  BY DEF Uploaded, TypeOK, WaveTyped
<1>5. PICK e \in i..NTasks : \A c \in Chunks : host[p][c] = IF c[1] \in i..e THEN map[p] ELSE None
  BY <1>1 DEF Uploading
<1>6. \A c \in Chunks : c[1] \in Tasks
  BY ChunkFacts
<1>7. i \in Nat /\ NTasks \in Nat /\ e \in Nat /\ i <= NTasks
  BY <1>1, <1>5, TaskFacts DEF Tasks
<1>8. ASSUME host'[p] # NoHost PROVE i + 1 \in Tasks /\ Uploading(p)'
  <2>1. \E c \in Chunks : c[1] # i /\ host[p][c] # None
    BY <1>4, <1>8 DEF Release, NoHost
  <2>2. i + 1 <= e
    BY <1>5, <1>6, <1>7, <2>1 DEF Tasks
  <2>3. e \in (i + 1)..NTasks /\ i + 1 \in Tasks
    BY <1>5, <1>7, <2>2 DEF Tasks
  <2>4. \A c \in Chunks : host'[p][c] = IF c[1] \in (i + 1)..e THEN map[p] ELSE None
    <3>1. ASSUME NEW c \in Chunks
          PROVE  host'[p][c] = IF c[1] \in (i + 1)..e THEN map[p] ELSE None
      <4>1. host'[p][c] = IF c[1] = i THEN None ELSE host[p][c]
        BY <1>4 DEF Release
      <4>2. c[1] \in Nat
        BY <1>6, TaskFacts
      <4>3. c[1] \in (i + 1)..e <=> c[1] # i /\ c[1] \in i..e
        BY <1>7, <4>2
      <4>. QED
        BY <1>5, <4>1, <4>3
    <3>. QED
      BY <3>1
  <2>5. \E d \in (next'[p])..NTasks :
          \A c \in Chunks : host'[p][c] = IF c[1] \in (next'[p])..d THEN map'[p] ELSE None
    BY <1>2, <2>3, <2>4
  <2>. QED
    BY <2>3, <2>5 DEF Uploading
<1>9. at' = [at EXCEPT ![p] = IF host'[p] # NoHost THEN "upload"
                              ELSE IF i < NTasks THEN "wave"
                              ELSE IF fd'[p] # None THEN "finish" ELSE "done"]
  BY DEF Uploaded, AfterUpload, Goto
<1>10. at'[p] = IF host'[p] # NoHost THEN "upload"
                ELSE IF i < NTasks THEN "wave"
                ELSE IF fd'[p] # None THEN "finish" ELSE "done"
  BY <1>9 DEF TypeOK, JobTyped
<1>11. i < NTasks => i + 1 \in Tasks
  BY <1>7 DEF Tasks
<1>12. ~(i < NTasks) => i = NTasks
  BY <1>7
<1>. QED
  BY <1>1, <1>2, <1>3, <1>8, <1>10, <1>11, <1>12

LEMMA ControlKept ==
  ASSUME TypeOK, Progress, NEW p \in Procs, Step(p) PROVE Control(p)'
<1>. JobTyped /\ Control(p)
  BY DEF TypeOK, Progress
<1>. NTasks \in Nat /\ NTasks >= 1 /\ 1 \in Tasks /\ Tasks = 1..NTasks
  BY TaskFacts DEF Tasks
<1>1. ASSUME NEW lay \in Layouts, NEW m \in Modes, Open(p, lay, m) PROVE Control(p)'
  BY <1>1 DEF JobTyped, Control, Open, Goto
<1>2. CASE Stamp(p)
  BY <1>2 DEF JobTyped, Control, Stamp, Goto, Fault
<1>3. CASE OpenCache(p)
  BY <1>3 DEF JobTyped, Control, OpenCache, Goto, Use, Rejected, job
<1>4. CASE ReadTable(p)
  BY <1>4 DEF JobTyped, Control, ReadTable, Goto, Use, Rejected, job
<1>5. CASE ReadEntry(p)
  BY <1>5 DEF JobTyped, Control, ReadEntry, Goto, Use, job
<1>6. CASE VerifyEntry(p)
  BY <1>6 DEF JobTyped, Control, VerifyEntry, Goto, Use, job
<1>7. CASE OpenTmp(p)
  <2>1. TmpFile # None /\ fd'[p] = TmpFile
    BY <1>7, TmpFileFacts, PackAssumption DEF JobTyped
  <2>. QED
    BY <1>7, <2>1 DEF JobTyped, Control, OpenTmp, Goto, CacheEnabled, job
<1>8. CASE NoTmp(p)
  BY <1>8 DEF JobTyped, Control, NoTmp, Goto, Fault, job
<1>9. CASE FormWave(p)
  BY <1>9 DEF JobTyped, Control, FormWave, Goto, job
<1>10. CASE Join(p)
  BY <1>10 DEF JobTyped, Control, Join, Goto, Use, job
<1>11. CASE UploadThrows(p)
  BY <1>11 DEF JobTyped, Control, UploadThrows, Goto, Use, job
<1>12. CASE WriteTable(p)
  BY <1>12 DEF JobTyped, Control, WriteTable, Goto, job
<1>13. CASE WriteHeader(p)
  BY <1>13 DEF JobTyped, Control, WriteHeader, Goto, job
<1>14. CASE Fsync(p)
  BY <1>14 DEF JobTyped, Control, Fsync, Goto, job
<1>15. CASE Rename(p)
  BY <1>15 DEF JobTyped, Control, Rename, Goto, Use, job
<1>16. CASE FinishFails(p)
  BY <1>16 DEF JobTyped, Control, FinishFails, Goto, Use, job
<1>17. CASE UploadTask(p) \/ WriteFails(p)
  <2>1. /\ Uploaded(p, next[p]) /\ UNCHANGED job
        /\ fd' = fd \/ fd' = [fd EXCEPT ![p] = None]
    BY <1>17 DEF UploadTask, WriteFails, Use
  <2>2. fd' \in [Procs -> Inodes \cup {None}] /\ (fd'[p] # None => fd[p] # None)
    BY <2>1 DEF JobTyped
  <2>3. \/ at'[p] \in {"upload", "wave"} /\ next'[p] \in Tasks
        \/ at'[p] = "finish" /\ fd'[p] # None /\ next'[p] = NTasks + 1
        \/ at'[p] = "done" /\ fd'[p] = None /\ next'[p] = NTasks + 1
    BY <2>1, <2>2, UploadedFacts DEF job
  <2>. QED
    BY <2>1, <2>2, <2>3 DEF Control, job
<1>18. CASE Close(p) \/ Kill(p)
  BY <1>18 DEF JobTyped, Control, Close, Kill, Reset, Goto, Use
<1>19. ASSUME NEW t \in Threads, Worker(p, t) PROVE Control(p)'
  BY <1>19 DEF Control, Worker, Take, PackChunk, PackThrows, job
<1>20. CASE BlankFails(p)
  BY <1>20 DEF JobTyped, Control, BlankFails, Use, job
<1>. QED
  BY <1>1, <1>2, <1>3, <1>4, <1>5, <1>6, <1>7, <1>8, <1>9, <1>10, <1>11, <1>12, <1>13, <1>14, <1>15, <1>16, <1>17, <1>18, <1>19, <1>20 DEF Step, Start, Load

LEMMA WaveStarts ==
  ASSUME TypeOK, Progress, NEW p \in Procs, FormWave(p) PROVE Waves(p)'
<1>1. /\ host[p] = NoHost /\ host' = host /\ next' = next
      /\ at'[p] = "pack" /\ left'[p] = WaveChunks(next[p])
      /\ \A t \in Threads : busy'[p][t] = None
  BY DEF FormWave, Goto, job, Progress, Waves, TypeOK, JobTyped, WaveTyped
<1>2. None # Returned
  BY PackAssumption
<1>3. WaveChunks(next[p])' = WaveChunks(next[p])
  BY <1>1 DEF WaveChunks
<1>4. Packing(p)'
  BY <1>1, <1>2, <1>3 DEF Packing, NoHost, WaveChunks
<1>. QED
  BY <1>1, <1>4 DEF Waves

\* When all threads have returned without an error, the wave is packed.
LEMMA WaveJoined ==
  ASSUME TypeOK, Progress, NEW p \in Procs, Join(p) PROVE Waves(p)'
<1>1. /\ at[p] = "pack" /\ Packing(p) /\ next[p] \in Tasks
      /\ \A t \in Threads : busy[p][t] = Returned
      /\ host' = host /\ next' = next /\ map' = map
  BY DEF Join, wave, job, Progress, Control, Waves
<1>2. CASE err[p]
  BY <1>1, <1>2 DEF Join, Goto, Waves, TypeOK, JobTyped
<1>3. CASE ~err[p]
  <2>1. at'[p] = "upload"
    BY <1>1, <1>3 DEF Join, Goto, TypeOK, JobTyped
  <2>2. left[p] = {}
    BY <1>1, <1>3, PackAssumption DEF Packing
  <2>3. \A c \in Chunks : ~Taken(p, c)
    BY <1>1, PackAssumption DEF Taken
  <2>4. \A c \in Chunks : host[p][c] = IF c \in WaveChunks(next[p]) THEN map[p] ELSE None
    BY <1>1, <1>3, <2>2, <2>3 DEF Packing
  <2>5. \A c \in Chunks : c \in WaveChunks(next[p]) <=> c[1] \in next[p]..WaveEnd(next[p])
    BY DEF WaveChunks
  <2>6. WaveEnd(next[p]) \in next[p]..NTasks
    BY <1>1, WaveEndFacts
  <2>7. \E e \in next[p]..NTasks :
          \A c \in Chunks : host[p][c] = IF c[1] \in next[p]..e THEN map[p] ELSE None
    BY <2>4, <2>5, <2>6
  <2>8. Uploading(p)'
    BY <1>1, <2>7 DEF Uploading
  <2>. QED
    BY <2>1, <2>8 DEF Waves
<1>. QED
  BY <1>2, <1>3

LEMMA WorkerKeeps ==
  ASSUME TypeOK, Progress, NEW p \in Procs, NEW t \in Threads, Worker(p, t)
  PROVE  Waves(p)'
<1>. WaveTyped
  BY DEF TypeOK
<1> DEFINE W == WaveChunks(next[p])
<1>1. at'[p] = "pack" /\ Packing(p) /\ map' = map /\ W' = W
  BY DEF Worker, Take, PackChunk, PackThrows, job, Progress, Waves, WaveChunks
<1>2. W \subseteq Chunks /\ None \notin Chunks /\ Returned \notin Chunks /\ None # Returned
  BY PackAssumption DEF WaveChunks
<1> HIDE DEF W
<1>3. /\ left[p] \subseteq W
      /\ \A u \in Threads : busy[p][u] \in W \cup {None, Returned}
      /\ \A c \in Chunks :
           IF c \in W THEN host[p][c] = map[p] \/ c \in left[p] \/ Taken(p, c) \/ err[p]
           ELSE host[p][c] = None
      /\ \A u \in Threads : busy[p][u] = Returned => left[p] = {} \/ err[p]
  BY <1>1 DEF Packing, W
<1>4. ASSUME /\ left'[p] \subseteq W
             /\ \A u \in Threads : busy'[p][u] \in W \cup {None, Returned}
             /\ \A c \in Chunks :
                  IF c \in W
                  THEN host'[p][c] = map[p] \/ c \in left'[p] \/ (\E u \in Threads : busy'[p][u] = c) \/ err'[p]
                  ELSE host'[p][c] = None
             /\ \A u \in Threads : busy'[p][u] = Returned => left'[p] = {} \/ err'[p]
      PROVE  Waves(p)'
  <2>1. Packing(p)'
    BY <1>1, <1>4 DEF Packing, Taken, W
  <2>. QED
    BY <1>1, <2>1 DEF Waves
<1>5. CASE Take(p, t) /\ left[p] = {} /\ busy' = [busy EXCEPT ![p][t] = Returned] /\ left' = left
  <2>1. host' = host /\ err' = err /\ busy[p][t] = None
    BY <1>5 DEF Take
  <2>2. /\ busy'[p][t] = Returned
        /\ \A u \in Threads : u # t => busy'[p][u] = busy[p][u]
    BY <1>5 DEF WaveTyped
  <2>3. \A c \in Chunks : Taken(p, c) => \E u \in Threads : busy'[p][u] = c
    BY <1>2, <2>1, <2>2 DEF Taken
  <2>. QED
    BY <1>3, <1>4, <1>5, <2>1, <2>2, <2>3
<1>6. ASSUME NEW c \in left[p], Take(p, t), left' = [left EXCEPT ![p] = @ \ {c}],
             busy' = [busy EXCEPT ![p][t] = IF err[p] THEN Returned ELSE c]
      PROVE  Waves(p)'
  <2>1. host' = host /\ err' = err /\ busy[p][t] = None
    BY <1>6 DEF Take
  <2>2. /\ busy'[p][t] = IF err[p] THEN Returned ELSE c
        /\ \A u \in Threads : u # t => busy'[p][u] = busy[p][u]
        /\ left'[p] = left[p] \ {c}
    BY <1>6 DEF WaveTyped
  <2>3. \A d \in Chunks : Taken(p, d) => \E u \in Threads : busy'[p][u] = d
    BY <1>2, <2>1, <2>2 DEF Taken
  <2>4. err[p] \/ (\E u \in Threads : busy'[p][u] = c)
    BY <2>2
  <2>5. \A d \in Chunks :
          IF d \in W
          THEN host'[p][d] = map[p] \/ d \in left'[p] \/ (\E u \in Threads : busy'[p][u] = d) \/ err'[p]
          ELSE host'[p][d] = None
    BY <1>3, <2>1, <2>2, <2>3, <2>4
  <2>6. \A u \in Threads : busy'[p][u] \in W \cup {None, Returned}
    BY <1>3, <2>2
  <2>7. \A u \in Threads : busy'[p][u] = Returned => left'[p] = {} \/ err'[p]
    BY <1>2, <1>3, <2>1, <2>2
  <2>. QED
    BY <1>3, <1>4, <2>2, <2>5, <2>6, <2>7
<1>7. CASE PackChunk(p, t)
  <2>1. /\ busy[p][t] \in W /\ left' = left /\ err' = err
    BY <1>2, <1>3, <1>7 DEF PackChunk
  <2>2. /\ busy'[p][t] = None
        /\ \A u \in Threads : u # t => busy'[p][u] = busy[p][u]
        /\ host'[p][busy[p][t]] = map[p]
        /\ \A c \in Chunks : c # busy[p][t] => host'[p][c] = host[p][c]
    BY <1>7 DEF PackChunk, WaveTyped
  <2>3. \A c \in Chunks : Taken(p, c) => c = busy[p][t] \/ \E u \in Threads : busy'[p][u] = c
    BY <2>2 DEF Taken
  <2>4. \A c \in Chunks :
          IF c \in W
          THEN host'[p][c] = map[p] \/ c \in left'[p] \/ (\E u \in Threads : busy'[p][u] = c) \/ err'[p]
          ELSE host'[p][c] = None
    BY <1>3, <2>1, <2>2, <2>3
  <2>5. /\ \A u \in Threads : busy'[p][u] \in W \cup {None, Returned}
        /\ \A u \in Threads : busy'[p][u] = Returned => left'[p] = {} \/ err'[p]
    BY <1>2, <1>3, <2>1, <2>2
  <2>. QED
    BY <1>3, <1>4, <2>1, <2>4, <2>5
<1>8. CASE PackThrows(p, t)
  <2>1. host' = host /\ left' = left /\ err'[p]
    BY <1>8 DEF PackThrows, WaveTyped
  <2>2. /\ busy'[p][t] = Returned
        /\ \A u \in Threads : u # t => busy'[p][u] = busy[p][u]
    BY <1>8 DEF PackThrows, WaveTyped
  <2>. QED
    BY <1>3, <1>4, <2>1, <2>2
<1>. QED
  BY <1>5, <1>6, <1>7, <1>8 DEF Worker, Take

LEMMA WavesKept ==
  ASSUME TypeOK, Progress, NEW p \in Procs, Step(p) PROVE Waves(p)'
<1>. JobTyped /\ Waves(p)
  BY DEF TypeOK, Progress
<1>1. ASSUME host' = host, at[p] \notin {"pack", "upload", "failed"}, at'[p] \notin {"pack", "upload"}
      PROVE  Waves(p)'
  BY <1>1 DEF Waves
<1>2. ASSUME at'[p] = "failed" PROVE Waves(p)'
  BY <1>2 DEF Waves
<1>3. ASSUME NEW lay \in Layouts, NEW m \in Modes, Open(p, lay, m) PROVE Waves(p)'
  BY <1>1, <1>3 DEF Open, Goto, wave, JobTyped
<1>4. CASE Stamp(p) \/ OpenCache(p) \/ ReadTable(p)
  BY <1>1, <1>4 DEF Stamp, OpenCache, ReadTable, Rejected, Goto, wave, JobTyped
<1>5. CASE ReadEntry(p) \/ VerifyEntry(p)
  BY <1>1, <1>5 DEF ReadEntry, VerifyEntry, Goto, wave, JobTyped
<1>6. CASE OpenTmp(p) \/ NoTmp(p) \/ BlankFails(p)
  BY <1>1, <1>6 DEF OpenTmp, NoTmp, BlankFails, Goto, wave, JobTyped
<1>7. CASE UploadTask(p) \/ WriteFails(p)
  <2>1. /\ Uploaded(p, next[p]) /\ UNCHANGED job
        /\ fd' = fd \/ fd' = [fd EXCEPT ![p] = None]
    BY <1>7 DEF UploadTask, WriteFails, Use
  <2>2. fd' \in [Procs -> Inodes \cup {None}]
    BY <2>1 DEF JobTyped
  <2>3. \/ at'[p] = "upload" /\ Uploading(p)'
        \/ at'[p] \in {"wave", "finish", "done"} /\ host'[p] = NoHost
    BY <2>1, <2>2, UploadedFacts DEF job
  <2>. QED
    BY <2>3 DEF Waves
<1>8. CASE UploadThrows(p)
  BY <1>2, <1>8 DEF UploadThrows, Goto, JobTyped
<1>9. CASE WriteTable(p) \/ WriteHeader(p) \/ Fsync(p) \/ Rename(p) \/ FinishFails(p)
  BY <1>1, <1>9 DEF WriteTable, WriteHeader, Fsync, Rename, FinishFails, Goto, wave, JobTyped
<1>10. CASE Close(p) \/ Kill(p)
  <2>1. at'[p] = "idle" /\ host'[p] = NoHost
    BY <1>10 DEF Close, Kill, Reset, Goto, JobTyped, TypeOK, WaveTyped
  <2>. QED
    BY <2>1 DEF Waves
<1>. QED
  BY <1>3, <1>4, <1>5, <1>6, <1>7, <1>8, <1>9, <1>10, WaveStarts, WaveJoined, WorkerKeeps
  DEF Step, Start, Load

LEMMA ProgressKept == ASSUME TypeOK, Progress, [Next]_vars PROVE Progress'
<1>1. ASSUME NEW p \in Procs, Step(p) PROVE Progress'
  <2>1. Control(p)' /\ Waves(p)'
    BY <1>1, ControlKept, WavesKept
  <2>2. ASSUME NEW q \in Procs, q # p PROVE Control(q)' /\ Waves(q)'
    BY <1>1, <2>2, OthersSame, SameProgress DEF Progress
  <2>. QED
    BY <2>1, <2>2 DEF Progress
<1>2. CASE PowerLoss \/ Replace
  <2>1. \A q \in Procs : Same(q)
    BY <1>2 DEF PowerLoss, Replace, Same, job, wave
  <2>. QED
    BY <2>1, SameProgress DEF Progress
<1>3. CASE UNCHANGED vars
  <2>1. \A q \in Procs : Same(q)
    BY <1>3 DEF vars, job, wave, Same
  <2>. QED
    BY <2>1, SameProgress DEF Progress
<1>. QED
  BY <1>1, <1>2, <1>3 DEF Next, Step

\* Types and the places of load_packed_weights() belong together.
THEOREM TypeCorrect == Spec => [](TypeOK /\ Progress)
<1>1. Init => TypeOK /\ Progress
  BY InitTypes, InitProgress
<1>2. TypeOK /\ Progress /\ [Next]_vars => (TypeOK /\ Progress)'
  BY TypesKept, ProgressKept
<1>. QED
  BY <1>1, <1>2, PTL DEF Spec

-----------------------------------------------------------------------------
(* Host memory.                                                             *)

\* More tensors are no fewer bytes.
LEMMA BeforeFacts ==
  /\ \A k \in 0..NTasks : Before[k] \in Nat
  /\ \A j, k \in 0..NTasks : j <= k => Before[j] <= Before[k]
<1> DEFINE Set(j) == {j} \X (1..Bytes[j])
           Sets(k) == {Set(j) : j \in 1..k}
<1>1. \A k \in 0..NTasks : Before[k] = Cardinality(UNION Sets(k))
  BY DEF Before
<1>2. ASSUME NEW k \in 0..NTasks PROVE IsFiniteSet(UNION Sets(k))
  <2>1. k \in Nat /\ NTasks \in Nat /\ k <= NTasks
    BY TaskFacts
  <2>2. \A j \in 1..k : IsFiniteSet(Set(j))
    <3> SUFFICES ASSUME NEW j \in 1..k PROVE IsFiniteSet(Set(j))
      OBVIOUS
    <3>1. Bytes[j] \in Nat
      BY <2>1, PackAssumption DEF Tasks
    <3>2. IsFiniteSet({j})
      BY FS_Singleton
    <3>3. IsFiniteSet(1..Bytes[j])
      <4> DEFINE n == Bytes[j]
      <4>1. n \in Int /\ 1 \in Int
        BY <3>1
      <4> HIDE DEF n
      <4>2. IsFiniteSet(1..n)
        BY <4>1, FS_Interval
      <4>. QED
        BY <4>2 DEF n
    <3>. QED
      BY <3>2, <3>3, FS_Product
  <2>3. IsFiniteSet(Sets(k))
    <3> DEFINE f == [j \in 1..k |-> Set(j)]
    <3>1. f \in Surjection(1..k, Sets(k))
      BY DEF Surjection
    <3>2. IsFiniteSet(1..k)
      BY <2>1, FS_Interval
    <3> HIDE DEF f
    <3>. QED
      BY <3>1, <3>2, FS_Surjection
  <2>4. \A T \in Sets(k) : IsFiniteSet(T)
    BY <2>2
  <2> HIDE DEF Sets
  <2>. QED
    BY <2>3, <2>4, FS_UNION
<1>3. \A k \in 0..NTasks : Before[k] \in Nat
  BY <1>1, <1>2, FS_CardinalityType
<1>4. ASSUME NEW j \in 0..NTasks, NEW k \in 0..NTasks, j <= k PROVE Before[j] <= Before[k]
  <2>1. 1..j \subseteq 1..k
    BY <1>4, TaskFacts
  <2>2. UNION Sets(j) \subseteq UNION Sets(k)
    BY <2>1
  <2>3. IsFiniteSet(UNION Sets(k))
    BY <1>2
  <2> HIDE DEF Sets
  <2>4. Cardinality(UNION Sets(j)) <= Cardinality(UNION Sets(k))
    BY <2>2, <2>3, FS_Subset
  <2>. QED
    BY <1>1, <2>4
<1>. QED
  BY <1>3, <1>4

\* Whatever is packed and not uploaded is of tensors that fit under the cap.
HeldFits(p) ==
  \E a, b \in Tasks :
    a <= b /\ Fits(a, b) /\ \A c \in Chunks : host[p][c] # None => c[1] \in a..b

LEMMA InitHeld == Init => \A p \in Procs : HeldFits(p)
<1> SUFFICES ASSUME Init, NEW p \in Procs PROVE HeldFits(p)
  OBVIOUS
<1>1. 1 \in Tasks /\ 1 <= 1 /\ Fits(1, 1)
  BY TaskFacts DEF Tasks, Fits
<1>2. \A c \in Chunks : host[p][c] = None
  BY DEF Init, NoHost
<1>. QED
  BY <1>1, <1>2 DEF HeldFits

LEMMA HeldKept ==
  ASSUME TypeOK, Progress, \A p \in Procs : HeldFits(p), [Next]_vars
  PROVE  \A p \in Procs : HeldFits(p)'
<1>. JobTyped /\ WaveTyped
  BY DEF TypeOK
<1>1. ASSUME NEW p \in Procs, \A c \in Chunks : host'[p][c] \in {None, host[p][c]}
      PROVE  HeldFits(p)'
  <2>1. PICK a, b \in Tasks :
          a <= b /\ Fits(a, b) /\ \A c \in Chunks : host[p][c] # None => c[1] \in a..b
    BY DEF HeldFits
  <2>2. \A c \in Chunks : host'[p][c] # None => c[1] \in a..b
    BY <1>1, <2>1
  <2>. QED
    BY <2>1, <2>2 DEF HeldFits
<1>2. ASSUME NEW p \in Procs, NEW t \in Threads, PackChunk(p, t) PROVE HeldFits(p)'
  <2>1. Packing(p) /\ next[p] \in Tasks /\ busy[p][t] \in Chunks
    BY <1>2 DEF PackChunk, Progress, Control, Waves
  <2>2. busy[p][t] \in WaveChunks(next[p])
    BY <2>1, PackAssumption DEF Packing
  <2>3. host'[p] = [host[p] EXCEPT ![busy[p][t]] = map[p]]
    BY <1>2 DEF PackChunk, WaveTyped
  <2>4. \A c \in Chunks : host'[p][c] # None => c \in WaveChunks(next[p])
    BY <2>1, <2>2, <2>3 DEF Packing, WaveTyped
  <2>5. \A c \in Chunks : host'[p][c] # None => c[1] \in next[p]..WaveEnd(next[p])
    BY <2>4 DEF WaveChunks
  <2>6. WaveEnd(next[p]) \in Tasks /\ next[p] <= WaveEnd(next[p]) /\ Fits(next[p], WaveEnd(next[p]))
    BY <2>1, WaveEndFacts, TaskFacts DEF Tasks
  <2>. QED
    BY <2>1, <2>5, <2>6 DEF HeldFits
<1>3. ASSUME NEW p \in Procs, Step(p), \A t \in Threads : ~PackChunk(p, t) PROVE HeldFits(p)'
  <2>1. CASE UploadTask(p) \/ WriteFails(p)
    <3>1. host'[p] = Release(p, next[p])
      BY <2>1 DEF UploadTask, WriteFails, Uploaded, WaveTyped
    <3>. QED
      BY <1>1, <3>1 DEF Release
  <2>2. CASE Close(p) \/ Kill(p)
    <3>1. host'[p] = NoHost
      BY <2>2 DEF Close, Kill, Reset, WaveTyped
    <3>. QED
      BY <1>1, <3>1 DEF NoHost
  <2>3. CASE ~(UploadTask(p) \/ WriteFails(p) \/ Close(p) \/ Kill(p))
    <3>1. host' = host
      BY <1>3, <2>3 DEF Step, Start, Open, Load, Stamp, OpenCache, ReadTable, ReadEntry, VerifyEntry,
         OpenTmp, NoTmp, BlankFails, FormWave, Join, UploadThrows, WriteTable, WriteHeader, Fsync, Rename,
         FinishFails, Worker, Take, PackThrows, wave
    <3>. QED
      BY <1>1, <3>1
  <2>. QED
    BY <2>1, <2>2, <2>3
<1>4. ASSUME NEW p \in Procs, Step(p), NEW q \in Procs PROVE HeldFits(q)'
  <2>1. CASE q = p
    BY <1>2, <1>3, <1>4, <2>1
  <2>2. CASE q # p
    <3>1. host'[q] = host[q]
      BY <1>4, <2>2, OthersSame DEF Same
    <3>. QED
      BY <1>1, <3>1
  <2>. QED
    BY <2>1, <2>2
<1>5. CASE PowerLoss \/ Replace \/ UNCHANGED vars
  <2>1. host' = host
    BY <1>5 DEF PowerLoss, Replace, vars, wave
  <2>. QED
    BY <1>1, <2>1
<1>. QED
  BY <1>4, <1>5 DEF Next, Step

LEMMA HeldBound == ASSUME \A p \in Procs : HeldFits(p) PROVE HostBounded
<1> SUFFICES ASSUME NEW p \in Procs
             PROVE  LET held == {i \in Tasks : \E c \in Chunks : c[1] = i /\ host[p][c] # None}
                    IN  \/ Cardinality(held) <= 1
                        \/ \A i, j \in held : i <= j => Before[j] - Before[i - 1] <= Cap
  BY DEF HostBounded
<1> DEFINE held == {i \in Tasks : \E c \in Chunks : c[1] = i /\ host[p][c] # None}
<1>1. PICK a, b \in Tasks :
        a <= b /\ Fits(a, b) /\ \A c \in Chunks : host[p][c] # None => c[1] \in a..b
  BY DEF HeldFits
<1>2. held \subseteq a..b
  BY <1>1
<1>3. NTasks \in Nat /\ a \in Nat /\ b \in Nat /\ 1 <= a /\ a <= b /\ b <= NTasks
  BY <1>1, TaskFacts DEF Tasks
<1>4. CASE b = a
  <2>1. held \in SUBSET {a}
    BY <1>2, <1>3, <1>4
  <2>2. IsFiniteSet({a}) /\ Cardinality({a}) = 1
    BY FS_Singleton
  <2>3. Cardinality(held) <= 1
    BY <2>1, <2>2, FS_Subset
  <2>. QED
    BY <2>3
<1>5. CASE b # a
  <2>1. Before[b] - Before[a - 1] <= Cap
    BY <1>1, <1>5 DEF Fits
  <2>2. ASSUME NEW i \in held, NEW j \in held, i <= j PROVE Before[j] - Before[i - 1] <= Cap
    <3>1. i \in a..b /\ j \in a..b
      BY <1>2
    <3>2. i - 1 \in 0..NTasks /\ a - 1 \in 0..NTasks /\ j \in 0..NTasks /\ b \in 0..NTasks
          /\ a - 1 <= i - 1 /\ j <= b
      BY <1>3, <3>1
    <3>3. Before[a - 1] <= Before[i - 1] /\ Before[j] <= Before[b]
      BY <3>2, BeforeFacts
    <3>4. Before[a - 1] \in Nat /\ Before[i - 1] \in Nat /\ Before[j] \in Nat /\ Before[b] \in Nat
      BY <3>2, BeforeFacts
    <3>. QED
      BY <2>1, <3>3, <3>4, PackAssumption
  <2>. QED
    BY <2>2
<1>. QED
  BY <1>4, <1>5

\* The packed data of a wave stays under pack_wave_bytes until it is uploaded,
\* a single larger tensor excepted.
THEOREM HostMemoryBounded == Spec => []HostBounded
<1>1. Init => TypeOK /\ Progress /\ \A p \in Procs : HeldFits(p)
  BY InitTypes, InitProgress, InitHeld
<1>2. TypeOK /\ Progress /\ (\A p \in Procs : HeldFits(p)) /\ [Next]_vars
        => (TypeOK /\ Progress /\ \A p \in Procs : HeldFits(p))'
  BY TypesKept, ProgressKept, HeldKept
<1>3. (\A p \in Procs : HeldFits(p)) => HostBounded
  BY HeldBound
<1>. QED
  BY <1>1, <1>2, <1>3, PTL DEF Spec

-----------------------------------------------------------------------------
(* The name of the cache.                                                   *)

\* The file a process builds has what its table says, as far as it has come.
Filled(p) ==
  /\ \A i \in Tasks : i < next[p] => table[p][i] # None /\ files[fd[p]].body[i] = table[p][i]
  /\ at[p] \in {"header", "sync", "rename"} => files[fd[p]].table = table[p]
  /\ at[p] \in {"sync", "rename"} => files[fd[p]].hdr # None
  /\ at[p] = "rename" => files[fd[p]].synced

\* A file that is all there, and would be after a power loss.
Complete(f) ==
  /\ files[f].hdr # None /\ files[f].synced
  /\ files[f].table = files[f].body
  /\ \A i \in Tasks : files[f].body[i] # None

\* The tmp name never leads to the cache, nor to a file somebody reads.
NamesApart == tmp # None => tmp # cache /\ \A p \in Procs : Reader(p) => fd[p] # tmp

\* While one process at a time builds the cache, it builds what the tmp name
\* leads to.
Names ==
  shared = "no" =>
    /\ cache # None => Complete(cache)
    /\ \A p \in Procs : Writer(p) => fd[p] = tmp /\ Filled(p)
    /\ \A p, q \in Procs : Writer(p) /\ Writer(q) => p = q

LEMMA InitNames == Init => NamesApart /\ Names
<1> SUFFICES ASSUME Init PROVE NamesApart /\ Names
  OBVIOUS
<1>1. \A p \in Procs : ~Writer(p)
  BY DEF Init, Writer
<1>2. NamesApart
  BY DEF Init, NamesApart
<1>3. ASSUME cache # None PROVE Complete(cache)
  <2>1. PICK g \in {Blank} \cup {Written(lay) : lay \in Layouts} :
          LET f == CHOOSE f \in Inodes : TRUE
          IN  /\ files = [h \in Inodes |-> IF h = f THEN g ELSE Blank]
              /\ cache = IF g = Blank THEN None ELSE f
    BY DEF Init
  <2>2. PICK lay \in Layouts : g = Written(lay)
    BY <1>3, <2>1
  <2>3. cache \in Inodes /\ files[cache] = Written(lay)
    BY <1>3, <2>1, <2>2, PackAssumption
  <2>4. 1 \in Versions
    BY PackAssumption DEF Versions
  <2>5. \A i \in Tasks : Pack(1, lay, i) # None
    BY <2>4, PackEntry, PackAssumption DEF Version
  <2>6. [stamp |-> 1, lay |-> lay] # None
    BY <2>4, PackAssumption DEF Header, Version
  <2>7. files[cache].table = files[cache].body /\ files[cache].synced
        /\ files[cache].hdr = [stamp |-> 1, lay |-> lay]
        /\ \A i \in Tasks : files[cache].body[i] = Pack(1, lay, i)
    BY <2>3 DEF Written
  <2>. QED
    BY <2>5, <2>6, <2>7 DEF Complete
<1>. QED
  BY <1>1, <1>2, <1>3 DEF Names

LEMMA ApartKept ==
  ASSUME TypeOK, Progress, NamesApart, [Next]_vars PROVE NamesApart'
<1>. JobTyped /\ DiskTyped
  BY DEF TypeOK
<1>1. ASSUME tmp' = None PROVE NamesApart'
  BY <1>1 DEF NamesApart
<1>2. ASSUME tmp' = tmp, cache' = cache, NEW p \in Procs, Step(p),
             Reader(p)' => (Reader(p) /\ fd'[p] = fd[p]) \/ fd'[p] = cache
      PROVE  NamesApart'
  <2>1. \A q \in Procs : q # p => Same(q)
    BY <1>2, OthersSame
  <2>. QED
    BY <1>2, <2>1 DEF NamesApart, Reader, Same
<1>3. ASSUME NEW p \in Procs, Step(p) PROVE NamesApart'
  <2>1. ASSUME Start(p) \/ Stamp(p) \/ OpenCache(p) PROVE NamesApart'
    BY <1>2, <1>3, <2>1
    DEF Start, Open, Stamp, OpenCache, Rejected, Reader, Goto, Use, disk, JobTyped
  <2>2. ASSUME ReadTable(p) \/ ReadEntry(p) \/ VerifyEntry(p) PROVE NamesApart'
    BY <1>2, <1>3, <2>2
    DEF ReadTable, ReadEntry, VerifyEntry, Rejected, Reader, Goto, Use, disk, JobTyped
  <2>3. CASE OpenTmp(p)
    <3>1. /\ tmp' = TmpFile /\ TmpFile \in Inodes /\ fd'[p] = TmpFile
          /\ tmp # None => tmp = TmpFile
          /\ tmp = None => Free(TmpFile)
      BY <2>3, TmpFileFacts DEF JobTyped
    <3>2. cache' = cache /\ at'[p] = "wave"
      BY <2>3 DEF OpenTmp, Goto, JobTyped
    <3>3. \A q \in Procs : q # p => Same(q)
      BY <1>3, OthersSame
    <3>. QED
      BY <3>1, <3>2, <3>3 DEF NamesApart, Reader, Same, Free
  <2>4. ASSUME NoTmp(p) \/ BlankFails(p) \/ FormWave(p) \/ UploadThrows(p) PROVE NamesApart'
    BY <1>2, <1>3, <2>4 DEF NoTmp, BlankFails, FormWave, UploadThrows, Reader, Goto, disk, JobTyped
  <2>5. CASE Join(p)
    BY <1>1, <1>2, <1>3, <2>5 DEF Join, Reader, Goto, JobTyped
  <2>6. ASSUME UploadTask(p) \/ WriteFails(p) PROVE NamesApart'
    <3>1. at'[p] \in {"upload", "wave", "finish", "done"}
      BY <2>6 DEF UploadTask, WriteFails, Uploaded, AfterUpload, Goto, JobTyped
    <3>2. tmp' = None \/ (tmp' = tmp /\ cache' = cache)
      BY <2>6 DEF UploadTask, WriteFails
    <3>. QED
      BY <1>1, <1>2, <1>3, <3>1, <3>2 DEF Reader
  <2>7. ASSUME WriteTable(p) \/ WriteHeader(p) \/ Fsync(p) PROVE NamesApart'
    BY <1>2, <1>3, <2>7 DEF WriteTable, WriteHeader, Fsync, Reader, Goto, JobTyped
  <2>8. ASSUME Rename(p) \/ FinishFails(p) PROVE NamesApart'
    BY <1>1, <2>8 DEF Rename, FinishFails
  <2>9. ASSUME Close(p) \/ Kill(p) PROVE NamesApart'
    BY <1>2, <1>3, <2>9 DEF Close, Kill, Reset, Reader, Goto, disk, JobTyped
  <2>10. ASSUME NEW t \in Threads, Worker(p, t) PROVE NamesApart'
    BY <1>2, <1>3, <2>10 DEF Worker, Take, PackChunk, PackThrows, Reader, disk
  <2>. QED
    BY <1>3, <2>1, <2>2, <2>3, <2>4, <2>5, <2>6, <2>7, <2>8, <2>9, <2>10 DEF Step, Load
<1>4. CASE PowerLoss \/ Replace \/ UNCHANGED vars
  BY <1>4 DEF PowerLoss, Replace, vars, disk, NamesApart, Reader
<1>. QED
  BY <1>3, <1>4 DEF Next, Step

\* What happened stays so.
LEMMA HistoryKept ==
  ASSUME [Next]_vars
  PROVE  /\ shared' = "no" => shared = "no"
         /\ ~swapped' /\ shared' # "mixed" => ~swapped /\ shared # "mixed"
<1>1. ASSUME NEW p \in Procs, OpenTmp(p) \/ Stamp(p)
      PROVE  /\ shared' = "no" => shared = "no"
             /\ ~swapped' /\ shared' # "mixed" => ~swapped /\ shared # "mixed"
  <2>1. CASE OpenTmp(p)
    <3>1. swapped' = swapped /\ shared' \in {"mixed", "same", shared}
          /\ (shared' = "same" => shared \in {"no", "same"})
      BY <2>1 DEF OpenTmp
    <3>. QED
      BY <3>1
  <2>2. CASE Stamp(p)
    BY <2>2 DEF Stamp
  <2>. QED
    BY <1>1, <2>1, <2>2
<1>2. ASSUME NEW p \in Procs, Step(p), ~OpenTmp(p), ~Stamp(p) PROVE UNCHANGED <<swapped, shared>>
  BY <1>2 DEF Step, Start, Open, Load, OpenCache, ReadTable, ReadEntry, VerifyEntry, NoTmp, BlankFails, FormWave,
     Join, UploadTask, WriteFails, UploadThrows, WriteTable, WriteHeader, Fsync, Rename, FinishFails,
     Close, Kill, Worker, Take, PackChunk, PackThrows, history
<1>3. CASE PowerLoss \/ Replace \/ UNCHANGED vars
  BY <1>3 DEF PowerLoss, Replace, vars, history
<1>. QED
  BY <1>1, <1>2, <1>3 DEF Next, Step

\* A step of one process that leaves the cache and the file of the others.
LEMMA NamesFrame ==
  ASSUME Names, shared = "no", NEW p \in Procs,
         \A q \in Procs : q # p => Same(q),
         cache' = cache, cache # None => files'[cache] = files[cache],
         \A q \in Procs : q # p /\ Writer(q) => tmp' = tmp /\ files'[tmp] = files[tmp],
         Writer(p)' => /\ fd'[p] = tmp' /\ Filled(p)'
                       /\ \A q \in Procs : q # p => ~Writer(q)
  PROVE  Names'
<1>1. cache # None => Complete(cache)
  BY DEF Names
<1>2. cache' # None => Complete(cache)'
  BY <1>1 DEF Complete
<1>3. ASSUME NEW q \in Procs, q # p, Writer(q)' PROVE fd'[q] = tmp' /\ Filled(q)' /\ Writer(q)
  <2>1. Same(q) /\ Writer(q)
    BY <1>3 DEF Writer, Same
  <2>2. fd[q] = tmp /\ Filled(q)
    BY <2>1 DEF Names
  <2>3. tmp' = tmp /\ files'[tmp] = files[tmp]
    BY <1>3, <2>1
  <2>4. Filled(q)'
    BY <2>1, <2>2, <2>3 DEF Same, Filled
  <2>. QED
    BY <2>1, <2>2, <2>3, <2>4 DEF Same
<1>4. \A q \in Procs : Writer(q)' => fd'[q] = tmp' /\ Filled(q)'
  BY <1>3
<1>5. \A q, r \in Procs : Writer(q)' /\ Writer(r)' => q = r
  BY <1>3 DEF Names
<1>. QED
  BY <1>2, <1>4, <1>5 DEF Names

\* Steps that do not write the file keep the names.
LEMMA NamesQuiet ==
  ASSUME TypeOK, Progress, Names, shared = "no", NEW p \in Procs, Step(p),
         UNCHANGED <<cache, files>>,
         \/ Start(p) \/ Stamp(p) \/ OpenCache(p) \/ ReadTable(p) \/ ReadEntry(p) \/ VerifyEntry(p)
         \/ NoTmp(p) \/ BlankFails(p) \/ FormWave(p) \/ Join(p) \/ WriteFails(p) \/ UploadThrows(p)
         \/ FinishFails(p) \/ Close(p) \/ Kill(p)
         \/ \E t \in Threads : Worker(p, t)
  PROVE  Names'
<1>. JobTyped /\ Control(p)
  BY DEF TypeOK, Progress
<1>1. \A q \in Procs : q # p => Same(q)
  BY OthersSame
<1>2. ASSUME ~Writer(p)', tmp' = tmp \/ Writer(p) PROVE Names'
  <2>1. \A q \in Procs : q # p /\ Writer(q) => tmp' = tmp
    BY <1>2 DEF Names
  <2>. QED
    BY <1>1, <1>2, <2>1, NamesFrame
<1>3. ASSUME Writer(p), tmp' = tmp, fd'[p] = fd[p], table'[p] = table[p], next'[p] = next[p],
             at'[p] \in {"wave", "pack", "upload"}
      PROVE  Names'
  <2>1. fd[p] = tmp /\ Filled(p) /\ \A q \in Procs : q # p => ~Writer(q)
    BY <1>3 DEF Names
  <2>2. Filled(p)'
    BY <1>3, <2>1 DEF Filled
  <2>. QED
    BY <1>1, <1>3, <2>1, <2>2, NamesFrame
<1>4. CASE Start(p) \/ Stamp(p) \/ NoTmp(p)
  BY <1>2, <1>4 DEF Start, Open, Stamp, NoTmp, Writer, Control, disk, job
<1>5. CASE OpenCache(p) \/ ReadTable(p)
  BY <1>2, <1>5 DEF OpenCache, ReadTable, Goto, Use, Writer, Control, disk, JobTyped
<1>6. CASE ReadEntry(p) \/ VerifyEntry(p)
  BY <1>2, <1>6 DEF ReadEntry, VerifyEntry, Goto, Use, Writer, Control, disk, JobTyped
<1>7. CASE FormWave(p)
  <2>1. /\ tmp' = tmp /\ fd' = fd /\ table' = table /\ next' = next /\ at'[p] = "pack" /\ at[p] = "wave"
    BY <1>7 DEF FormWave, Goto, disk, JobTyped
  <2>2. CASE Writer(p)
    BY <1>3, <2>1, <2>2
  <2>3. CASE ~Writer(p)
    BY <1>2, <2>1, <2>3 DEF Writer
  <2>. QED
    BY <2>2, <2>3
<1>8. CASE Join(p)
  <2>1. at[p] = "pack" /\ table' = table /\ next' = next
    BY <1>8 DEF Join
  <2>2. CASE err[p]
    BY <1>2, <1>8, <2>1, <2>2 DEF Join, Use, Writer, JobTyped
  <2>3. CASE ~err[p]
    <3>1. tmp' = tmp /\ fd' = fd /\ at'[p] = "upload"
      BY <1>8, <2>3 DEF Join, Goto, JobTyped
    <3>2. CASE Writer(p)
      BY <1>3, <2>1, <3>1, <3>2
    <3>3. CASE ~Writer(p)
      BY <1>2, <2>1, <3>1, <3>3 DEF Writer
    <3>. QED
      BY <3>2, <3>3
  <2>. QED
    BY <2>2, <2>3
<1>9. CASE WriteFails(p)
  BY <1>2, <1>9 DEF WriteFails, Uploaded, Use, Writer, JobTyped
<1>10. CASE UploadThrows(p)
  BY <1>2, <1>10 DEF UploadThrows, Use, Writer, disk, JobTyped
<1>11. CASE FinishFails(p)
  BY <1>2, <1>11 DEF FinishFails, Use, Writer, Control, JobTyped
<1>12. CASE Close(p) \/ Kill(p)
  BY <1>2, <1>12 DEF Close, Kill, Reset, Use, Writer, disk, JobTyped
<1>13. ASSUME NEW t \in Threads, Worker(p, t) PROVE Names'
  <2>1. /\ tmp' = tmp /\ fd' = fd /\ table' = table /\ next' = next /\ at' = at /\ at[p] = "pack"
    BY <1>13 DEF Worker, Take, PackChunk, PackThrows, disk
  <2>2. CASE Writer(p)
    BY <1>3, <2>1, <2>2
  <2>3. CASE ~Writer(p)
    BY <1>2, <2>1, <2>3 DEF Writer
  <2>. QED
    BY <2>2, <2>3
<1>14. CASE BlankFails(p)
  BY <1>2, <1>14 DEF BlankFails, Use, Writer, disk, JobTyped
<1>. QED
  BY <1>4, <1>5, <1>6, <1>7, <1>8, <1>9, <1>10, <1>11, <1>12, <1>13, <1>14

\* A step that writes the file it builds, or starts a new one.
LEMMA NamesWritten ==
  ASSUME TypeOK, Progress, NamesApart, Names, shared = "no", shared' = "no",
         NEW p \in Procs, Step(p),
         OpenTmp(p) \/ UploadTask(p) \/ WriteTable(p) \/ WriteHeader(p) \/ Fsync(p)
  PROVE  Names'
<1>. JobTyped /\ DiskTyped /\ Control(p)
  BY DEF TypeOK, Progress
<1>1. \A q \in Procs : q # p => Same(q)
  BY OthersSame
<1>2. CASE OpenTmp(p)
  <2>1. /\ TmpFile \in Inodes /\ tmp' = TmpFile /\ fd'[p] = TmpFile
        /\ tmp # None => tmp = TmpFile
        /\ tmp = None => Free(TmpFile)
        /\ files' = [files EXCEPT ![TmpFile] = Blank]
        /\ Writers(TmpFile) = {}
    <3>1. Writers(TmpFile) = {}
      BY <1>2, TmpFileFacts
    <3>. QED
      BY <1>2, <3>1, TmpFileFacts DEF JobTyped
  <2>2. TmpFile # None
    BY <2>1, PackAssumption
  <2>3. cache # TmpFile
    BY <2>1, <2>2 DEF NamesApart, Free
  <2>4. \A q \in Procs : ~Writer(q)
    <3>1. ASSUME NEW q \in Procs, Writer(q) PROVE FALSE
      <4>1. fd[q] = tmp /\ fd[q] # None
        BY <3>1 DEF Names, Writer
      <4>2. q \in Writers(TmpFile)
        BY <2>1, <3>1, <4>1 DEF Writers, Writer
      <4>. QED
        BY <2>1, <4>2
    <3>. QED
      BY <3>1
  <2>5. /\ cache' = cache /\ next'[p] = 1 /\ at'[p] = "wave"
    BY <1>2 DEF OpenTmp, Goto, JobTyped
  <2>6. Filled(p)'
    <3>1. \A i \in Tasks : ~(i < 1)
      BY DEF Tasks
    <3>. QED
      BY <2>5, <3>1 DEF Filled
  <2>7. cache # None => files'[cache] = files[cache]
    BY <2>1, <2>3 DEF DiskTyped
  <2>. QED
    BY <1>1, <2>1, <2>4, <2>5, <2>6, <2>7, NamesFrame
<1>3. ASSUME Writer(p), fd' = fd, cache' = cache, tmp' = tmp,
             \A f \in Inodes : f # fd[p] => files'[f] = files[f],
             Filled(p) => Filled(p)'
      PROVE  Names'
  <2>1. fd[p] = tmp /\ Filled(p) /\ fd[p] # None /\ \A q \in Procs : q # p => ~Writer(q)
    BY <1>3 DEF Names, Writer
  <2>2. cache # None => files'[cache] = files[cache]
    BY <1>3, <2>1 DEF NamesApart, DiskTyped
  <2>. QED
    BY <1>1, <1>3, <2>1, <2>2, NamesFrame
<1>4. CASE UploadTask(p)
  <2>1. /\ Uploaded(p, next[p]) /\ UNCHANGED <<fd, cache, tmp, job>>
    BY <1>4 DEF UploadTask
  <2>2. CASE fd[p] = None
    <3>1. UNCHANGED files
      BY <1>4, <2>2 DEF UploadTask
    <3>2. \A q \in Procs : q # p /\ Writer(q) => tmp' = tmp
      BY <2>1
    <3>. QED
      BY <1>1, <2>1, <2>2, <3>1, NamesFrame DEF Writer
  <2>3. CASE fd[p] # None
    <3> DEFINE e == Packed(p, next[p])
    <3>1. /\ files' = [files EXCEPT ![fd[p]].body[next[p]] = e, ![fd[p]].synced = FALSE]
          /\ table' = [table EXCEPT ![p][next[p]] = e]
      BY <1>4, <2>3 DEF UploadTask
    <3>2. at[p] = "upload" /\ Writer(p) /\ fd[p] \in Inodes /\ next[p] \in Tasks
      BY <2>1, <2>3 DEF Uploaded, Writer, Control, JobTyped
    <3>3. e # None
      BY <3>2, PackedEntry, PackAssumption
    <3> HIDE DEF e
    <3>4. next'[p] = next[p] + 1 /\ at'[p] \in {"upload", "wave", "finish", "done"}
      BY <2>1 DEF Uploaded, AfterUpload, Goto, JobTyped
    <3>5. files[fd[p]].body \in [Tasks -> Entries \cup {None}]
          /\ files[fd[p]] \in [hdr : Header \cup {None}, body : Content, table : Content, synced : BOOLEAN]
      BY <3>2 DEF DiskTyped, File, Content
    <3>6. /\ files'[fd[p]].body = [files[fd[p]].body EXCEPT ![next[p]] = e]
          /\ \A f \in Inodes : f # fd[p] => files'[f] = files[f]
      BY <3>1, <3>2, <3>5 DEF DiskTyped
    <3>7. table'[p] = [table[p] EXCEPT ![next[p]] = e] /\ table[p] \in [Tasks -> Entries \cup {None}]
      BY <3>1 DEF JobTyped, Content
    <3>8. ASSUME Filled(p) PROVE Filled(p)'
      <4>1. \A i \in Tasks : i < next[p] + 1 => i < next[p] \/ i = next[p]
        BY <3>2, BelowNext
      <4>2. \A i \in Tasks : i < next'[p] => /\ table'[p][i] # None
                                             /\ files'[fd'[p]].body[i] = table'[p][i]
        BY <2>1, <3>3, <3>4, <3>5, <3>6, <3>7, <3>8, <4>1 DEF Filled
      <4>. QED
        BY <3>4, <4>2 DEF Filled
    <3>. QED
      BY <1>3, <2>1, <3>2, <3>6, <3>8
  <2>. QED
    BY <2>2, <2>3
<1>5. ASSUME WriteTable(p) \/ WriteHeader(p) \/ Fsync(p) PROVE Names'
  <2>1. fd[p] \in Inodes /\ Writer(p) /\ UNCHANGED <<fd, cache, tmp, table, next>>
        /\ next[p] = NTasks + 1
    BY <1>5 DEF WriteTable, WriteHeader, Fsync, Writer, Control, JobTyped
  <2>2. files[fd[p]] \in [hdr : Header \cup {None}, body : Content, table : Content, synced : BOOLEAN]
    BY <2>1 DEF DiskTyped, File
  <2>3. ASSUME Filled(p) PROVE Filled(p)'
    <3>1. CASE WriteTable(p)
      <4>1. files'[fd[p]].body = files[fd[p]].body /\ files'[fd[p]].table = table[p] /\ at'[p] = "header"
        BY <2>1, <2>2, <3>1 DEF WriteTable, Goto, DiskTyped, JobTyped
      <4>. QED
        BY <2>1, <2>3, <4>1 DEF Filled
    <3>2. CASE WriteHeader(p)
      <4>1. Want(p) # None
        BY PackAssumption DEF Want, Header, JobTyped, Options, Version
      <4>2. files'[fd[p]].body = files[fd[p]].body /\ files'[fd[p]].table = files[fd[p]].table
            /\ files'[fd[p]].hdr = Want(p) /\ at'[p] = "sync" /\ at[p] = "header"
        BY <2>1, <2>2, <3>2 DEF WriteHeader, Goto, DiskTyped, JobTyped
      <4>. QED
        BY <2>1, <2>3, <4>1, <4>2 DEF Filled
    <3>3. CASE Fsync(p)
      <4>1. files'[fd[p]].body = files[fd[p]].body /\ files'[fd[p]].table = files[fd[p]].table
            /\ files'[fd[p]].hdr = files[fd[p]].hdr /\ files'[fd[p]].synced
            /\ at'[p] = "rename" /\ at[p] = "sync"
        BY <2>1, <2>2, <3>3 DEF Fsync, Goto, DiskTyped, JobTyped
      <4>. QED
        BY <2>1, <2>3, <4>1 DEF Filled
    <3>. QED
      BY <1>5, <3>1, <3>2, <3>3
  <2>4. \A f \in Inodes : f # fd[p] => files'[f] = files[f]
    BY <1>5 DEF WriteTable, WriteHeader, Fsync, DiskTyped
  <2>. QED
    BY <1>3, <2>1, <2>3, <2>4
<1>. QED
  BY <1>2, <1>4, <1>5

\* The rename gives the name to a complete file.
LEMMA NamesRenamed ==
  ASSUME TypeOK, Progress, NamesApart, Names, shared = "no", NEW p \in Procs, Rename(p)
  PROVE  Names'
<1>. JobTyped /\ DiskTyped /\ Control(p)
  BY DEF TypeOK, Progress
<1>1. \A q \in Procs : q # p => Same(q)
  BY OthersSame DEF Step, Load
<1>2. Writer(p) /\ fd[p] \in Inodes /\ next[p] = NTasks + 1 /\ at[p] = "rename"
  BY DEF Rename, Writer, Control, JobTyped
<1>3. fd[p] = tmp /\ Filled(p) /\ \A q \in Procs : q # p => ~Writer(q)
  BY <1>2 DEF Names
<1>4. cache' = tmp /\ files' = files /\ fd'[p] = None
  BY <1>2, <1>3, PackAssumption DEF Rename, Use, JobTyped
<1>5. Complete(tmp)
  <2>1. \A i \in Tasks : i < next[p]
    BY <1>2, TaskFacts DEF Tasks
  <2>2. files[tmp].body \in [Tasks -> Entries \cup {None}]
        /\ files[tmp].table \in [Tasks -> Entries \cup {None}]
    BY <1>2, <1>3 DEF DiskTyped, File, Content
  <2>3. \A i \in Tasks : files[tmp].body[i] = files[tmp].table[i] /\ files[tmp].body[i] # None
    BY <1>2, <1>3, <2>1 DEF Filled
  <2>4. files[tmp].table = files[tmp].body
    BY <2>2, <2>3
  <2>. QED
    BY <1>2, <1>3, <2>3, <2>4 DEF Filled, Complete
<1>6. Complete(cache)'
  BY <1>4, <1>5 DEF Complete
<1>7. \A q \in Procs : ~Writer(q)'
  BY <1>1, <1>3, <1>4 DEF Same, Writer
<1>. QED
  BY <1>6, <1>7 DEF Names

LEMMA NamesKept ==
  ASSUME TypeOK, Progress, NamesApart, Names, [Next]_vars PROVE Names'
<1> SUFFICES ASSUME shared' = "no" PROVE Names'
  BY DEF Names
<1>1. shared = "no"
  BY HistoryKept
<1>2. ASSUME NEW p \in Procs, Step(p) PROVE Names'
  <2>1. CASE OpenTmp(p) \/ UploadTask(p) \/ WriteTable(p) \/ WriteHeader(p) \/ Fsync(p) \/ Rename(p)
    BY <1>1, <1>2, <2>1, NamesWritten, NamesRenamed
  <2>2. CASE ~(OpenTmp(p) \/ UploadTask(p) \/ WriteTable(p) \/ WriteHeader(p) \/ Fsync(p) \/ Rename(p))
    <3>1. UNCHANGED <<cache, files>>
      BY <1>2, <2>2 DEF Step, Start, Open, Load, Stamp, OpenCache, ReadTable, ReadEntry, VerifyEntry,
         NoTmp, BlankFails, FormWave, Join, WriteFails, UploadThrows, FinishFails, Close, Kill,
         Worker, Take, PackChunk, PackThrows, disk
    <3>. QED
      BY <1>1, <1>2, <2>2, <3>1, NamesQuiet DEF Step, Load
  <2>. QED
    BY <2>1, <2>2
<1>3. CASE PowerLoss
  <2>1. UNCHANGED <<cache, tmp, fd, at, table, next>> /\ \A p \in Procs : at[p] = "idle"
    BY <1>3 DEF PowerLoss
  <2>2. \A p \in Procs : ~Writer(p)'
    BY <2>1 DEF Writer, Progress, Control
  <2>3. ASSUME cache # None PROVE Complete(cache)'
    <3>1. Complete(cache) /\ cache \in Inodes
      BY <1>1, <2>3 DEF Names, TypeOK, DiskTyped
    <3>2. files'[cache] = files[cache]
      BY <1>3, <2>3, <3>1 DEF PowerLoss, Complete
    <3>. QED
      BY <2>1, <3>1, <3>2 DEF Complete
  <2>. QED
    BY <2>1, <2>2, <2>3 DEF Names
<1>4. CASE Replace \/ UNCHANGED vars
  BY <1>1, <1>4 DEF Replace, vars, disk, Names, Writer, Filled, Complete
<1>. QED
  BY <1>2, <1>3, <1>4 DEF Next, Step

\* The name of the cache only ever leads to a complete file, as long as one
\* process at a time builds it: the rename of load_packed_weights() comes after
\* the fsync, and what a crash leaves behind is the tmp file.
THEOREM NamesCompleteFiles == Spec => []NameComplete
<1>1. Init => TypeOK /\ Progress /\ NamesApart /\ Names
  BY InitTypes, InitProgress, InitNames
<1>2. TypeOK /\ Progress /\ NamesApart /\ Names /\ [Next]_vars
        => (TypeOK /\ Progress /\ NamesApart /\ Names)'
  BY TypesKept, ProgressKept, ApartKept, NamesKept
<1>3. Names => NameComplete
  BY DEF Names, Complete, NameComplete
<1>. QED
  BY <1>1, <1>2, <1>3, PTL DEF Spec

-----------------------------------------------------------------------------
(* What files and weights are of.                                           *)

\* File f holds nothing but parts of the cache with header h, which is the one
\* everybody who may still write it would write.
Belongs(f, h) ==
  /\ files[f].hdr \in {None, h}
  /\ \A i \in Tasks : /\ files[f].body[i] \in {None, Pack(h.stamp, h.lay, i)}
                      /\ files[f].table[i] \in {None, Pack(h.stamp, h.lay, i)}

Owned(f) ==
  \E h \in Header : Belongs(f, h) /\ \A q \in Procs : Writer(q) /\ fd[q] = f => Want(q) = h

\* What process p has stamped, read, packed and uploaded is of the model it
\* mapped.
Faithful(p) ==
  /\ stamp[p] # None => stamp[p] = map[p]
  /\ Writer(p) => \A i \in Tasks : table[p][i] \in {None, Pack(stamp[p], opts[p].lay, i)}
  /\ Reader(p) => files[fd[p]].hdr = Want(p)
  /\ at[p] = "read" => \A i \in Tasks : table[p][i] = Pack(stamp[p], opts[p].lay, i)
  /\ ~opts[p].verify /\ at[p] \notin {"idle", "stamp", "open", "table", "build", "failed"} =>
       \A i \in Tasks : i < next[p] => weights[p][i] = Pack(map[p], opts[p].lay, i)

Sound == (\A f \in Inodes : Owned(f)) /\ \A p \in Procs : Faithful(p)

Contents == ~swapped /\ shared # "mixed" => Sound

LEMMA InitContents == Init => Contents
<1> SUFFICES ASSUME Init PROVE Sound
  BY DEF Contents
<1>1. \A p \in Procs : ~Writer(p) /\ ~Reader(p) /\ Faithful(p)
  BY DEF Init, Writer, Reader, Faithful
<1>2. PICK g \in {Blank} \cup {Written(lay) : lay \in Layouts} :
        \A f \in Inodes : files[f] \in {g, Blank}
  BY DEF Init
<1>3. ASSUME NEW f \in Inodes PROVE Owned(f)
  <2>1. CASE files[f] = Blank
    <3>1. [stamp |-> None, lay |-> None] \in Header
      BY DEF Header, Version
    <3>2. Belongs(f, [stamp |-> None, lay |-> None])
      BY <2>1 DEF Belongs, Blank, NoTable
    <3>. QED
      BY <1>1, <3>1, <3>2 DEF Owned
  <2>2. ASSUME NEW lay \in Layouts, files[f] = Written(lay) PROVE Owned(f)
    <3>1. [stamp |-> 1, lay |-> lay] \in Header
      BY PackAssumption DEF Header, Version, Versions
    <3>2. Belongs(f, [stamp |-> 1, lay |-> lay])
      BY <2>2 DEF Belongs, Written
    <3>. QED
      BY <1>1, <3>1, <3>2 DEF Owned
  <2>. QED
    BY <1>2, <2>1, <2>2
<1>. QED
  BY <1>1, <1>3 DEF Sound

\* Whoever writes was writing that file, and wants the same header.
LEMMA OwnedFrame ==
  ASSUME Sound, files' = files,
         \A q \in Procs : Writer(q)' => Writer(q) /\ fd'[q] = fd[q] /\ Want(q)' = Want(q)
  PROVE  \A f \in Inodes : Owned(f)'
<1> SUFFICES ASSUME NEW f \in Inodes PROVE Owned(f)'
  OBVIOUS
<1>1. PICK h \in Header : Belongs(f, h) /\ \A q \in Procs : Writer(q) /\ fd[q] = f => Want(q) = h
  BY DEF Sound, Owned
<1>2. Belongs(f, h)'
  BY <1>1 DEF Belongs
<1>3. \A q \in Procs : Writer(q)' /\ fd'[q] = f => Want(q)' = h
  BY <1>1
<1>. QED
  BY <1>2, <1>3 DEF Owned

\* A writer that puts parts of its own cache into its file.
LEMMA OwnedWrite ==
  ASSUME Sound, NEW p \in Procs, Writer(p), fd[p] \in Inodes,
         \A f \in Inodes : f # fd[p] => files'[f] = files[f],
         files'[fd[p]].hdr \in {files[fd[p]].hdr, Want(p)},
         \A i \in Tasks :
           /\ files'[fd[p]].body[i] \in {files[fd[p]].body[i], None, Pack(stamp[p], opts[p].lay, i)}
           /\ files'[fd[p]].table[i] \in {files[fd[p]].table[i], None, Pack(stamp[p], opts[p].lay, i)},
         \A q \in Procs : Writer(q)' => Writer(q) /\ fd'[q] = fd[q] /\ Want(q)' = Want(q)
  PROVE  \A f \in Inodes : Owned(f)'
<1> SUFFICES ASSUME NEW f \in Inodes PROVE Owned(f)'
  OBVIOUS
<1>1. PICK h \in Header : Belongs(f, h) /\ \A q \in Procs : Writer(q) /\ fd[q] = f => Want(q) = h
  BY DEF Sound, Owned
<1>2. Belongs(f, h)'
  <2>1. CASE f # fd[p]
    BY <1>1, <2>1 DEF Belongs
  <2>2. CASE f = fd[p]
    <3>1. h = Want(p) /\ h.stamp = stamp[p] /\ h.lay = opts[p].lay
      BY <1>1, <2>2 DEF Want
    <3>2. files'[f].hdr \in {None, h}
      BY <1>1, <2>2, <3>1 DEF Belongs
    <3>3. \A i \in Tasks : /\ files'[f].body[i] \in {None, Pack(h.stamp, h.lay, i)}
                           /\ files'[f].table[i] \in {None, Pack(h.stamp, h.lay, i)}
      BY <1>1, <2>2, <3>1 DEF Belongs
    <3>. QED
      BY <3>2, <3>3 DEF Belongs
  <2>. QED
    BY <2>1, <2>2
<1>3. \A q \in Procs : Writer(q)' /\ fd'[q] = f => Want(q)' = h
  BY <1>1
<1>. QED
  BY <1>2, <1>3 DEF Owned

\* A file emptied by OpenTmp: nobody with another header has it open.
LEMMA OwnedOpened ==
  ASSUME TypeOK, Progress, Sound, NEW p \in Procs, OpenTmp(p), shared' # "mixed"
  PROVE  \A f \in Inodes : Owned(f)'
<1>. JobTyped /\ DiskTyped
  BY DEF TypeOK
<1>1. /\ TmpFile \in Inodes /\ fd'[p] = TmpFile
      /\ files' = [files EXCEPT ![TmpFile] = Blank]
      /\ \A q \in Writers(TmpFile) : Want(q) = Want(p)
  <2>1. \A q \in Writers(TmpFile) : Want(q) = Want(p)
    BY TmpFileFacts
  <2>. QED
    BY <2>1, TmpFileFacts DEF JobTyped
<1>2. \A q \in Procs : q # p => Same(q)
  BY OthersSame DEF Step, Load
<1>3. \A q \in Procs : Want(q)' = Want(q)
  BY DEF OpenTmp, job, Want
<1>4. \A q \in Procs : q # p /\ Writer(q)' => Writer(q) /\ fd'[q] = fd[q]
  BY <1>2 DEF Same, Writer
<1>5. Want(p) \in Header
  BY DEF Want, Header, JobTyped, Options, Version
<1> SUFFICES ASSUME NEW f \in Inodes PROVE Owned(f)'
  OBVIOUS
<1>6. CASE f = TmpFile
  <2>1. files'[f] = Blank
    BY <1>1, <1>6 DEF DiskTyped
  <2>2. \A q \in Procs : Writer(q)' /\ fd'[q] = f => Want(q)' = Want(p)
    BY <1>1, <1>3, <1>4, <1>6 DEF Writer, Writers
  <2>3. \E h \in Header : Belongs(f, h)' /\ \A q \in Procs : Writer(q)' /\ fd'[q] = f => Want(q)' = h
    BY <1>5, <2>1, <2>2 DEF Belongs, Blank, NoTable
  <2>. QED
    BY <2>3 DEF Owned
<1>7. CASE f # TmpFile
  <2>1. files'[f] = files[f]
    BY <1>1, <1>7 DEF DiskTyped
  <2>2. PICK h \in Header : Belongs(f, h) /\ \A q \in Procs : Writer(q) /\ fd[q] = f => Want(q) = h
    BY DEF Sound, Owned
  <2>3. Belongs(f, h)'
    BY <2>1, <2>2 DEF Belongs
  <2>4. \A q \in Procs : Writer(q)' /\ fd'[q] = f => Want(q)' = h
    BY <1>1, <1>3, <1>4, <1>7, <2>2
  <2>. QED
    BY <2>3, <2>4 DEF Owned
<1>. QED
  BY <1>6, <1>7

\* Every file stays with one header.
LEMMA OwnedKept ==
  ASSUME TypeOK, Progress, Sound, [Next]_vars, shared' # "mixed"
  PROVE  \A f \in Inodes : Owned(f)'
<1>. JobTyped /\ DiskTyped
  BY DEF TypeOK
<1>1. ASSUME NEW p \in Procs, Step(p), ~OpenTmp(p), ~UploadTask(p),
             ~WriteTable(p), ~WriteHeader(p), ~Fsync(p)
      PROVE  files' = files /\ (Writer(p)' => Writer(p) /\ fd'[p] = fd[p] /\ Want(p)' = Want(p))
  <2>. Control(p)
    BY <1>1 DEF Progress
  <2>1. CASE Start(p)
    BY <2>1 DEF Writer, Want, Control, JobTyped, Start, Open, Goto, disk, job
  <2>2. CASE Stamp(p)
    BY <2>2 DEF Writer, Want, Control, JobTyped, Stamp, Goto, disk, job
  <2>3. CASE OpenCache(p)
    BY <2>3 DEF Writer, Want, Control, JobTyped, OpenCache, Rejected, Goto, Use, disk, job
  <2>4. CASE ReadTable(p)
    BY <2>4 DEF Writer, Want, Control, JobTyped, ReadTable, Rejected, Goto, Use, disk, job
  <2>5. CASE ReadEntry(p)
    BY <2>5 DEF Writer, Want, Control, JobTyped, ReadEntry, Goto, Use, disk, job
  <2>6. CASE VerifyEntry(p)
    BY <2>6 DEF Writer, Want, Control, JobTyped, VerifyEntry, Goto, Use, disk, job
  <2>7. CASE NoTmp(p)
    BY <2>7 DEF Writer, Want, Control, JobTyped, NoTmp, Goto, disk, job
  <2>8. CASE FormWave(p)
    BY <2>8 DEF Writer, Want, Control, JobTyped, FormWave, Goto, disk, job
  <2>9. CASE Join(p)
    BY <2>9 DEF Writer, Want, Control, JobTyped, Join, Goto, Use, disk, job
  <2>10. CASE WriteFails(p)
    BY <2>10 DEF Writer, Want, Control, JobTyped, WriteFails, Use, disk, job
  <2>11. CASE UploadThrows(p)
    BY <2>11 DEF Writer, Want, Control, JobTyped, UploadThrows, Goto, Use, disk, job
  <2>12. CASE Rename(p)
    BY <2>12 DEF Writer, Want, Control, JobTyped, Rename, Goto, Use, disk, job
  <2>13. CASE FinishFails(p)
    BY <2>13 DEF Writer, Want, Control, JobTyped, FinishFails, Goto, Use, disk, job
  <2>14. CASE Close(p)
    BY <2>14 DEF Writer, Want, Control, JobTyped, Close, Reset, Use, disk, job
  <2>15. CASE Kill(p)
    BY <2>15 DEF Writer, Want, Control, JobTyped, Kill, Reset, Use, disk, job
  <2>16. ASSUME NEW t \in Threads, Worker(p, t)
        PROVE  files' = files /\ (Writer(p)' => Writer(p) /\ fd'[p] = fd[p] /\ Want(p)' = Want(p))
    BY <2>16 DEF Writer, Want, Worker, Take, PackChunk, PackThrows, disk, job
  <2>17. CASE BlankFails(p)
    BY <2>17 DEF Writer, Want, Control, JobTyped, BlankFails, Use, disk, job
  <2>. QED
    BY <1>1, <2>1, <2>2, <2>3, <2>4, <2>5, <2>6, <2>7, <2>8, <2>9, <2>10, <2>11, <2>12, <2>13, <2>14, <2>15, <2>16, <2>17 DEF Step, Load
<1>2. ASSUME NEW p \in Procs, Step(p), NEW q \in Procs, q # p, Writer(q)'
      PROVE  Writer(q) /\ fd'[q] = fd[q] /\ Want(q)' = Want(q)
  BY <1>2, OthersSame DEF Same, Writer, Want
<1>3. ASSUME NEW p \in Procs, UploadTask(p) \/ WriteTable(p) \/ WriteHeader(p) \/ Fsync(p)
      PROVE  \A f \in Inodes : Owned(f)'
  <2>1. Step(p) /\ UNCHANGED <<fd, job>> /\ Control(p) /\ Faithful(p)
    BY <1>3 DEF Step, Load, UploadTask, WriteTable, WriteHeader, Fsync, Progress, Sound
  <2>2. \A q \in Procs : Writer(q)' => Writer(q) /\ fd'[q] = fd[q] /\ Want(q)' = Want(q)
    <3>1. Writer(p)' => Writer(p)
      BY <1>3, <2>1 DEF Writer, UploadTask, Uploaded, WriteTable, WriteHeader, Fsync
    <3>2. \A q \in Procs : Want(q)' = Want(q)
      BY <2>1 DEF Want, job
    <3>. QED
      BY <1>2, <2>1, <3>1, <3>2
  <2>3. CASE fd[p] = None
    <3>1. files' = files
      BY <1>3, <2>1, <2>3 DEF UploadTask, WriteTable, WriteHeader, Fsync, Control
    <3>. QED
      BY <2>2, <3>1, OwnedFrame
  <2>4. CASE fd[p] # None
    <3>1. Writer(p) /\ fd[p] \in Inodes
      BY <1>3, <2>4 DEF Writer, UploadTask, Uploaded, WriteTable, WriteHeader, Fsync, JobTyped
    <3>2. files[fd[p]] \in [hdr : Header \cup {None}, body : Content, table : Content, synced : BOOLEAN]
      BY <3>1 DEF DiskTyped, File
    <3>3. \A f \in Inodes : f # fd[p] => files'[f] = files[f]
      BY <1>3 DEF UploadTask, WriteTable, WriteHeader, Fsync, DiskTyped
    <3>4. CASE UploadTask(p)
      <4> DEFINE i == next[p]
                 e == Packed(p, i)
      <4>1. at[p] = "upload" /\ i \in Tasks /\ Uploading(p)
        BY <3>4 DEF UploadTask, Uploaded, Progress, Control, Waves
      <4>2. e = Pack(stamp[p], opts[p].lay, i)
        BY <2>1, <2>4, <4>1, PackedWhole DEF Faithful, Control
      <4>3. files' = [files EXCEPT ![fd[p]].body[i] = e, ![fd[p]].synced = FALSE]
        BY <2>4, <3>4 DEF UploadTask
      <4> HIDE DEF e
      <4>4. /\ files'[fd[p]].hdr = files[fd[p]].hdr /\ files'[fd[p]].table = files[fd[p]].table
            /\ files'[fd[p]].body = [files[fd[p]].body EXCEPT ![i] = e]
        BY <3>1, <3>2, <4>3 DEF DiskTyped
      <4>5. \A j \in Tasks : files'[fd[p]].body[j] \in {files[fd[p]].body[j], None, Pack(stamp[p], opts[p].lay, j)}
        BY <3>2, <4>1, <4>2, <4>4 DEF Content
      <4>. QED
        BY <2>2, <3>1, <3>3, <4>4, <4>5, OwnedWrite
    <3>5. CASE WriteTable(p)
      <4>1. /\ files'[fd[p]].hdr = files[fd[p]].hdr /\ files'[fd[p]].body = files[fd[p]].body
            /\ files'[fd[p]].table = table[p]
        BY <3>1, <3>2, <3>5 DEF WriteTable, DiskTyped
      <4>2. \A i \in Tasks : table[p][i] \in {None, Pack(stamp[p], opts[p].lay, i)}
        BY <2>1, <3>1 DEF Faithful
      <4>. QED
        BY <2>2, <3>1, <3>3, <4>1, <4>2, OwnedWrite
    <3>6. CASE WriteHeader(p)
      <4>1. /\ files'[fd[p]].hdr = Want(p) /\ files'[fd[p]].body = files[fd[p]].body
            /\ files'[fd[p]].table = files[fd[p]].table
        BY <3>1, <3>2, <3>6 DEF WriteHeader, DiskTyped
      <4>. QED
        BY <2>2, <3>1, <3>3, <4>1, OwnedWrite
    <3>7. CASE Fsync(p)
      <4>1. /\ files'[fd[p]].hdr = files[fd[p]].hdr /\ files'[fd[p]].body = files[fd[p]].body
            /\ files'[fd[p]].table = files[fd[p]].table
        BY <3>1, <3>2, <3>7 DEF Fsync, DiskTyped
      <4>. QED
        BY <2>2, <3>1, <3>3, <4>1, OwnedWrite
    <3>. QED
      BY <1>3, <3>4, <3>5, <3>6, <3>7
  <2>. QED
    BY <2>3, <2>4
<1>4. ASSUME NEW p \in Procs, Step(p) PROVE \A f \in Inodes : Owned(f)'
  <2>1. CASE OpenTmp(p)
    BY <2>1, OwnedOpened
  <2>2. CASE UploadTask(p) \/ WriteTable(p) \/ WriteHeader(p) \/ Fsync(p)
    BY <1>3, <2>2
  <2>3. CASE ~(OpenTmp(p) \/ UploadTask(p) \/ WriteTable(p) \/ WriteHeader(p) \/ Fsync(p))
    <3>1. files' = files
          /\ \A q \in Procs : Writer(q)' => Writer(q) /\ fd'[q] = fd[q] /\ Want(q)' = Want(q)
      BY <1>1, <1>2, <1>4, <2>3
    <3>. QED
      BY <3>1, OwnedFrame
  <2>. QED
    BY <2>1, <2>2, <2>3
<1>5. CASE PowerLoss
  <2>1. \A q \in Procs : ~Writer(q)'
    BY <1>5 DEF PowerLoss, Writer, Progress, Control
  <2>2. ASSUME NEW f \in Inodes PROVE Owned(f)'
    <3>1. PICK h \in Header : Belongs(f, h)
      BY DEF Sound, Owned
    <3>2. /\ files'[f].hdr \in {files[f].hdr, None}
          /\ \A i \in Tasks : /\ files'[f].body[i] \in {files[f].body[i], None}
                              /\ files'[f].table[i] \in {files[f].table[i], None}
      <4>1. Blank.hdr = None /\ \A i \in Tasks : Blank.body[i] = None /\ Blank.table[i] = None
        BY DEF Blank, NoTable
      <4>2. ASSUME NEW g \in Survivors(files[f])
            PROVE  /\ g.hdr \in {files[f].hdr, None}
                   /\ \A i \in Tasks : /\ g.body[i] \in {files[f].body[i], None}
                                       /\ g.table[i] \in {files[f].table[i], None}
        BY DEF Survivors, NoTable
      <4>3. files'[f] \in {Blank, files[f]} \cup Survivors(files[f])
        BY <1>5 DEF PowerLoss
      <4>. QED
        BY <4>1, <4>2, <4>3
    <3>3. Belongs(f, h)'
      BY <3>1, <3>2 DEF Belongs
    <3>. QED
      BY <2>1, <3>1, <3>3 DEF Owned
  <2>. QED
    BY <2>2
<1>6. CASE Replace \/ UNCHANGED vars
  BY <1>6, OwnedFrame DEF Replace, vars, disk, job, Writer, Want
<1>. QED
  BY <1>4, <1>5, <1>6 DEF Next, Step

\* The header of a file somebody reads stays: the file is not emptied, and a
\* writer it still has writes the same one.
LEMMA HeaderStays ==
  ASSUME TypeOK, Progress, NamesApart, Sound, NEW p \in Procs, Step(p), NEW q \in Procs, Reader(q)
  PROVE  files'[fd[q]].hdr = files[fd[q]].hdr
<1>. JobTyped /\ DiskTyped
  BY DEF TypeOK
<1>1. fd[q] \in Inodes /\ fd[q] # None
  BY DEF Reader, Progress, Control, JobTyped
<1>2. files[fd[q]] \in [hdr : Header \cup {None}, body : Content, table : Content, synced : BOOLEAN]
  BY <1>1 DEF DiskTyped, File
<1>3. CASE OpenTmp(p)
  <2>1. fd[q] # TmpFile
    BY <1>1, <1>3, TmpFileFacts DEF NamesApart, Free
  <2>2. files' = [files EXCEPT ![TmpFile] = Blank]
    BY <1>3, TmpFileFacts
  <2>. QED
    BY <1>1, <2>1, <2>2 DEF DiskTyped
<1>4. CASE UploadTask(p)
  <2>1. CASE fd[p] = None
    BY <1>4, <2>1 DEF UploadTask
  <2>2. CASE fd[p] # None
    <3> DEFINE e == Packed(p, next[p])
    <3>1. files' = [files EXCEPT ![fd[p]].body[next[p]] = e, ![fd[p]].synced = FALSE]
      BY <1>4, <2>2 DEF UploadTask
    <3> HIDE DEF e
    <3>. QED
      BY <1>1, <1>2, <3>1 DEF DiskTyped
  <2>. QED
    BY <2>1, <2>2
<1>5. CASE WriteTable(p)
  BY <1>1, <1>2, <1>5 DEF WriteTable, DiskTyped
<1>6. CASE Fsync(p)
  BY <1>1, <1>2, <1>6 DEF Fsync, DiskTyped
<1>7. CASE WriteHeader(p)
  <2>1. files[fd[q]].hdr = Want(q) /\ Want(q) # None
    <3>1. Want(q) \in Header
      BY DEF Want, Header, JobTyped, Options, Version
    <3>. QED
      BY <3>1, PackAssumption DEF Sound, Faithful
  <2>2. PICK h \in Header : Belongs(fd[q], h) /\ \A r \in Procs : Writer(r) /\ fd[r] = fd[q] => Want(r) = h
    BY <1>1 DEF Sound, Owned
  <2>3. fd[p] = fd[q] => Want(p) = Want(q)
    BY <1>1, <1>7, <2>1, <2>2 DEF Belongs, Writer, WriteHeader
  <2>. QED
    BY <1>1, <1>2, <1>7, <2>1, <2>3 DEF WriteHeader, DiskTyped
<1>8. CASE ~(OpenTmp(p) \/ UploadTask(p) \/ WriteTable(p) \/ WriteHeader(p) \/ Fsync(p))
  <2>1. files' = files
    BY <1>8 DEF Step, Start, Open, Load, Stamp, OpenCache, ReadTable, ReadEntry, VerifyEntry,
       NoTmp, BlankFails, FormWave, Join, WriteFails, UploadThrows, Rename, FinishFails, Close, Kill,
       Worker, Take, PackChunk, PackThrows, disk
  <2>. QED
    BY <2>1
<1>. QED
  BY <1>3, <1>4, <1>5, <1>6, <1>7, <1>8

\* The process that takes a step of the fast path stays with its model.
LEMMA FastFaithful ==
  ASSUME TypeOK, Progress, Sound, ~swapped', NEW p \in Procs,
         Start(p) \/ Stamp(p) \/ OpenCache(p) \/ ReadTable(p) \/ ReadEntry(p) \/ VerifyEntry(p)
  PROVE  Faithful(p)'
<1>. JobTyped /\ WaveTyped /\ Control(p) /\ Faithful(p)
  BY DEF TypeOK, Progress, Sound
<1>1. CASE Start(p)
  BY <1>1 DEF Start, Open, Goto, JobTyped, Control, Faithful, Writer, Reader
<1>2. CASE Stamp(p)
  BY <1>2 DEF Stamp, Goto, JobTyped, Control, Faithful, Writer, Reader
<1>3. CASE OpenCache(p)
  <2>1. UNCHANGED <<files, job, table>>
    BY <1>3 DEF OpenCache, disk
  <2>2. \/ at'[p] = "table" /\ fd'[p] = cache /\ files[cache].hdr = Want(p)
        \/ at'[p] \in {"failed", "build"} /\ fd'[p] = None
    BY <1>3 DEF OpenCache, Rejected, Goto, Use, JobTyped, Control
  <2>. QED
    BY <2>1, <2>2 DEF Faithful, Writer, Reader, Want, job
<1>4. CASE ReadTable(p)
  <2>1. UNCHANGED <<files, job, weights>> /\ at[p] = "table" /\ fd[p] \in Inodes
    BY <1>4 DEF ReadTable, disk, Control, JobTyped
  <2>2. CASE at'[p] = "read"
    <3>1. table'[p] = files[fd[p]].table /\ next'[p] = 1 /\ fd'[p] = fd[p]
          /\ \A i \in Tasks : files[fd[p]].table[i] # None
      BY <1>4, <2>2 DEF ReadTable, Rejected, Goto, JobTyped
    <3>2. PICK h \in Header : Belongs(fd[p], h)
      BY <2>1 DEF Sound, Owned
    <3>3. files[fd[p]].hdr = Want(p) /\ Want(p) # None
      BY <2>1, PackAssumption DEF Faithful, Reader, Want, Header, JobTyped, Options, Version
    <3>4. h = Want(p) /\ h.stamp = stamp[p] /\ h.lay = opts[p].lay
      BY <3>2, <3>3 DEF Belongs, Want
    <3>5. \A i \in Tasks : table'[p][i] = Pack(stamp[p], opts[p].lay, i)
      BY <3>1, <3>2, <3>4 DEF Belongs
    <3>6. \A i \in Tasks : ~(i < next'[p])
      BY <3>1 DEF Tasks
    <3>. QED
      BY <2>1, <2>2, <3>1, <3>3, <3>5, <3>6 DEF Faithful, Writer, Reader, Want, job
  <2>3. CASE at'[p] # "read"
    <3>1. at'[p] \in {"failed", "build"} /\ fd'[p] = None
      BY <1>4, <2>3 DEF ReadTable, Rejected, Goto, Use, JobTyped
    <3>. QED
      BY <2>1, <3>1 DEF Faithful, Writer, Reader, job
  <2>. QED
    BY <2>2, <2>3
<1>5. CASE ReadEntry(p)
  <2>1. UNCHANGED <<files, job, table>> /\ at[p] = "read" /\ fd[p] \in Inodes /\ next[p] \in Tasks
    BY <1>5 DEF ReadEntry, disk, Control, JobTyped
  <2>2. stamp[p] = map[p]
    BY <2>1 DEF Control, Faithful
  <2>3. CASE at'[p] = "build"
    <3>1. fd'[p] = None
      BY <1>5, <2>3 DEF ReadEntry, Goto, Use, JobTyped
    <3>. QED
      BY <2>1, <2>3, <3>1 DEF Faithful, Writer, Reader, job
  <2>4. CASE at'[p] # "build"
    <3> DEFINE i == next[p]
               e == files[fd[p]].body[i]
    <3>1. /\ e = table[p][i] /\ weights' = [weights EXCEPT ![p][i] = e]
          /\ next' = [next EXCEPT ![p] = @ + 1]
          /\ (at'[p] = "read" /\ fd'[p] = fd[p]) \/ (at'[p] = "done" /\ fd'[p] = None)
      <4>1. e # None /\ e = table[p][i]
        BY <1>5, <2>4 DEF ReadEntry, Goto, JobTyped
      <4>2. weights' = [weights EXCEPT ![p][i] = e]
        BY <1>5, <4>1 DEF ReadEntry
      <4>3. next' = [next EXCEPT ![p] = @ + 1]
        BY <1>5, <4>1 DEF ReadEntry
      <4>4. IF i = NTasks THEN Goto(p, "done") /\ Use(p, None) ELSE UNCHANGED <<at, fd>>
        BY <1>5, <4>1 DEF ReadEntry
      <4>5. (at'[p] = "read" /\ fd'[p] = fd[p]) \/ (at'[p] = "done" /\ fd'[p] = None)
        BY <2>1, <4>4 DEF Goto, Use, JobTyped
      <4>. QED
        BY <4>1, <4>2, <4>3, <4>5
    <3>2. e = Pack(map[p], opts[p].lay, i)
      BY <2>1, <2>2, <3>1 DEF Faithful
    <3> HIDE DEF e
    <3>3. weights'[p] = [weights[p] EXCEPT ![i] = e] /\ weights[p] \in Content /\ next'[p] = i + 1
      BY <3>1 DEF WaveTyped, JobTyped
    <3>4. \A j \in Tasks : j < i + 1 => j < i \/ j = i
      BY <2>1, BelowNext
    <3>5. ~opts[p].verify => \A j \in Tasks : j < next'[p] => weights'[p][j] = Pack(map[p], opts[p].lay, j)
      BY <2>1, <3>2, <3>3, <3>4 DEF Faithful, Content
    <3>. QED
      BY <2>1, <3>1, <3>5 DEF Faithful, Writer, Reader, Want, job
  <2>. QED
    BY <2>3, <2>4
<1>6. CASE VerifyEntry(p)
  <2>1. UNCHANGED <<files, job, table>> /\ at[p] = "read" /\ opts[p].verify
    BY <1>6 DEF VerifyEntry, disk
  <2>2. \/ at'[p] = "read" /\ fd'[p] = fd[p]
        \/ at'[p] \in {"done", "failed"} /\ fd'[p] = None
    BY <1>6 DEF VerifyEntry, Goto, Use, JobTyped
  <2>. QED
    BY <2>1, <2>2 DEF Faithful, Writer, Reader, Want, job
<1>. QED
  BY <1>1, <1>2, <1>3, <1>4, <1>5, <1>6

\* And the one that takes a step of the slow path.
LEMMA SlowFaithful ==
  ASSUME TypeOK, Progress, Sound, NEW p \in Procs, Step(p),
         ~(Start(p) \/ Stamp(p) \/ OpenCache(p) \/ ReadTable(p) \/ ReadEntry(p) \/ VerifyEntry(p))
  PROVE  Faithful(p)'
<1>. JobTyped /\ WaveTyped /\ Control(p) /\ Faithful(p)
  BY DEF TypeOK, Progress, Sound
<1>1. ASSUME UNCHANGED job, at'[p] \in {"failed", "build"}, fd'[p] = None PROVE Faithful(p)'
  BY <1>1 DEF Faithful, Writer, Reader, job
<1>2. ASSUME UNCHANGED <<job, next, weights>>, table'[p] = table[p],
             at[p] \in {"wave", "pack", "upload", "finish", "header", "sync", "rename"},
             at'[p] \in {"wave", "pack", "upload", "finish", "header", "sync", "rename", "done"},
             fd'[p] = None \/ fd'[p] = fd[p]
      PROVE  Faithful(p)'
  BY <1>2 DEF Faithful, Writer, Reader, job
<1>3. ASSUME OpenTmp(p) \/ NoTmp(p) PROVE Faithful(p)'
  <2>1. UNCHANGED job /\ next'[p] = 1 /\ at'[p] = "wave" /\ at[p] = "build" /\ fd[p] = None
    BY <1>3 DEF OpenTmp, NoTmp, Goto, JobTyped, Control
  <2>2. \A i \in Tasks : ~(i < 1)
    BY DEF Tasks
  <2>3. fd'[p] = None \/ \A i \in Tasks : table'[p][i] = None
    BY <1>3, <2>1 DEF OpenTmp, NoTmp, NoTable, JobTyped
  <2>. QED
    BY <2>1, <2>2, <2>3 DEF Faithful, Writer, Reader, job
<1>4. ASSUME FormWave(p) \/ Join(p) PROVE Faithful(p)'
  BY <1>1, <1>2, <1>4 DEF FormWave, Join, Goto, Use, JobTyped
<1>5. ASSUME UploadTask(p) \/ WriteFails(p) PROVE Faithful(p)'
  <2> DEFINE i == next[p]
             e == Pack(map[p], opts[p].lay, i)
  <2>1. /\ Uploaded(p, i) /\ UNCHANGED job
        /\ fd' = fd \/ fd' = [fd EXCEPT ![p] = None]
    BY <1>5 DEF UploadTask, WriteFails, Use
  <2>2. fd' \in [Procs -> Inodes \cup {None}] /\ (fd'[p] = None \/ fd'[p] = fd[p])
    BY <2>1 DEF JobTyped
  <2>3. /\ at[p] = "upload" /\ i \in Tasks /\ next'[p] = i + 1
        /\ weights' = [weights EXCEPT ![p][i] = e]
        /\ at'[p] \in {"upload", "wave", "finish", "done"}
    BY <2>1, <2>2, UploadedFacts DEF job, Uploaded
  <2>4. Packed(p, i) = e
    BY <2>3, PackedWhole DEF Progress, Waves
  <2>5. fd'[p] # None => table' = [table EXCEPT ![p][i] = e] /\ stamp[p] = map[p]
    <3>1. ASSUME fd'[p] # None PROVE table' = [table EXCEPT ![p][i] = e] /\ stamp[p] = map[p]
      <4>1. UploadTask(p) /\ fd[p] # None
        BY <1>5, <2>2, <3>1 DEF WriteFails, Use, JobTyped
      <4>2. table' = [table EXCEPT ![p][i] = Packed(p, i)]
        BY <4>1 DEF UploadTask
      <4>. QED
        BY <2>4, <4>1, <4>2 DEF Control, Faithful
    <3>. QED
      BY <3>1
  <2> HIDE DEF e
  <2>6. \A j \in Tasks : j < i + 1 => j < i \/ j = i
    BY <2>3, BelowNext
  <2>7. weights'[p] = [weights[p] EXCEPT ![i] = e] /\ weights[p] \in Content
    BY <2>3 DEF WaveTyped
  <2>8. ~opts[p].verify => \A j \in Tasks : j < next'[p] => weights'[p][j] = Pack(map[p], opts[p].lay, j)
    BY <2>3, <2>6, <2>7 DEF Faithful, Content, e
  <2>9. fd'[p] # None => \A j \in Tasks : table'[p][j] \in {None, Pack(stamp[p], opts[p].lay, j)}
    <3>1. ASSUME fd'[p] # None
          PROVE  \A j \in Tasks : table'[p][j] \in {None, Pack(stamp[p], opts[p].lay, j)}
      <4>1. table'[p] = [table[p] EXCEPT ![i] = e] /\ table[p] \in Content
        BY <2>5, <3>1 DEF JobTyped
      <4>2. \A j \in Tasks : table[p][j] \in {None, Pack(stamp[p], opts[p].lay, j)}
        BY <2>2, <2>3, <3>1 DEF Faithful, Writer
      <4>3. e = Pack(stamp[p], opts[p].lay, i)
        BY <2>5, <3>1 DEF e
      <4>. QED
        BY <2>3, <4>1, <4>2, <4>3 DEF Content
    <3>. QED
      BY <3>1
  <2>. QED
    BY <2>1, <2>3, <2>8, <2>9 DEF Faithful, Writer, Reader, job
<1>6. CASE UploadThrows(p)
  BY <1>1, <1>6 DEF UploadThrows, Goto, Use, JobTyped
<1>7. ASSUME WriteTable(p) \/ WriteHeader(p) \/ Fsync(p) PROVE Faithful(p)'
  BY <1>2, <1>7 DEF WriteTable, WriteHeader, Fsync, Goto, JobTyped
<1>8. ASSUME Rename(p) \/ FinishFails(p) PROVE Faithful(p)'
  BY <1>2, <1>8 DEF Rename, FinishFails, Goto, Use, JobTyped
<1>9. ASSUME Close(p) \/ Kill(p) PROVE Faithful(p)'
  BY <1>9 DEF Close, Kill, Reset, Goto, Use, JobTyped, Faithful, Writer, Reader
<1>10. ASSUME NEW t \in Threads, Worker(p, t) PROVE Faithful(p)'
  BY <1>2, <1>10 DEF Worker, Take, PackChunk, PackThrows
<1>11. ASSUME BlankFails(p) PROVE Faithful(p)'
  BY <1>2, <1>11 DEF BlankFails, Use, JobTyped
<1>. QED
  BY <1>3, <1>4, <1>5, <1>6, <1>7, <1>8, <1>9, <1>10, <1>11 DEF Step, Load

LEMMA ContentsKept ==
  ASSUME TypeOK, Progress, NamesApart, Contents, [Next]_vars PROVE Contents'
<1> SUFFICES ASSUME ~swapped', shared' # "mixed" PROVE Sound'
  BY DEF Contents
<1>1. Sound
  BY HistoryKept DEF Contents
<1>2. \A f \in Inodes : Owned(f)'
  BY <1>1, OwnedKept
<1>3. ASSUME NEW q \in Procs, Same(q), Reader(q) => files'[fd[q]].hdr = files[fd[q]].hdr
      PROVE  Faithful(q)'
  BY <1>1, <1>3 DEF Sound, Faithful, Same, Writer, Reader, Want
<1>4. ASSUME NEW p \in Procs, Step(p) PROVE Sound'
  <2>1. Faithful(p)'
    BY <1>1, <1>4, FastFaithful, SlowFaithful
  <2>2. ASSUME NEW q \in Procs, q # p PROVE Faithful(q)'
    BY <1>1, <1>3, <1>4, <2>2, OthersSame, HeaderStays
  <2>. QED
    BY <1>2, <2>1, <2>2 DEF Sound
<1>5. CASE PowerLoss \/ Replace
  <2>1. \A q \in Procs : Same(q)
    BY <1>5 DEF PowerLoss, Replace, Same, job, wave
  <2>2. \A q \in Procs : Reader(q) => files' = files
    BY <1>5 DEF PowerLoss, Replace, Reader, disk
  <2>. QED
    BY <1>2, <1>3, <2>1, <2>2 DEF Sound
<1>6. CASE UNCHANGED vars
  <2>1. files' = files /\ \A q \in Procs : Same(q)
    BY <1>6 DEF vars, disk, job, wave, Same
  <2>. QED
    BY <1>2, <1>3, <2>1 DEF Sound
<1>. QED
  BY <1>4, <1>5, <1>6 DEF Next, Step

\* Whatever is killed, lost or written by others, load_packed_weights() ends
\* with the weights of the model it mapped, unless the model's file was
\* exchanged between mapping and stamping, or two builds with different headers
\* met in one tmp file.
THEOREM LoadsItsModel == Spec => []LoadsOwnModel
<1>1. Init => TypeOK /\ Progress /\ NamesApart /\ Contents
  BY InitTypes, InitProgress, InitNames, InitContents
<1>2. TypeOK /\ Progress /\ NamesApart /\ Contents /\ [Next]_vars
        => (TypeOK /\ Progress /\ NamesApart /\ Contents)'
  BY TypesKept, ProgressKept, ApartKept, ContentsKept
<1>3. Progress /\ Contents => LoadsOwnModel
  <2>1. \A i \in Tasks : i < NTasks + 1
    BY TaskFacts DEF Tasks
  <2>. QED
    BY <2>1 DEF Progress, Control, Contents, Sound, Faithful, LoadsOwnModel, RunsItsModel
<1>. QED
  BY <1>1, <1>2, <1>3, PTL DEF Spec
=============================================================================
