------------------------------ MODULE PackCache ------------------------------
(***************************************************************************)
(* load_packed_weights() and --verify-cache (examples/llm/decode.cpp): the  *)
(* packed weights of a model, packed by threads in waves and kept in        *)
(* "<model>.xpack", as several processes see them that load the same model  *)
(* while its file may be replaced, a process killed or the power lost.      *)
(*                                                                         *)
(* The cache exists so that weights need not be packed again, and must      *)
(* never make a session run with weights of something else.  Bytes are      *)
(* abstracted to where they came from: a packed part is the version of the  *)
(* model it was packed from, a stamp the version it was taken of, and the   *)
(* hash of an entry the entry itself.                                       *)
(***************************************************************************)
EXTENDS Integers, FiniteSets

CONSTANTS
  Procs,       \* processes with the same model and cache path
  Threads,     \* packer threads of each
  Layouts,     \* matvec layouts whose entries have the same sizes
  Inodes,      \* files beside the model
  NTasks,      \* tensors to pack
  Parts,       \* per tensor: the chunks it is packed in
  Bytes, Cap,  \* packed size per tensor, pack_wave_bytes
  Modes,       \* --no-pack-cache, --repack, --verify-cache or none: how to load
  None, Returned,
  MaxVersion,  \* bound on the versions of the model
  MaxLoads,    \* bound on the loads
  MaxFaults    \* bound on calls that fail, killed processes and power losses

Tasks    == 1..NTasks
Versions == 1..MaxVersion
Chunks   == UNION {{i} \X (1..Parts[i]) : i \in Tasks}

\* Where the wave that starts with tensor a ends: at the last tensor that fits
\* under the cap, but not before the first.
Before == [i \in 0..NTasks |-> Cardinality(UNION {{j} \X (1..Bytes[j]) : j \in 1..i})]

Fits(a, b)    == b = a \/ Before[b] - Before[a - 1] <= Cap
WaveEnd(a)    == CHOOSE b \in a..NTasks : Fits(a, b) /\ \A c \in (b + 1)..NTasks : ~Fits(a, c)

\* What files hold: headers, and per tensor its layout and each chunk's version.
Version  == Versions \cup {None}
Header   == [stamp : Version, lay : Layouts \cup {None}]
Entry(i) == [lay : Layouts \cup {None}, part : [1..Parts[i] -> Version]]
Entries  == UNION {Entry(i) : i \in Tasks}

ASSUME PackAssumption ==
  /\ NTasks \in Nat \ {0} /\ MaxVersion \in Nat \ {0}
  /\ Parts \in [Tasks -> Nat \ {0}]
  /\ Bytes \in [Tasks -> Nat] /\ Cap \in Nat
  /\ None \notin Versions \cup Inodes \cup Chunks \cup {Returned} /\ Returned \notin Chunks
  /\ None \notin Header \cup Entries
  /\ Threads # {} /\ Inodes # {}
  /\ Modes \subseteq [use : BOOLEAN, force : BOOLEAN, verify : BOOLEAN]
  /\ MaxLoads \in Nat /\ MaxFaults \in Nat

\* However many files are open or named, a new one has an inode of its own.
ASSUME InodeAssumption ==
  \A fs \in [Procs -> Inodes \cup {None}], f \in Inodes \cup {None} :
    (\E p \in Procs : fs[p] = None)
      => \E g \in Inodes : g # f /\ \A q \in Procs : fs[q] # g

VARIABLES
  \* The file system.
  model,      \* the version of the model at its path
  cache, tmp, \* the files named <model>.xpack and <model>.xpack.tmp
  files,      \* what every file holds
  \* Per process.
  at,         \* where load_packed_weights() is
  opts,       \* layout, use_pack_cache, force_repack, --verify-cache
  map,        \* the version of the model its mapping shows
  stamp,      \* want's stamp, None if the model could not be stamped
  fd,         \* the cache file it reads, or the tmp file it writes
  table,      \* the entry table read, or the one it is building
  next,       \* the tensor at hand
  host,       \* the PackedHosts: the version every chunk was packed from
  left,       \* chunks of the wave no thread has taken
  busy,       \* per thread: the chunk it packs, None between two, or Returned
  err,        \* a thread has thrown
  weights,    \* the packed weights on the GPU
  \* Bounds and history.
  loads, faults,
  swapped,    \* some process stamped another version than it had opened
  shared      \* two processes had one tmp file open: "no", "same" (with the
              \* same header to write) or "mixed"

disk    == <<cache, tmp, files>>
wave    == <<host, left, busy, err>>
history == <<loads, faults, swapped, shared>>
job     == <<opts, map, stamp>>
vars    == <<model, disk, at, job, fd, table, next, wave, weights, history>>

-----------------------------------------------------------------------------
\* What is packed of tensor i in process p.
Packed(p, i) == [lay |-> opts[p].lay, part |-> [c \in 1..Parts[i] |-> host[p][<<i, c>>]]]

\* Tensor i of version v in a layout, complete.
Pack(v, lay, i) == [lay |-> lay, part |-> [c \in 1..Parts[i] |-> v]]

NoTable == [i \in Tasks |-> None]
Blank   == [hdr |-> None, body |-> NoTable, table |-> NoTable, synced |-> FALSE]
NoHost  == [c \in Chunks |-> None]
NoOpts  == [lay |-> None, use |-> FALSE, force |-> FALSE, verify |-> FALSE]

Live(p)   == at[p] \notin {"idle", "done", "failed"}
CacheEnabled(p) == opts[p].use /\ stamp[p] # None

\* The header p writes and expects.
Want(p) == [stamp |-> stamp[p], lay |-> opts[p].lay]

\* The chunks of the wave that starts with tensor a.
WaveChunks(a) == {c \in Chunks : c[1] \in a..WaveEnd(a)}

Fault   == faults < MaxFaults /\ faults' = faults + 1

Goto(p, where) == at' = [at EXCEPT ![p] = where]
Use(p, file)   == fd' = [fd EXCEPT ![p] = file]

\* A cache that an earlier load of version 1 left.
Written(lay) ==
  LET all == [i \in Tasks |-> Pack(1, lay, i)]
  IN  [hdr |-> [stamp |-> 1, lay |-> lay], body |-> all, table |-> all, synced |-> TRUE]

Init ==
  /\ model = 1 /\ tmp = None
  /\ \E g \in {Blank} \cup {Written(lay) : lay \in Layouts} :
       LET f == CHOOSE f \in Inodes : TRUE
       IN  /\ files = [h \in Inodes |-> IF h = f THEN g ELSE Blank]
           /\ cache = IF g = Blank THEN None ELSE f
  /\ at = [p \in Procs |-> "idle"] /\ opts = [p \in Procs |-> NoOpts]
  /\ map = [p \in Procs |-> 1] /\ stamp = [p \in Procs |-> None]
  /\ fd = [p \in Procs |-> None] /\ table = [p \in Procs |-> NoTable]
  /\ next = [p \in Procs |-> 1] /\ host = [p \in Procs |-> NoHost]
  /\ left = [p \in Procs |-> {}] /\ busy = [p \in Procs |-> [t \in Threads |-> Returned]]
  /\ err = [p \in Procs |-> FALSE] /\ weights = [p \in Procs |-> NoTable]
  /\ loads = 0 /\ faults = 0 /\ swapped = FALSE /\ shared = "no"

-----------------------------------------------------------------------------
(* Starting a load.                                                         *)

\* The session maps the model; load_packed_weights() comes later.
Open(p, lay, m) ==
  /\ at[p] = "idle" /\ loads < MaxLoads
  /\ loads' = loads + 1
  /\ opts' = [opts EXCEPT ![p] = [lay |-> lay, use |-> m.use, force |-> m.force, verify |-> m.verify]]
  /\ map' = [map EXCEPT ![p] = model]
  /\ Goto(p, "stamp")
  /\ UNCHANGED <<model, disk, stamp, fd, table, next, wave, weights, faults, swapped, shared>>

\* expected_header(): the stamp of the file now at the path, or no caching.
Stamp(p) ==
  /\ at[p] = "stamp"
  /\ \E s \in {model, None} :
       /\ IF s = None THEN Fault ELSE UNCHANGED faults
       /\ stamp' = [stamp EXCEPT ![p] = s]
       /\ swapped' = (swapped \/ s \notin {map[p], None})
       /\ Goto(p, IF opts[p].verify THEN IF s = None THEN "failed" ELSE "open"
                  ELSE IF opts[p].use /\ s # None /\ ~opts[p].force THEN "open" ELSE "build")
  /\ UNCHANGED <<model, disk, opts, map, fd, table, next, wave, weights, loads, shared>>

\* Where a cache that does not match leads.
Rejected(p) == IF opts[p].verify THEN "failed" ELSE "build"

-----------------------------------------------------------------------------
(* The fast path.                                                           *)

\* The table closes the file.
Closed(f) == \E i \in Tasks : files[f].table[i] # None

\* Mutant of OpenCache: the layout is not compared.
OpenCacheAnyLayout(p) ==
  /\ at[p] = "open"
  /\ IF /\ cache # None /\ Closed(cache) /\ files[cache].hdr # None
        /\ files[cache].hdr.stamp = stamp[p]
     THEN Use(p, cache) /\ Goto(p, "table")
     ELSE Goto(p, Rejected(p)) /\ UNCHANGED fd
  /\ UNCHANGED <<model, disk, job, table, next, wave, weights, history>>

\* open_valid_cache(): there is a file, its size is the header's, and the
\* header is the one this session would write.
OpenCache(p) ==
  /\ at[p] = "open"
  /\ IF /\ cache # None /\ Closed(cache)
        /\ files[cache].hdr = Want(p)
     THEN Use(p, cache) /\ Goto(p, "table")
     ELSE Goto(p, Rejected(p)) /\ UNCHANGED fd
  /\ UNCHANGED <<model, disk, job, table, next, wave, weights, history>>

\* open_valid_cache(): the entry table, read after the header.
ReadTable(p) ==
  /\ at[p] = "table"
  /\ IF \A i \in Tasks : files[fd[p]].table[i] # None
     THEN /\ table' = [table EXCEPT ![p] = files[fd[p]].table]
          /\ next' = [next EXCEPT ![p] = 1]
          /\ Goto(p, "read")
          /\ UNCHANGED fd
     ELSE Goto(p, Rejected(p)) /\ Use(p, None) /\ UNCHANGED <<table, next>>
  /\ UNCHANGED <<model, disk, job, wave, weights, history>>

\* One entry of the cache: read, hashed and compared with the table, uploaded.
ReadEntry(p) ==
  /\ at[p] = "read" /\ ~opts[p].verify
  /\ LET got == files[fd[p]].body[next[p]]
     IN  IF got # None /\ got = table[p][next[p]]
         THEN /\ weights' = [weights EXCEPT ![p][next[p]] = got]
              /\ next' = [next EXCEPT ![p] = @ + 1]
              /\ IF next[p] = NTasks THEN Goto(p, "done") /\ Use(p, None) ELSE UNCHANGED <<at, fd>>
         ELSE Goto(p, "build") /\ Use(p, None) /\ UNCHANGED <<weights, next>>
  /\ UNCHANGED <<model, disk, job, table, wave, history>>

\* --verify-cache: every entry against a fresh pack of the mapped model; it
\* reads on after a mismatch and reports them all.
VerifyEntry(p) ==
  /\ at[p] = "read" /\ opts[p].verify
  /\ weights' = [weights EXCEPT ![p][next[p]] = files[fd[p]].body[next[p]]]
  /\ next' = [next EXCEPT ![p] = @ + 1]
  /\ IF next[p] = NTasks
     THEN /\ Goto(p, IF \A i \in Tasks : weights'[p][i] = Pack(map[p], opts[p].lay, i)
                     THEN "done" ELSE "failed")
          /\ Use(p, None)
     ELSE UNCHANGED <<at, fd>>
  /\ UNCHANGED <<model, disk, job, table, wave, history>>

-----------------------------------------------------------------------------
(* The slow path.                                                           *)

Free(f) == f \notin {cache, tmp} /\ \A q \in Procs : fd[q] # f

\* Another process that has file f open to write it.
Writers(f) == {q \in Procs : fd[q] = f /\ at[q] \notin {"table", "read"}}

\* <model>.xpack.tmp, created or cut to nothing: the file a name leads to is the
\* same file whoever opened it before.  A blank header is no more than no bytes.
OpenTmp(p) ==
  /\ at[p] = "build" /\ CacheEnabled(p)
  /\ LET f == IF tmp # None THEN tmp ELSE CHOOSE g \in Inodes : Free(g)
     IN  /\ tmp' = f /\ Use(p, f)
         /\ files' = [files EXCEPT ![f] = Blank]
         /\ shared' = IF \E q \in Writers(f) : Want(q) # Want(p) THEN "mixed"
                      ELSE IF Writers(f) # {} /\ shared = "no" THEN "same" ELSE shared
  /\ table' = [table EXCEPT ![p] = NoTable] /\ next' = [next EXCEPT ![p] = 1]
  /\ Goto(p, "wave")
  /\ UNCHANGED <<model, cache, job, wave, weights, loads, faults, swapped>>

\* There is to be no cache, or the tmp file cannot be opened.
NoTmp(p) ==
  /\ at[p] = "build"
  /\ IF CacheEnabled(p) THEN Fault ELSE UNCHANGED faults
  /\ next' = [next EXCEPT ![p] = 1]
  /\ Goto(p, "wave")
  /\ UNCHANGED <<model, disk, job, fd, table, wave, weights, loads, swapped, shared>>

\* The blank header cannot be written: no cache, and the tmp file stays cut.
BlankFails(p) ==
  /\ at[p] = "wave" /\ next[p] = 1 /\ fd[p] # None
  /\ Fault
  /\ Use(p, None)
  /\ UNCHANGED <<model, disk, at, job, table, next, wave, weights, loads, swapped, shared>>

\* The tensors of the next wave are cut into chunks, the threads started.
FormWave(p) ==
  /\ at[p] = "wave"
  /\ left' = [left EXCEPT ![p] = WaveChunks(next[p])]
  /\ busy' = [busy EXCEPT ![p] = [t \in Threads |-> None]]
  /\ Goto(p, "pack")
  /\ UNCHANGED <<model, disk, job, fd, table, next, host, err, weights, history>>

\* Mutant of Take: after an error a thread neither takes a chunk nor returns.
TakeWaits(p, t) ==
  /\ at[p] = "pack" /\ busy[p][t] = None
  /\ \/ /\ left[p] = {}
        /\ busy' = [busy EXCEPT ![p][t] = Returned] /\ UNCHANGED left
     \/ \E c \in left[p] :
          /\ ~err[p]
          /\ left' = [left EXCEPT ![p] = @ \ {c}]
          /\ busy' = [busy EXCEPT ![p][t] = c]
  /\ UNCHANGED <<model, disk, at, job, fd, table, next, host, err, weights, history>>

\* A thread takes the next chunk; it returns if there is none, or one failed.
Take(p, t) ==
  /\ at[p] = "pack" /\ busy[p][t] = None
  /\ \/ /\ left[p] = {}
        /\ busy' = [busy EXCEPT ![p][t] = Returned] /\ UNCHANGED left
     \/ \E c \in left[p] :
          /\ left' = [left EXCEPT ![p] = @ \ {c}]
          /\ busy' = [busy EXCEPT ![p][t] = IF err[p] THEN Returned ELSE c]
  /\ UNCHANGED <<model, disk, at, job, fd, table, next, host, err, weights, history>>

\* pack_chunk(): the chunk's column groups, read through the mapping.
PackChunk(p, t) ==
  /\ at[p] = "pack" /\ busy[p][t] \in Chunks
  /\ host' = [host EXCEPT ![p][busy[p][t]] = map[p]]
  /\ busy' = [busy EXCEPT ![p][t] = None]
  /\ UNCHANGED <<model, disk, at, job, fd, table, next, left, err, weights, history>>

PackThrows(p, t) ==
  /\ at[p] = "pack" /\ busy[p][t] \in Chunks /\ Fault
  /\ err' = [err EXCEPT ![p] = TRUE]
  /\ busy' = [busy EXCEPT ![p][t] = Returned]
  /\ UNCHANGED <<model, disk, at, job, fd, table, next, host, left, weights,
                 loads, swapped, shared>>

\* Mutant of Join: the upload starts when the chunks are handed out.
JoinNoWait(p) ==
  /\ at[p] = "pack" /\ left[p] = {} /\ \E t \in Threads : busy[p][t] = Returned
  /\ busy' = [busy EXCEPT ![p] = [t \in Threads |-> Returned]]
  /\ Goto(p, IF err[p] THEN "failed" ELSE "upload")
  /\ UNCHANGED <<model, disk, job, fd, table, next, host, left, err, weights, history>>

\* All threads joined: the wave is uploaded, or its error thrown on and the
\* tmp name removed.
Join(p) ==
  /\ at[p] = "pack" /\ \A t \in Threads : busy[p][t] = Returned
  /\ IF err[p]
     THEN /\ Goto(p, "failed") /\ Use(p, None)
          /\ tmp' = IF fd[p] # None THEN None ELSE tmp
     ELSE Goto(p, "upload") /\ UNCHANGED <<fd, tmp>>
  /\ UNCHANGED <<model, cache, files, job, table, next, wave, weights, history>>

\* What is left of the packed data when tensor i is released.
Release(p, i) == [c \in Chunks |-> IF c[1] = i THEN None ELSE host[p][c]]

AfterUpload(p) ==
  Goto(p, IF host'[p] # NoHost THEN "upload"
          ELSE IF next[p] < NTasks THEN "wave"
          ELSE IF fd'[p] # None THEN "finish" ELSE "done")

\* Mutant of Uploaded: the packed data is kept to the end.
UploadedKept(p, i) ==
  /\ at[p] = "upload"
  /\ weights' = [weights EXCEPT ![p][i] = Packed(p, i)]
  /\ next' = [next EXCEPT ![p] = i + 1]
  /\ UNCHANGED host
  /\ Goto(p, IF i = NTasks THEN "done" ELSE IF host[p][<<i + 1, 1>>] # None THEN "upload" ELSE "wave")

\* Tensor i is uploaded and its packed data released.
Uploaded(p, i) ==
  /\ at[p] = "upload"
  /\ weights' = [weights EXCEPT ![p][i] = Packed(p, i)]
  /\ host' = [host EXCEPT ![p] = Release(p, i)]
  /\ next' = [next EXCEPT ![p] = i + 1]
  /\ AfterUpload(p)

\* One tensor of the wave, into the cache file if one is being written.
UploadTask(p) ==
  LET i == next[p]  e == Packed(p, i)
  IN  /\ UNCHANGED fd
      /\ Uploaded(p, i)
      /\ IF fd[p] # None
         THEN /\ files' = [files EXCEPT ![fd[p]].body[i] = e, ![fd[p]].synced = FALSE]
              /\ table' = [table EXCEPT ![p][i] = e]
         ELSE UNCHANGED <<files, table>>
      /\ UNCHANGED <<model, cache, tmp, job, left, busy, err, history>>

\* The write fails: that drops the cache, not the load.
WriteFails(p) ==
  /\ fd[p] # None /\ Fault
  /\ tmp' = None /\ Use(p, None)
  /\ Uploaded(p, next[p])
  /\ UNCHANGED <<model, cache, files, job, table, left, busy, err, loads, swapped, shared>>

\* The upload throws: nothing closes the tmp file or removes its name.
UploadThrows(p) ==
  /\ \/ at[p] = "upload"
     \/ at[p] = "read" /\ ~opts[p].verify
  /\ Fault
  /\ Goto(p, "failed") /\ Use(p, None)
  /\ UNCHANGED <<model, disk, job, table, next, wave, weights, loads, swapped, shared>>

-----------------------------------------------------------------------------
(* Finishing the cache.                                                     *)

\* The table, one write per step of the code.
WriteTable(p) ==
  /\ at[p] = "finish"
  /\ files' = [files EXCEPT ![fd[p]].table = table[p], ![fd[p]].synced = FALSE]
  /\ Goto(p, "header")
  /\ UNCHANGED <<model, cache, tmp, job, fd, table, next, wave, weights, history>>

WriteHeader(p) ==
  /\ at[p] = "header"
  /\ files' = [files EXCEPT ![fd[p]].hdr = Want(p), ![fd[p]].synced = FALSE]
  /\ Goto(p, "sync")
  /\ UNCHANGED <<model, cache, tmp, job, fd, table, next, wave, weights, history>>

\* Mutant of Fsync: it is not called.
FsyncSkipped(p) ==
  /\ at[p] = "sync" /\ Goto(p, "rename")
  /\ UNCHANGED <<model, disk, job, fd, table, next, wave, weights, history>>

Fsync(p) ==
  /\ at[p] = "sync"
  /\ files' = [files EXCEPT ![fd[p]].synced = TRUE]
  /\ Goto(p, "rename")
  /\ UNCHANGED <<model, cache, tmp, job, fd, table, next, wave, weights, history>>

\* rename() of whatever the tmp name denotes by now; it fails if it is gone.
Rename(p) ==
  /\ at[p] = "rename"
  /\ cache' = IF tmp # None THEN tmp ELSE cache
  /\ tmp' = None
  /\ Goto(p, "done") /\ Use(p, None)
  /\ UNCHANGED <<model, files, job, table, next, wave, weights, history>>

\* One of the four fails: the load succeeds, the tmp name is removed.
FinishFails(p) ==
  /\ at[p] \in {"finish", "header", "sync", "rename"} /\ Fault
  /\ tmp' = None
  /\ Goto(p, "done") /\ Use(p, None)
  /\ UNCHANGED <<model, cache, files, job, table, next, wave, weights,
                 loads, swapped, shared>>

-----------------------------------------------------------------------------
(* The environment.                                                         *)

Reset(p) ==
  /\ Goto(p, "idle") /\ Use(p, None)
  /\ opts' = [opts EXCEPT ![p] = NoOpts] /\ stamp' = [stamp EXCEPT ![p] = None]
  /\ map' = [map EXCEPT ![p] = 1]
  /\ table' = [table EXCEPT ![p] = NoTable] /\ next' = [next EXCEPT ![p] = 1]
  /\ host' = [host EXCEPT ![p] = NoHost] /\ left' = [left EXCEPT ![p] = {}]
  /\ busy' = [busy EXCEPT ![p] = [t \in Threads |-> Returned]]
  /\ err' = [err EXCEPT ![p] = FALSE] /\ weights' = [weights EXCEPT ![p] = NoTable]

\* The session is closed, or the exception ended it.
Close(p) ==
  /\ at[p] \in {"done", "failed"}
  /\ Reset(p)
  /\ UNCHANGED <<model, disk, history>>

Kill(p) ==
  /\ Live(p) /\ Fault
  /\ Reset(p)
  /\ UNCHANGED <<model, disk, loads, swapped, shared>>

\* What may be left of a file whose data never was synced.
Survivors(f) ==
  {[hdr |-> h, body |-> [i \in Tasks |-> IF i \in B THEN f.body[i] ELSE None],
    table |-> IF t THEN f.table ELSE NoTable, synced |-> TRUE] :
     h \in {f.hdr, None}, B \in SUBSET Tasks, t \in BOOLEAN}

\* All processes gone; the tmp file, which is cut before anything reads it,
\* comes back empty.
PowerLoss ==
  /\ \A p \in Procs : at[p] = "idle"
  /\ Fault
  /\ \E g \in IF cache = None THEN {Blank}
             ELSE IF files[cache].synced THEN {files[cache]} ELSE Survivors(files[cache]) :
       files' = [f \in Inodes |-> IF f = cache THEN g ELSE Blank]
  /\ UNCHANGED <<model, cache, tmp, at, job, fd, table, next, wave, weights,
                 loads, swapped, shared>>

\* Another file is put in the model's place; mappings keep the old one.
Replace ==
  /\ model < MaxVersion
  /\ model' = model + 1
  /\ UNCHANGED <<disk, at, job, fd, table, next, wave, weights, history>>

-----------------------------------------------------------------------------
Start(p) == \E lay \in Layouts, m \in Modes : Open(p, lay, m)

Load(p) ==
  \/ Stamp(p) \/ OpenCache(p) \/ ReadTable(p) \/ ReadEntry(p) \/ VerifyEntry(p)
  \/ OpenTmp(p) \/ NoTmp(p) \/ BlankFails(p) \/ FormWave(p) \/ Join(p)
  \/ UploadTask(p) \/ WriteFails(p) \/ UploadThrows(p)
  \/ WriteTable(p) \/ WriteHeader(p) \/ Fsync(p) \/ Rename(p) \/ FinishFails(p)

Worker(p, t) == Take(p, t) \/ PackChunk(p, t) \/ PackThrows(p, t)

Next ==
  \/ \E p \in Procs : Start(p) \/ Load(p) \/ Close(p) \/ Kill(p)
  \/ \E p \in Procs, t \in Threads : Worker(p, t)
  \/ PowerLoss
  \/ Replace

Spec == Init /\ [][Next]_vars

-----------------------------------------------------------------------------
(* Properties.                                                              *)

Content == [Tasks -> Entries \cup {None}]
File    == [hdr : Header \cup {None}, body : Content, table : Content, synced : BOOLEAN]
Places  == {"idle", "stamp", "open", "table", "read", "build", "wave", "pack", "upload",
            "finish", "header", "sync", "rename", "done", "failed"}
Options == [lay : Layouts \cup {None}, use : BOOLEAN, force : BOOLEAN, verify : BOOLEAN]

\* Type correctness, in four parts; the next tensor of load_packed_weights() is
\* never past the last one by more than one.
DiskTyped ==
  /\ model \in Versions
  /\ cache \in Inodes \cup {None} /\ tmp \in Inodes \cup {None}
  /\ files \in [Inodes -> File]

JobTyped ==
  /\ at \in [Procs -> Places] /\ opts \in [Procs -> Options]
  /\ map \in [Procs -> Versions] /\ stamp \in [Procs -> Version]
  /\ fd \in [Procs -> Inodes \cup {None}]
  /\ table \in [Procs -> Content] /\ next \in [Procs -> 1..(NTasks + 1)]

WaveTyped ==
  /\ host \in [Procs -> [Chunks -> Version]] /\ left \in [Procs -> SUBSET Chunks]
  /\ busy \in [Procs -> [Threads -> Chunks \cup {None, Returned}]]
  /\ err \in [Procs -> BOOLEAN] /\ weights \in [Procs -> Content]

HistoryTyped ==
  /\ loads \in 0..MaxLoads /\ faults \in 0..MaxFaults
  /\ swapped \in BOOLEAN /\ shared \in {"no", "same", "mixed"}

TypeOK == DiskTyped /\ JobTyped /\ WaveTyped /\ HistoryTyped

\* Process p runs with the weights of the model it mapped, in its layout.
RunsItsModel(p) ==
  at[p] = "done" /\ ~opts[p].verify
    => \A i \in Tasks : weights[p][i] = Pack(map[p], opts[p].lay, i)

\* Whatever is killed, lost or written by others, a load ends with the weights
\* of the model it mapped, unless the model's file was exchanged between mapping
\* and stamping, or two builds with different headers met in one tmp file.
LoadsOwnModel == ~swapped /\ shared # "mixed" => \A p \in Procs : RunsItsModel(p)

\* "A cache that loads successfully with weights that belong to something
\* else": the format of load_packed_weights() is to make every mismatch fail.
NeverSomethingElse == \A p \in Procs : RunsItsModel(p)

\* The name only ever points at a complete file, as long as one process at a
\* time builds it: the rename in load_packed_weights() comes after the fsync.
NameComplete ==
  shared = "no" /\ cache # None =>
    /\ files[cache].hdr # None
    /\ files[cache].table = files[cache].body
    /\ \A i \in Tasks : files[cache].body[i] # None

\* A wave keeps the packed host data under the cap, one tensor excepted: memory
\* of at most the wave's tensors is held at any time.
HostBounded ==
  \A p \in Procs :
    LET held == {i \in Tasks : \E c \in Chunks : c[1] = i /\ host[p][c] # None}
    IN  \/ Cardinality(held) <= 1
        \/ \A i, j \in held : i <= j => Before[j] - Before[i - 1] <= Cap

\* No load is ever stuck: no worker of a wave waits for another, and the join
\* of load_packed_weights() waits for no thread that will not return.
NeverStuck ==
  \A p \in Procs : Live(p) => ENABLED (Load(p) \/ \E t \in Threads : Worker(p, t))
=============================================================================
