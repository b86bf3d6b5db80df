------------------------------- MODULE Runtime -------------------------------
(***************************************************************************)
(* What a program on Vulkore works with, between two calls: buffers that    *)
(* come and go under recycled handles, descriptor sets from a growing list  *)
(* of pools, a DescriptorCache, a Batch being recorded, and the visibility  *)
(* of every buffer's contents (buffer.cpp, context.cpp, launch.cpp).        *)
(*                                                                         *)
(* The module Submission has the calls' insides, their failures and what is *)
(* in flight; here every call succeeds or throws as a whole.  The program   *)
(* keeps to the documented contracts: it waits before it touches what       *)
(* the GPU uses, and clears the cache after destroying a buffer of it.      *)
(***************************************************************************)
EXTENDS GpuMemory, Integers, Sequences

CONSTANTS
  Handles,   \* VkBuffer handles, which the driver hands out again
  Kernels,   \* built kernels, each with its own set layout
  Sets,      \* VkDescriptorSet handles
  PoolSize,  \* kPoolMaxSets
  MaxPools, MaxGen, MaxBatch,   \* bounds: pools, buffers per handle, dispatches
  None

ASSUME RuntimeAssumption ==
  /\ PoolSize \in Nat \ {0} /\ MaxPools \in Nat \ {0} /\ MaxGen \in Nat /\ MaxBatch \in Nat
  /\ (\A S \in SUBSET Sets : None # S) /\ Handles # {}

VARIABLES
  buf,      \* per handle: mappable_ and coherent_ of the buffer, None if there is none
  gen,      \* how many buffers the handle has named
  mem,      \* the visibility of its contents
  pools,    \* descriptor_pools_: how many
  home,     \* the pool the driver took a set from, 0 when it is free
  setPool,  \* set_pool_, 0 for no entry
  bound,    \* the buffers written into a set
  cache,    \* DescriptorCache::map_, as pairs of key and set
  dirty,    \* a buffer of the cache was destroyed since clear()
  batch,    \* the open Batch: commands recorded, own sets, cached or not
  flight,   \* the sets of submitted work nobody has waited for; None if none is
  used,     \* the sets of what is recorded or in flight, with what was asked of them
  fresh     \* every access so far saw the newest value, in order

buffers     == <<buf, gen, mem>>
descriptors == <<pools, home, setPool, bound>>
vars == <<buffers, descriptors, cache, dirty, batch, flight, used, fresh>>

NoBatch == [open |-> FALSE, cached |-> FALSE, ops |-> <<>>, own |-> {}]

Object(h) == <<h, gen[h]>>
Live      == {h \in Handles : buf[h] # None}

Init ==
  /\ buf = [h \in Handles |-> None] /\ gen = [h \in Handles |-> 0]
  /\ mem = [h \in Handles |-> Fresh]
  /\ pools = 0 /\ home = [s \in Sets |-> 0] /\ setPool = [s \in Sets |-> 0]
  /\ bound = [s \in Sets |-> <<>>]
  /\ cache = {} /\ dirty = FALSE /\ batch = NoBatch /\ flight = None /\ used = {} /\ fresh = TRUE

-----------------------------------------------------------------------------
(* Descriptor sets.                                                         *)

Room(p) == Cardinality({s \in Sets : home[s] = p}) < PoolSize

\* allocate_descriptor_set(): from the newest pool, from another one if that is
\* full; emplace() leaves an entry that is already there.
Allocate(s, objects) ==
  LET p == IF pools > 0 /\ Room(pools) THEN pools ELSE pools + 1
  IN  /\ home[s] = 0 /\ p <= MaxPools
      /\ pools' = p
      /\ home' = [home EXCEPT ![s] = p]
      /\ setPool' = [setPool EXCEPT ![s] = IF @ = 0 THEN p ELSE @]
      /\ bound' = [bound EXCEPT ![s] = objects]

\* Mutant of Freed: the entry of set_pool_ stays.
FreedKeepingEntry(S) ==
  /\ home' = [s \in Sets |-> IF s \in S /\ setPool[s] = home[s] THEN 0 ELSE home[s]]
  /\ bound' = [s \in Sets |-> IF s \in S THEN <<>> ELSE bound[s]]
  /\ UNCHANGED <<pools, setPool>>

\* free_descriptor_set() of every member of S, into the pool set_pool_ says; the
\* driver finds the set there only if it came from there.
Freed(S) ==
  /\ home' = [s \in Sets |-> IF s \in S /\ setPool[s] = home[s] THEN 0 ELSE home[s]]
  /\ setPool' = [s \in Sets |-> IF s \in S THEN 0 ELSE setPool[s]]
  /\ bound' = [s \in Sets |-> IF s \in S THEN <<>> ELSE bound[s]]
  /\ UNCHANGED pools

\* Mutant of Key: the second buffer is left out.
KeyOfFirst(k, in, out) == <<k, in, in>>

\* DescriptorCache::Key: the layout and the raw handles.
Key(k, in, out) == <<k, in, out>>

\* The set s of a dispatch: the one the cache has, or a new one that is written
\* and, with a cache, becomes the cache's.
Bind(k, in, out, cached, s) ==
  LET key   == Key(k, in, out)
      asked == <<Object(in), Object(out)>>
      hit   == {e \in cache : cached /\ e.key = key}
  IN  /\ used' = used \cup {[set |-> s, asked |-> asked]}
      /\ \/ \E e \in hit : e.set = s /\ UNCHANGED <<descriptors, cache>>
         \/ /\ hit = {}
            /\ Allocate(s, asked)
            /\ cache' = cache \cup (IF cached THEN {[key |-> key, set |-> s]} ELSE {})

\* DescriptorCache::clear(), which asks that no set of it is in use.
Clear ==
  /\ cache # {} /\ ~batch.open /\ flight = None
  /\ Freed({e.set : e \in cache})
  /\ cache' = {} /\ dirty' = FALSE
  /\ UNCHANGED <<buffers, batch, flight, used, fresh>>

-----------------------------------------------------------------------------
(* Commands.  A dispatch reads one buffer and writes another.               *)

All(src, dst, M) == [h \in Handles |-> Barrier(M[h], src, dst)]

\* Of all stages of the device; what the host wrote is the submission's to show.
PreBarrier(M)   == All(Device, {"shader"}, M)
WidePost(M)     == All({"shader"}, Agents \ {"cpu"}, M)

\* Mutant of NarrowPost: left out.
NoPost(M)       == M
NarrowPost(M)   == All({"shader"}, {"shader"}, M)

\* One recorded dispatch carried out: r has the memory and whether all accesses
\* were in order.
Dispatched(r, d) ==
  LET M == IF d.pre THEN PreBarrier(r.mem) ELSE r.mem
      W == [M EXCEPT ![d.in] = Read(@, "shader"), ![d.out] = Write(@, "shader")]
  IN  [mem |-> NarrowPost(W),
       ok |-> r.ok /\ CanRead(M[d.in], "shader") /\ CanWrite(M[d.out], "shader")]

\* The commands of a batch in order.
Executed(ops, M) ==
  LET Run[i \in 0..Len(ops)] ==
        IF i = 0 THEN [mem |-> [h \in Handles |-> Submitted(M[h])], ok |-> TRUE]
        ELSE Dispatched(Run[i - 1], ops[i])
  IN  Run[Len(ops)]

Outstanding(own) == (IF flight = None THEN {} ELSE flight) \cup own

\* launch(): one dispatch, own set, both wide barriers, submitted at once.
Launch(k, in, out, s) ==
  /\ in \in Live /\ out \in Live /\ in # out
  /\ Bind(k, in, out, FALSE, s)
  /\ LET r == Executed(<<[in |-> in, out |-> out, pre |-> TRUE]>>, mem)
     IN  mem' = WidePost(r.mem) /\ fresh' = (fresh /\ r.ok)
  /\ flight' = Outstanding({s})
  /\ UNCHANGED <<buf, gen, dirty, batch>>

BatchOpen(cached) ==
  /\ ~batch.open
  /\ batch' = [NoBatch EXCEPT !.open = TRUE, !.cached = cached]
  /\ UNCHANGED <<buffers, descriptors, cache, dirty, flight, used, fresh>>

\* Batch::add(): only the first dispatch has a pre-barrier.
BatchAdd(k, in, out, s) ==
  /\ batch.open /\ Len(batch.ops) < MaxBatch
  /\ in \in Live /\ out \in Live /\ in # out
  /\ batch.cached => ~dirty
  /\ Bind(k, in, out, batch.cached, s)
  /\ batch' = [batch EXCEPT !.ops = Append(@, [in |-> in, out |-> out, pre |-> @ = <<>>]),
                            !.own = IF batch.cached THEN @ ELSE @ \cup {s}]
  /\ UNCHANGED <<buffers, dirty, flight, fresh>>

\* Mutant of BatchSubmit: the wide barrier at the end is left out.
BatchSubmitNarrow ==
  /\ batch.open
  /\ LET r == Executed(batch.ops, mem)
     IN  mem' = r.mem /\ fresh' = (fresh /\ r.ok)
  /\ flight' = Outstanding(batch.own)
  /\ batch' = NoBatch
  /\ UNCHANGED <<buf, gen, descriptors, cache, dirty, used>>

\* Batch::submit(): one wide barrier behind everything recorded.
BatchSubmit ==
  /\ batch.open
  /\ LET r == Executed(batch.ops, mem)
     IN  /\ mem' = IF batch.ops = <<>> THEN r.mem ELSE WidePost(r.mem)
         /\ fresh' = (fresh /\ r.ok)
  /\ flight' = Outstanding(batch.own)
  /\ batch' = NoBatch
  /\ UNCHANGED <<buf, gen, descriptors, cache, dirty, used>>

\* Fence::wait() of everything submitted; the hooks free the sets.
Wait ==
  /\ flight # None
  /\ mem' = [h \in Handles |-> Waited(mem[h])]
  /\ Freed(flight)
  /\ flight' = None
  /\ used' = IF batch.open THEN {u \in used : u.set \notin flight} ELSE {}
  /\ UNCHANGED <<buf, gen, cache, dirty, batch, fresh>>

-----------------------------------------------------------------------------
(* Buffers and their transfers.                                             *)

\* Buffer::Buffer(): the driver chooses the memory and reuses a handle.
Create(h, kind) ==
  /\ buf[h] = None /\ gen[h] < MaxGen
  /\ buf' = [buf EXCEPT ![h] = kind] /\ gen' = [gen EXCEPT ![h] = @ + 1]
  /\ mem' = [mem EXCEPT ![h] = Fresh]
  /\ UNCHANGED <<descriptors, cache, dirty, batch, flight, used, fresh>>

\* ~Buffer().
Destroy(h) ==
  /\ h \in Live /\ flight = None /\ ~batch.open
  /\ buf' = [buf EXCEPT ![h] = None]
  /\ dirty' = (dirty \/ \E e \in cache : h \in {e.key[2], e.key[3]})
  /\ UNCHANGED <<gen, mem, descriptors, cache, batch, flight, used, fresh>>

\* set_force_staging() sends any buffer down the staging path.
Direct(h, force) == buf[h].mappable /\ ~force

\* A copy on the GPU between two memories, submitted and waited for.
CopyOk(src, dst) == CanRead(Submitted(src), "copy") /\ CanWrite(Submitted(dst), "copy")

\* upload_bytes(): through the mapping, or through a staging buffer whose memory
\* may itself be coherent or not.
Upload(h, force, coherent) ==
  /\ h \in Live /\ fresh
  /\ IF Direct(h, force)
     THEN /\ flight = None
          /\ mem' = [mem EXCEPT ![h] = Flushed(CpuWrite(@, buf[h].coherent))]
          /\ UNCHANGED fresh
     ELSE LET staging == Flushed(CpuWrite(Fresh, coherent))
          IN  /\ fresh' = CopyOk(staging, mem[h])
              /\ mem' = [mem EXCEPT ![h] = Waited(Write(Submitted(@), "copy"))]
  /\ UNCHANGED <<buf, gen, descriptors, cache, dirty, batch, flight, used>>

\* Mutant of Download: the mapped memory is not invalidated.
DownloadStale(h, force, coherent) ==
  /\ h \in Live /\ fresh
  /\ IF Direct(h, force)
     THEN /\ flight = None
          /\ fresh' = CpuReads(mem[h], buf[h].coherent)
          /\ UNCHANGED mem
     ELSE LET staging == Waited(Write(Fresh, "copy"))
          IN  /\ fresh' = (CopyOk(mem[h], Fresh) /\ CpuReads(Invalidated(staging), coherent))
              /\ mem' = [mem EXCEPT ![h] = Waited(Read(Submitted(@), "copy"))]
  /\ UNCHANGED <<buf, gen, descriptors, cache, dirty, batch, flight, used>>

\* download_bytes().
Download(h, force, coherent) ==
  /\ h \in Live /\ fresh
  /\ IF Direct(h, force)
     THEN LET m == Invalidated(mem[h])
          IN  /\ flight = None
              /\ fresh' = CpuReads(m, buf[h].coherent)
              /\ mem' = [mem EXCEPT ![h] = IF buf[h].coherent THEN mem[h] ELSE m]
     ELSE LET staging == Waited(Write(Fresh, "copy"))
          IN  /\ fresh' = (CopyOk(mem[h], Fresh) /\ CpuReads(Invalidated(staging), coherent))
              /\ mem' = [mem EXCEPT ![h] = Waited(Read(Submitted(@), "copy"))]
  /\ UNCHANGED <<buf, gen, descriptors, cache, dirty, batch, flight, used>>

-----------------------------------------------------------------------------
\* Memory that cannot be mapped need not be told coherent.
Kinds == {k \in [mappable : BOOLEAN, coherent : BOOLEAN] : k.mappable \/ ~k.coherent}

Next ==
  \/ \E h \in Handles : Destroy(h) \/ \E kind \in Kinds : Create(h, kind)
  \/ \E h \in Handles, force, coherent \in BOOLEAN :
       Upload(h, force, coherent) \/ Download(h, force, coherent)
  \/ \E k \in Kernels, in, out \in Handles, s \in Sets :
       Launch(k, in, out, s) \/ BatchAdd(k, in, out, s)
  \/ \E cached \in BOOLEAN : BatchOpen(cached)
  \/ BatchSubmit \/ Wait \/ Clear

Spec == Init /\ [][Next]_vars

-----------------------------------------------------------------------------
(* Properties.                                                              *)

\* Every kernel and every transfer sees the newest contents, and no write
\* overtakes an access before it: the barriers of launch() and Batch and the
\* flushes of Buffer are enough, whichever way calls follow each other.
TransfersCurrent == fresh

\* A dispatch recorded or in flight works on the buffers it was given, though
\* sets are shared through the cache and handles name one buffer after another.
BindsWhatWasAsked == \A u \in used : home[u.set] # 0 /\ bound[u.set] = u.asked

\* Every allocated set is the cache's, the open batch's or some hook's to free,
\* and set_pool_ knows its pool.
SetsAccountedFor ==
  LET cached == {e.set : e \in cache}
  IN  /\ setPool = home
      /\ {s \in Sets : home[s] # 0} = cached \cup Outstanding(batch.own)
      /\ cached \cap Outstanding(batch.own) = {}
=============================================================================
