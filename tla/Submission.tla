------------------------------ MODULE Submission ------------------------------
(***************************************************************************)
(* The submission core of vulkore: Context's one-shot command buffers and  *)
(* submission, the Fence and its completion hook, launch(), Batch and the  *)
(* DescriptorCache (context.cpp, sync.cpp, launch.cpp), driven by one host *)
(* thread and executed by an asynchronous GPU.                             *)
(*                                                                         *)
(* Command buffers, descriptor sets and VkFences are raw handles that the  *)
(* host recycles while the GPU may still read them: what makes this code   *)
(* correct is that it never does so.  A command buffer always travels      *)
(* together with the descriptor sets allocated for it (Batch::cb_ and      *)
(* sets_, then the two captures of the completion hook), so `own` is       *)
(* indexed by the command buffer and a hook is the command buffer it       *)
(* recycles.  What is recorded into a command buffer is reduced to the     *)
(* sets it binds; the capacity of the descriptor pools is left out.        *)
(***************************************************************************)
EXTENDS Integers, Sequences

CONSTANTS
  CommandBuffers,  \* handles of the one VkCommandPool of the Context
  Sets,            \* VkDescriptorSet handles
  Handles,         \* VkFence handles
  Fences,          \* Fence objects the application keeps
  Batches,         \* Batch objects the application keeps
  Keys,            \* DescriptorCache keys: (set layout, bound buffers)
  Dispatches,      \* a dispatch: the key of each of the kernel's set layouts
  Faults,          \* which Vulkan calls may fail
  Null             \* VK_NULL_HANDLE

FaultKinds == {"begin", "record", "submit", "lost", "drain"}

\* A layout belongs to one set index of one kernel (program.cpp makes it), so
\* the keys of a dispatch are pairwise different.
ASSUME DispatchAssumption ==
  \A d \in Dispatches : /\ d \in Seq(Keys)
                        /\ \A i, j \in DOMAIN d : d[i] = d[j] => i = j

ASSUME NullAssumption ==
  Null \notin CommandBuffers \cup Sets \cup Handles \cup Fences

VARIABLES
  cbs,        \* command buffers allocated from the pool
  own,        \* per command buffer: the uncached sets allocated for it
  bound,      \* per command buffer: every set its commands bind
  live,       \* allocated descriptor sets: the domain of Context::set_pool_
  cache,      \* DescriptorCache::map_ (Null: no entry)
  exec,       \* GPU: the VkFence a pending command buffer will signal, or Null
  vk,         \* VkFence handles: "none", "unsignaled" or "signaled"
  submitted,  \* the handles whose Fence has submitted_ set
  hook,       \* on_complete_ of the handle's Fence: what it recycles, or Null
  fence,      \* Fence objects: the handle each owns, Null when empty
  batch,      \* Batch objects
  host,       \* the library call the host thread is inside
  thrown,     \* how the last call ended: "ok", or what it threw
  lost        \* VK_ERROR_DEVICE_LOST has happened

pool == <<cbs, own, bound, live>>
fences == <<vk, submitted, hook, fence>>
gpu == <<exec, lost>>
vars == <<cbs, own, bound, live, cache, exec, vk, submitted, hook, fence,
          batch, host, thrown, lost>>

-----------------------------------------------------------------------------
(* Frames of the host thread.  dst = Null marks Context::one_shot, whose    *)
(* Fence is a local variable and whose command buffer no hook recycles.     *)

Frame(at, c, h, f) == [at |-> at, cb |-> c, h |-> h, dst |-> f]
Idle == Frame("idle", Null, Null, Null)

NoBatch == [st |-> "none", cb |-> Null, cached |-> FALSE]

Elems(d) == {d[i] : i \in DOMAIN d}
Before(d, m) == {d[i] : i \in 1..m}
Cached == {cache[k] : k \in Keys} \ {Null}
Pending(c) == exec[c] # Null

\* Command buffers somebody will still free: an open Batch, a completion hook,
\* or the running call.
HeldByBatch == {batch[b].cb : b \in Batches} \ {Null}
HeldByHook == {hook[h] : h \in Handles} \ {Null}
HeldByHost == {host.cb} \ {Null}
Held == HeldByBatch \cup HeldByHook \cup HeldByHost

\* The distinct fresh sets one dispatch allocates, one for each key in M.
Grants(M) == {g \in [M -> Sets \ live] :
                \A k, l \in M : g[k] = g[l] => k = l}
Granted(g) == {g[k] : k \in DOMAIN g}

-----------------------------------------------------------------------------
(* Freeing.                                                                 *)

\* free_descriptor_set for each set in S: a handle set_pool_ does not know is
\* skipped, and taking S away from `live` skips it too.
FreeCommandBuffer(c, S) ==
  /\ cbs' = cbs \ {c}
  /\ live' = live \ S
  /\ own' = [own EXCEPT ![c] = {}]
  /\ bound' = [bound EXCEPT ![c] = {}]

\* Mutant of FireHook: the command buffer is recycled, its sets are not.
FireHookKeepingSets(h) ==
  IF hook[h] = Null
  THEN UNCHANGED <<pool, hook>>
  ELSE /\ FreeCommandBuffer(hook[h], {})
       /\ hook' = [hook EXCEPT ![h] = Null]

\* fire_on_complete on the Fence of handle h: the hook runs at most once.
FireHook(h) ==
  IF hook[h] = Null
  THEN UNCHANGED <<pool, hook>>
  ELSE /\ FreeCommandBuffer(hook[h], own[hook[h]])
       /\ hook' = [hook EXCEPT ![h] = Null]

\* vkWaitForFences(UINT64_MAX) comes back: signaled, device lost, or (with the
\* "drain" fault) out of memory before anything was signaled.
WaitReturns(h) == vk[h] = "signaled" \/ lost \/ "drain" \in Faults

\* Mutants of Drained: no drain at all; a drain that ignores submitted_.
NotDrained(h) == TRUE
DrainedAlways(h) == WaitReturns(h)

\* The drain of Fence::destroy() is over, or there is nothing to drain.
Drained(h) == h \in submitted => WaitReturns(h)

\* Fence::destroy() after its drain, whose result it ignores: the hook of a
\* submitted fence fires, the hook of an unsubmitted one is dropped.
Destroy(h) ==
  /\ IF h \in submitted
     THEN FireHook(h)
     ELSE hook' = [hook EXCEPT ![h] = Null] /\ UNCHANGED pool
  /\ vk' = [vk EXCEPT ![h] = "none"]
  /\ submitted' = submitted \ {h}

Return(result) == host' = Idle /\ thrown' = result

-----------------------------------------------------------------------------
Init ==
  /\ cbs = {} /\ live = {}
  /\ own = [c \in CommandBuffers |-> {}]
  /\ bound = [c \in CommandBuffers |-> {}]
  /\ cache = [k \in Keys |-> Null]
  /\ exec = [c \in CommandBuffers |-> Null]
  /\ vk = [h \in Handles |-> "none"]
  /\ submitted = {}
  /\ hook = [h \in Handles |-> Null]
  /\ fence = [f \in Fences |-> Null]
  /\ batch = [b \in Batches |-> NoBatch]
  /\ host = Idle
  /\ thrown = "ok"
  /\ lost = FALSE

-----------------------------------------------------------------------------
(* begin_one_shot and record_into.                                          *)

\* vkBeginCommandBuffer fails in begin_one_shot, whoever called it: the
\* command buffer it just allocated stays behind.
BeginFails ==
  /\ host = Idle /\ "begin" \in Faults
  /\ \E c \in CommandBuffers \ cbs : cbs' = cbs \cup {c}
  /\ Return("begin")
  /\ UNCHANGED <<own, bound, live, cache, batch, fences, gpu>>

\* launch(): begin_one_shot, then record_into without a cache.  All the sets
\* of the dispatch are its own; submit() is entered next.
Launch(f, d) ==
  /\ host = Idle
  /\ \E c \in CommandBuffers \ cbs, g \in Grants(Elems(d)) :
       /\ cbs' = cbs \cup {c}
       /\ live' = live \cup Granted(g)
       /\ own' = [own EXCEPT ![c] = Granted(g)]
       /\ bound' = [bound EXCEPT ![c] = Granted(g)]
       /\ host' = Frame("submit", c, Null, f)
  /\ UNCHANGED <<cache, batch, thrown, fences, gpu>>

\* record_into throws inside launch(), before or after some of its sets were
\* allocated: release_owned and launch_impl's handler give everything back.
LaunchFails ==
  /\ host = Idle /\ "record" \in Faults
  /\ CommandBuffers \ cbs # {}
  /\ Return("record")
  /\ UNCHANGED <<cache, batch, pool, fences, gpu>>

\* Batch::Batch(ctx) and Batch::Batch(ctx, cache).
BatchOpen(b, useCache) ==
  /\ host = Idle
  /\ batch[b].st = "none"
  /\ \E c \in CommandBuffers \ cbs :
       /\ cbs' = cbs \cup {c}
       /\ batch' = [batch EXCEPT ![b] =
                      [st |-> "open", cb |-> c, cached |-> useCache]]
  /\ Return("ok")
  /\ UNCHANGED <<own, bound, live, cache, fences, gpu>>

\* The keys among K that a dispatch of batch b has to allocate a set for.
Missing(b, K) == {k \in K : batch[b].cached => cache[k] = Null}

\* The sets a dispatch binds: granted ones and cache hits.
Uses(g, d) == {IF k \in DOMAIN g THEN g[k] ELSE cache[k] : k \in Elems(d)}

\* The cache with the granted sets entered under their keys.
Inserted(g) == [k \in Keys |-> IF k \in DOMAIN g THEN g[k] ELSE cache[k]]

\* Batch::add: cached sets are bound and missing ones allocated; what is
\* allocated goes to the cache, or to sets_ when the batch has none.
BatchAdd(b, d) ==
  /\ host = Idle
  /\ batch[b].st = "open"
  /\ \E g \in Grants(Missing(b, Elems(d))) :
       /\ live' = live \cup Granted(g)
       /\ bound' = [bound EXCEPT ![batch[b].cb] = @ \cup Uses(g, d)]
       /\ IF batch[b].cached
          THEN cache' = Inserted(g) /\ own' = own
          ELSE /\ cache' = cache
               /\ own' = [own EXCEPT ![batch[b].cb] = @ \cup Granted(g)]
  /\ Return("ok")
  /\ UNCHANGED <<cbs, batch, fences, gpu>>

\* Mutant of BatchAddFails: the missing `--nowned` frees sets the cache got.
BatchAddFailsFreeingCached(b, d) ==
  /\ host = Idle /\ "record" \in Faults
  /\ batch[b].st = "open"
  /\ \E m \in 0..(Len(d) - 1) : \E g \in Grants(Missing(b, Before(d, m))) :
       /\ m = 0 \/ d[m + 1] \in Missing(b, Elems(d))
       /\ IF batch[b].cached THEN cache' = Inserted(g) ELSE cache' = cache
  /\ Return("record")
  /\ UNCHANGED <<pool, batch, fences, gpu>>

\* Batch::add throws after handling the first m set layouts: the sets already
\* handed to the cache stay there, the batch's own ones are released.
BatchAddFails(b, d) ==
  /\ host = Idle /\ "record" \in Faults
  /\ batch[b].st = "open"
  /\ \E m \in 0..(Len(d) - 1) : \E g \in Grants(Missing(b, Before(d, m))) :
       /\ m = 0 \/ d[m + 1] \in Missing(b, Elems(d))
       /\ IF batch[b].cached
          THEN cache' = Inserted(g) /\ live' = live \cup Granted(g)
          ELSE UNCHANGED <<cache, live>>
  /\ Return("record")
  /\ UNCHANGED <<cbs, own, bound, batch, fences, gpu>>

\* Batch::submit empties the Batch before Context::submit is called.
BatchSubmit(b, f) ==
  /\ host = Idle
  /\ batch[b].st = "open"
  /\ batch' = [batch EXCEPT ![b] =
                  [st |-> "spent", cb |-> Null, cached |-> @.cached]]
  /\ host' = Frame("submit", batch[b].cb, Null, f)
  /\ UNCHANGED <<cache, thrown, pool, fences, gpu>>

\* add() and submit() on a spent Batch throw.
BatchReuse(b) ==
  /\ host = Idle
  /\ batch[b].st = "spent"
  /\ Return("spent")
  /\ UNCHANGED <<cache, batch, pool, fences, gpu>>

\* Mutant of BatchDestroy: the default destructor.
BatchDestroyDefault(b) ==
  /\ host = Idle
  /\ batch[b].st # "none"
  /\ batch' = [batch EXCEPT ![b] = NoBatch]
  /\ Return("ok")
  /\ UNCHANGED <<cache, pool, fences, gpu>>

\* ~Batch frees what a batch that was never submitted still holds.
BatchDestroy(b) ==
  /\ host = Idle
  /\ batch[b].st # "none"
  /\ IF batch[b].cb = Null
     THEN UNCHANGED pool
     ELSE FreeCommandBuffer(batch[b].cb, own[batch[b].cb])
  /\ batch' = [batch EXCEPT ![b] = NoBatch]
  /\ Return("ok")
  /\ UNCHANGED <<cache, fences, gpu>>

\* Context::one_shot (the staging copies of Buffer): begin and record.
OneShot ==
  /\ host = Idle
  /\ \E c \in CommandBuffers \ cbs :
       /\ cbs' = cbs \cup {c}
       /\ host' = Frame("submit", c, Null, Null)
  /\ UNCHANGED <<own, bound, live, cache, batch, thrown, fences, gpu>>

-----------------------------------------------------------------------------
(* Context::submit.                                                         *)

\* An exception leaves submit() with no Fence: one_shot frees the command
\* buffer; launch() and Batch::submit do not, nor does anything else.
Unwind(result) ==
  /\ IF host.dst = Null
     THEN FreeCommandBuffer(host.cb, {})
     ELSE UNCHANGED pool
  /\ Return(result)

\* vkEndCommandBuffer or vkCreateFence fails: no fence was made.
EndFails ==
  /\ host.at = "submit" /\ "submit" \in Faults
  /\ Unwind("submit")
  /\ UNCHANGED <<cache, batch, fences, gpu>>

\* vkQueueSubmit succeeds: submitted_ is set, then the two-argument overload
\* attaches the hook; one_shot goes on to wait on its local Fence.
QueueSubmit ==
  /\ host.at = "submit" /\ ~lost
  /\ \E h \in Handles :
       /\ vk[h] = "none"
       /\ vk' = [vk EXCEPT ![h] = "unsignaled"]
       /\ submitted' = submitted \cup {h}
       /\ exec' = [exec EXCEPT ![host.cb] = h]
       /\ IF host.dst = Null
          THEN /\ hook' = hook
               /\ host' = Frame("shotWait", host.cb, h, Null)
          ELSE /\ hook' = [hook EXCEPT ![h] = host.cb]
               /\ host' = Frame("assign", Null, h, host.dst)
  /\ UNCHANGED <<cache, fence, batch, thrown, lost, pool>>

\* vkQueueSubmit fails: the Fence was created but never submitted.
QueueSubmitFails ==
  /\ host.at = "submit" /\ (lost \/ "submit" \in Faults)
  /\ \E h \in Handles :
       /\ vk[h] = "none"
       /\ vk' = [vk EXCEPT ![h] = "unsignaled"]
       /\ host' = [host EXCEPT !.at = "unwind", !.h = h]
  /\ UNCHANGED <<cache, submitted, hook, fence, batch, thrown, pool, gpu>>

\* ... and unwinding destroys it: it is not drained and it has no hook.
UnwindFence ==
  /\ host.at = "unwind"
  /\ Drained(host.h)
  /\ vk' = [vk EXCEPT ![host.h] = "none"]
  /\ submitted' = submitted \ {host.h}
  /\ Unwind("submit")
  /\ UNCHANGED <<cache, hook, fence, batch, gpu>>

\* The returned Fence is move-assigned to f: operator= destroys what f held,
\* draining it first, and takes the handle over.
Assign ==
  /\ host.at = "assign"
  /\ LET old == fence[host.dst] IN
       IF old = Null
       THEN UNCHANGED <<pool, vk, submitted, hook>>
       ELSE Drained(old) /\ Destroy(old)
  /\ fence' = [fence EXCEPT ![host.dst] = host.h]
  /\ Return("ok")
  /\ UNCHANGED <<cache, batch, gpu>>

\* one_shot's fence.wait(): it returns or throws, and either way the Fence is
\* destroyed next, before the command buffer is freed.
ShotWait ==
  /\ host.at = "shotWait"
  /\ WaitReturns(host.h)
  /\ host' = [host EXCEPT !.at = "shotDrop"]
  /\ thrown' = IF vk[host.h] = "signaled" THEN "ok" ELSE "wait"
  /\ UNCHANGED <<cache, batch, pool, fences, gpu>>

ShotDrop ==
  /\ host.at = "shotDrop"
  /\ Drained(host.h)
  /\ vk' = [vk EXCEPT ![host.h] = "none"]
  /\ submitted' = submitted \ {host.h}
  /\ FreeCommandBuffer(host.cb, {})
  /\ Return(thrown)
  /\ UNCHANGED <<cache, hook, fence, batch, gpu>>

-----------------------------------------------------------------------------
(* The Fence operations of the application.                                 *)

\* Fence::wait() without a timeout on a Fence that owns a submitted handle.
\* (On an empty or unsubmitted one it returns TRUE at once.)
FenceWait(f) ==
  /\ host = Idle
  /\ fence[f] # Null /\ fence[f] \in submitted
  /\ host' = Frame("wait", Null, fence[f], f)
  /\ UNCHANGED <<cache, batch, thrown, pool, fences, gpu>>

\* The wait ends: completion fires the hook, an error throws and keeps it.
FenceWaitReturns ==
  /\ host.at = "wait"
  /\ \/ /\ vk[host.h] = "signaled"
        /\ FireHook(host.h)
        /\ Return("ok")
     \/ /\ vk[host.h] # "signaled" /\ WaitReturns(host.h)
        /\ Return("wait")
        /\ UNCHANGED <<hook, pool>>
  /\ UNCHANGED <<cache, vk, submitted, fence, batch, gpu>>

\* Mutant of FencePoll: VK_NOT_READY is taken for completion.
FencePollNotReady(f) ==
  /\ host = Idle
  /\ fence[f] # Null /\ fence[f] \in submitted
  /\ FireHook(fence[f])
  /\ Return("ok")
  /\ UNCHANGED <<cache, vk, submitted, fence, batch, gpu>>

\* is_signaled(), or wait() with a timeout, sees completion; when it does not
\* it returns FALSE and nothing changes.
FencePoll(f) ==
  /\ host = Idle
  /\ fence[f] # Null /\ fence[f] \in submitted
  /\ vk[fence[f]] = "signaled"
  /\ FireHook(fence[f])
  /\ Return("ok")
  /\ UNCHANGED <<cache, vk, submitted, fence, batch, gpu>>

\* ~Fence of an object that owns a handle, and the return from its drain.
FenceDrop(f) ==
  /\ host = Idle
  /\ fence[f] # Null
  /\ host' = Frame("drop", Null, fence[f], f)
  /\ UNCHANGED <<cache, batch, thrown, pool, fences, gpu>>

FenceDropReturns ==
  /\ host.at = "drop"
  /\ Drained(host.h)
  /\ Destroy(host.h)
  /\ fence' = [fence EXCEPT ![host.dst] = Null]
  /\ Return("ok")
  /\ UNCHANGED <<cache, batch, gpu>>

\* Mutant of FenceMove: a copy where the code has std::exchange.
FenceMoveCopying(f, g) ==
  /\ host = Idle
  /\ f # g /\ fence[f] # Null
  /\ host' = Frame("assign", Null, fence[f], g)
  /\ UNCHANGED <<cache, batch, thrown, pool, fences, gpu>>

\* g = std::move(f): f is left empty, and g's old handle is destroyed first.
FenceMove(f, g) ==
  /\ host = Idle
  /\ f # g /\ fence[f] # Null
  /\ fence' = [fence EXCEPT ![f] = Null]
  /\ host' = Frame("assign", Null, fence[f], g)
  /\ UNCHANGED <<cache, batch, vk, submitted, hook, thrown, pool, gpu>>

-----------------------------------------------------------------------------
(* DescriptorCache::clear (and ~DescriptorCache).  Its callers "must not    *)
(* have any in flight"; a command buffer recorded with a cached set and not *)
(* yet submitted counts, or it would be submitted with a freed set.         *)

CacheIdle ==
  \A c \in CommandBuffers :
     Pending(c) \/ c \in HeldByBatch => bound[c] \cap Cached = {}

CacheClear ==
  /\ host = Idle
  /\ Cached # {} /\ CacheIdle
  /\ live' = live \ Cached
  /\ cache' = [k \in Keys |-> Null]
  /\ Return("ok")
  /\ UNCHANGED <<cbs, own, bound, batch, fences, gpu>>

\* Context::wait_idle(): vkDeviceWaitIdle.  It fires no hook.
WaitIdle ==
  /\ host = Idle
  /\ host' = Frame("waitIdle", Null, Null, Null)
  /\ UNCHANGED <<cache, batch, thrown, pool, fences, gpu>>

WaitIdleReturns ==
  /\ host.at = "waitIdle"
  /\ \A c \in CommandBuffers : ~Pending(c)
  /\ Return(IF lost THEN "wait" ELSE "ok")
  /\ UNCHANGED <<cache, batch, pool, fences, gpu>>

-----------------------------------------------------------------------------
(* The device (external): executes what was submitted and signals its       *)
(* VkFence, or is lost, after which nothing is in use any more.             *)

GpuComplete(c) ==
  /\ Pending(c)
  /\ vk' = [vk EXCEPT ![exec[c]] = "signaled"]
  /\ exec' = [exec EXCEPT ![c] = Null]
  /\ UNCHANGED <<cache, submitted, hook, fence, batch, host, thrown, lost, pool>>

DeviceLost ==
  /\ "lost" \in Faults /\ ~lost
  /\ lost' = TRUE
  /\ exec' = [c \in CommandBuffers |-> Null]
  /\ UNCHANGED <<cache, batch, host, thrown, pool, fences>>

-----------------------------------------------------------------------------
\* What the application may call.
Call ==
  \/ BeginFails \/ LaunchFails \/ OneShot \/ CacheClear \/ WaitIdle
  \/ \E f \in Fences, d \in Dispatches : Launch(f, d)
  \/ \E b \in Batches :
       \/ \E useCache \in BOOLEAN : BatchOpen(b, useCache)
       \/ \E d \in Dispatches : BatchAdd(b, d) \/ BatchAddFails(b, d)
       \/ \E f \in Fences : BatchSubmit(b, f)
       \/ BatchReuse(b) \/ BatchDestroy(b)
  \/ \E f \in Fences :
       \/ FenceWait(f) \/ FencePoll(f) \/ FenceDrop(f)
       \/ \E g \in Fences : FenceMove(f, g)

\* The steps of a call already made.
Progress ==
  \/ EndFails \/ QueueSubmit \/ QueueSubmitFails \/ UnwindFence \/ Assign
  \/ ShotWait \/ ShotDrop \/ FenceWaitReturns \/ FenceDropReturns
  \/ WaitIdleReturns

Next == Call \/ Progress \/ (\E c \in CommandBuffers : GpuComplete(c)) \/ DeviceLost

Spec == Init /\ [][Next]_vars

\* The host thread keeps running, and the driver finishes or loses every
\* submission: a thread blocked in vkWaitForFences relies on nothing else.
FairSpec ==
  /\ Spec
  /\ WF_vars(Progress)
  /\ \A c \in CommandBuffers : WF_vars(GpuComplete(c))

-----------------------------------------------------------------------------
(* Properties.                                                              *)

\* Every variable stays in its type.
TypeOK ==
  /\ cbs \subseteq CommandBuffers
  /\ own \in [CommandBuffers -> SUBSET Sets]
  /\ bound \in [CommandBuffers -> SUBSET Sets]
  /\ live \subseteq Sets
  /\ cache \in [Keys -> Sets \cup {Null}]
  /\ exec \in [CommandBuffers -> Handles \cup {Null}]
  /\ vk \in [Handles -> {"none", "unsignaled", "signaled"}]
  /\ submitted \subseteq Handles
  /\ hook \in [Handles -> CommandBuffers \cup {Null}]
  /\ fence \in [Fences -> Handles \cup {Null}]
  /\ batch \in [Batches -> [st : {"none", "open", "spent"},
                            cb : CommandBuffers \cup {Null},
                            cached : BOOLEAN]]
  /\ host \in [at : {"idle", "submit", "unwind", "assign", "shotWait",
                     "shotDrop", "wait", "drop", "waitIdle"},
               cb : CommandBuffers \cup {Null},
               h : Handles \cup {Null},
               dst : Fences \cup {Null}]
  /\ thrown \in {"ok", "begin", "record", "spent", "submit", "wait"}
  /\ lost \in BOOLEAN

\* A command buffer the GPU is executing has not been freed, and neither has
\* any descriptor set it binds, its own or a cached one: recycling waits for
\* completion on every path (wait, poll, destruction, move, one_shot, clear).
InFlightIntact ==
  \A c \in CommandBuffers :
     Pending(c) => c \in cbs /\ bound[c] \subseteq live

\* What will be freed is freed once: no two of the Batches, the completion
\* hooks and the running call hold one command buffer, no two Fence objects one
\* VkFence, and no descriptor set belongs to two of the command buffers and
\* the cache.
SoleOwner ==
  /\ \A b1, b2 \in Batches :
       batch[b1].cb = batch[b2].cb => b1 = b2 \/ batch[b1].cb = Null
  /\ \A h1, h2 \in Handles : hook[h1] = hook[h2] => h1 = h2 \/ hook[h1] = Null
  /\ HeldByBatch \cap HeldByHook = {}
  /\ HeldByHost \cap (HeldByBatch \cup HeldByHook) = {}
  /\ \A f, g \in Fences : fence[f] = fence[g] => f = g \/ fence[f] = Null
  /\ host.at \in {"assign", "unwind", "shotWait", "shotDrop"} =>
       \A f \in Fences : fence[f] # host.h
  /\ \A c1, c2 \in CommandBuffers : c1 # c2 => own[c1] \cap own[c2] = {}
  /\ \A c \in CommandBuffers : own[c] \cap Cached = {}
  /\ \A k, l \in Keys : cache[k] = cache[l] => k = l \/ cache[k] = Null

\* A completion hook runs once, and only when its command buffer is no longer
\* executing: every step that takes a hook away has observed completion.
HookOnCompletion ==
  [][\A h \in Handles :
       hook[h] # Null /\ hook'[h] # hook[h] => hook'[h] = Null /\ ~Pending(hook[h])]_vars

\* What a Batch has recorded can still be submitted, and every cache entry
\* still be bound: no other path, failing adds included, frees those sets.
RecordedIntact ==
  /\ \A b \in Batches : batch[b].cb # Null => /\ batch[b].cb \in cbs
                                              /\ bound[batch[b].cb] \subseteq live
  /\ Cached \subseteq live

\* A command buffer nobody will free any more appears only in a step that
\* throws, out of vkBeginCommandBuffer or out of submit(): success paths,
\* failing records, moves, drops and device loss leak nothing.
Leaked == cbs \ Held
LeaksOnlyOnThrow ==
  [][Leaked' \subseteq Leaked \/ thrown' \in {"begin", "submit"}]_vars

\* No descriptor set outlives its owner: each allocated one is in the cache or
\* belongs to an allocated command buffer.
SetsAccounted ==
  live = Cached \cup UNION {own[c] : c \in cbs}

\* The core implements the abstract promise: command buffers and descriptor
\* sets are the resources, and the device uses what pending ones refer to.
InUse == {c \in CommandBuffers : Pending(c)}
         \cup UNION {bound[c] : c \in {p \in CommandBuffers : Pending(p)}}

Promise == INSTANCE Recycling WITH Resources <- CommandBuffers \cup Sets,
                                   held <- cbs \cup live,
                                   busy <- InUse

\* Nothing is given back to Vulkan while the device uses it, in any step.
RecyclesSafely == Promise!Spec

\* Every call returns: no path waits on a fence that cannot signal.
CallsReturn == []<>(host = Idle)

\* The documented promise that an un-submitted Batch releases its resources:
\* between calls, with every Batch and Fence gone, nothing is left allocated.
BatchReleases ==
  (/\ host = Idle
   /\ \A b \in Batches : batch[b].st = "none"
   /\ \A f \in Fences : fence[f] = Null) => cbs = {}
===============================================================================
