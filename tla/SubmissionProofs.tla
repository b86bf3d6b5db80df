--------------------------- MODULE SubmissionProofs ---------------------------
(***************************************************************************)
(* For every set of handles and every application: what the GPU is using   *)
(* is never recycled, and the submission core implements Recycling.        *)
(* vkWaitForFences is assumed not to fail without the device being lost:   *)
(* Fence::destroy ignores the result of its drain, and the theorems are    *)
(* false without this assumption (run "submission_drain").                 *)
(***************************************************************************)
EXTENDS Submission, TLAPS

-----------------------------------------------------------------------------
(* The inductive invariant, in parts.                                       *)

\* A command buffer is pending only while its fence can still signal.
PendingInv ==
  /\ \A c \in CommandBuffers :
       Pending(c) => /\ c \in cbs
                     /\ exec[c] \in submitted
                     /\ vk[exec[c]] = "unsignaled"
                     /\ ~lost
  /\ \A c, e \in CommandBuffers : Pending(c) /\ exec[c] = exec[e] => c = e

\* A hook recycles a command buffer that only its own fence can be waiting for.
HookInv ==
  \A h \in Handles :
     /\ h \in submitted => vk[h] # "none"
     /\ hook[h] # Null => /\ h \in submitted
                          /\ hook[h] \in cbs
                          /\ exec[hook[h]] \in {Null, h}

\* An open Batch holds a command buffer nobody executes.
BatchInv ==
  \A b \in Batches :
     /\ batch[b].st = "open" => batch[b].cb # Null
     /\ batch[b].cb # Null => batch[b].cb \in cbs /\ ~Pending(batch[b].cb)

\* The holders of command buffers are pairwise different.
HolderInv ==
  /\ \A b1, b2 \in Batches :
       batch[b1].cb = batch[b2].cb => b1 = b2 \/ batch[b1].cb = Null
  /\ \A h1, h2 \in Handles : hook[h1] = hook[h2] => h1 = h2 \/ hook[h1] = Null
  /\ \A b \in Batches, h \in Handles : batch[b].cb = hook[h] => hook[h] = Null
  /\ host.cb # Null => /\ host.cb \in cbs
                       /\ \A b \in Batches : batch[b].cb # host.cb
                       /\ \A h \in Handles : hook[h] # host.cb

\* What the frame of the running call guarantees.
HostInv ==
  /\ host.at \in {"idle", "waitIdle", "wait", "drop"} => host.cb = Null
  /\ host.at \in {"submit", "unwind"} => host.cb # Null /\ ~Pending(host.cb)
  /\ host.at = "unwind" => /\ host.h # Null
                           /\ host.h \notin submitted
                           /\ hook[host.h] = Null
  /\ host.at \in {"shotWait", "shotDrop"} => /\ host.cb # Null
                                             /\ host.h # Null
                                             /\ host.h \in submitted
                                             /\ hook[host.h] = Null
                                             /\ exec[host.cb] \in {Null, host.h}
  /\ host.at = "assign" => host.cb = Null /\ host.h # Null /\ host.dst # Null
  /\ host.at \in {"wait", "drop"} => host.h # Null /\ host.dst # Null
  /\ host.at \in {"shotWait", "shotDrop"} => host.dst = Null
  /\ host.cb # Null /\ host.dst = Null => own[host.cb] = {}

\* Every VkFence belongs to one Fence object, which was submitted.
FenceInv ==
  /\ \A f \in Fences : fence[f] # Null => fence[f] \in submitted
  /\ \A f, g \in Fences : fence[f] = fence[g] => f = g \/ fence[f] = Null
  /\ host.at \in {"assign", "unwind", "shotWait", "shotDrop"} =>
       /\ vk[host.h] # "none"
       /\ \A f \in Fences : fence[f] # host.h
  /\ host.at = "assign" => host.h \in submitted
  /\ host.at \in {"wait", "drop"} => fence[host.dst] = host.h

\* Sets have one owner, and owners hold allocated sets.
OwnerInv ==
  /\ \A c \in CommandBuffers : own[c] \subseteq live
  /\ \A c \in CommandBuffers : c \notin cbs => own[c] = {} /\ bound[c] = {}
  /\ \A c, e \in CommandBuffers : c # e => own[c] \cap own[e] = {}
  /\ \A k \in Keys : cache[k] # Null => cache[k] \in live
  /\ \A k \in Keys, c \in CommandBuffers : cache[k] \notin own[c]
  /\ \A k, l \in Keys : cache[k] = cache[l] => k = l \/ cache[k] = Null
  /\ \A s \in live : \/ \E k \in Keys : s = cache[k]
                    \/ \E c \in CommandBuffers : s \in own[c]

\* Command buffers that execute, or may still be submitted.
Active(c) == Pending(c) \/ (\E b \in Batches : batch[b].cb = c) \/ host.cb = c

\* They bind sets of their own and sets of the cache, nothing else.
BoundInv ==
  \A c \in CommandBuffers : Active(c) => bound[c] \subseteq own[c] \cup Cached

IInv == /\ TypeOK
        /\ PendingInv /\ HookInv /\ BatchInv /\ HolderInv /\ HostInv
        /\ OwnerInv /\ BoundInv /\ FenceInv

-----------------------------------------------------------------------------
(* Type correctness.                                                        *)

\* The sets granted to a dispatch are fresh.
LEMMA GrantFresh ==
  ASSUME NEW M, NEW g \in Grants(M)
  PROVE  /\ DOMAIN g = M
         /\ \A k \in M : g[k] \in Sets /\ g[k] \notin live
         /\ Granted(g) \subseteq Sets
         /\ Granted(g) \cap live = {}
BY DEF Grants, Granted

\* Handing granted sets to the cache keeps its type.
LEMMA InsertedType ==
  ASSUME TypeOK, NEW M \in SUBSET Keys, NEW g \in Grants(M)
  PROVE  Inserted(g) \in [Keys -> Sets \cup {Null}]
BY GrantFresh DEF TypeOK, Inserted

\* The keys of a dispatch are cache keys, and so are the first m of them.
LEMMA DispatchKeys ==
  ASSUME NEW d \in Dispatches
  PROVE  /\ Elems(d) \subseteq Keys
         /\ \A m \in 0..(Len(d) - 1) : Before(d, m) \subseteq Keys
<1>1. d \in Seq(Keys)
  BY DispatchAssumption
<1>2. Elems(d) \subseteq Keys
  BY <1>1 DEF Elems
<1>3. ASSUME NEW m \in 0..(Len(d) - 1), NEW i \in 1..m
      PROVE  d[i] \in Keys
  BY <1>1, <1>3
<1>4. QED
  BY <1>2, <1>3 DEF Before

\* Recycling a command buffer with sets of any owner keeps the pool's types.
LEMMA FreeType ==
  ASSUME TypeOK, NEW c \in CommandBuffers, NEW S, FreeCommandBuffer(c, S)
  PROVE  /\ cbs' \subseteq CommandBuffers
         /\ own' \in [CommandBuffers -> SUBSET Sets]
         /\ bound' \in [CommandBuffers -> SUBSET Sets]
         /\ live' \subseteq Sets
BY DEF TypeOK, FreeCommandBuffer

LEMMA FireType ==
  ASSUME TypeOK, NEW h \in Handles, FireHook(h)
  PROVE  /\ cbs' \subseteq CommandBuffers
         /\ own' \in [CommandBuffers -> SUBSET Sets]
         /\ bound' \in [CommandBuffers -> SUBSET Sets]
         /\ live' \subseteq Sets
         /\ hook' \in [Handles -> CommandBuffers \cup {Null}]
<1>1. CASE hook[h] = Null
  BY <1>1 DEF TypeOK, FireHook, pool
<1>2. CASE hook[h] # Null
  <2>1. hook[h] \in CommandBuffers
    BY <1>2 DEF TypeOK
  <2>2. FreeCommandBuffer(hook[h], own[hook[h]])
    BY <1>2 DEF FireHook
  <2>3. hook' \in [Handles -> CommandBuffers \cup {Null}]
    BY <1>2 DEF TypeOK, FireHook
  <2>4. QED
    BY <2>1, <2>2, <2>3, FreeType
<1>3. QED
  BY <1>1, <1>2

LEMMA DestroyType ==
  ASSUME TypeOK, NEW h \in Handles, Destroy(h)
  PROVE  /\ cbs' \subseteq CommandBuffers
         /\ own' \in [CommandBuffers -> SUBSET Sets]
         /\ bound' \in [CommandBuffers -> SUBSET Sets]
         /\ live' \subseteq Sets
         /\ hook' \in [Handles -> CommandBuffers \cup {Null}]
         /\ vk' \in [Handles -> {"none", "unsignaled", "signaled"}]
         /\ submitted' \subseteq Handles
<1>1. /\ vk' \in [Handles -> {"none", "unsignaled", "signaled"}]
      /\ submitted' \subseteq Handles
  BY DEF TypeOK, Destroy
<1>2. CASE h \in submitted
  BY <1>1, <1>2, FireType DEF Destroy
<1>3. CASE h \notin submitted
  BY <1>1, <1>3 DEF TypeOK, Destroy, pool
<1>4. QED
  BY <1>2, <1>3

-----------------------------------------------------------------------------
USE NullAssumption DEF Pending, pool, fences, gpu, Return, Frame, Idle

-----------------------------------------------------------------------------
(* Recycling a command buffer, alone or with its own sets, disturbs no      *)
(* other owner.                                                             *)

LEMMA FreeOwner ==
  ASSUME IInv, NEW c \in CommandBuffers,
         FreeCommandBuffer(c, own[c]), cache' = cache
  PROVE  OwnerInv'
BY DEF IInv, TypeOK, OwnerInv, FreeCommandBuffer

LEMMA FireOwner ==
  ASSUME IInv, NEW h \in Handles, FireHook(h), cache' = cache
  PROVE  OwnerInv'
<1>1. CASE hook[h] = Null
  BY <1>1 DEF IInv, OwnerInv, FireHook
<1>2. CASE hook[h] # Null
  BY <1>2, FreeOwner DEF IInv, TypeOK, FireHook
<1>3. QED
  BY <1>1, <1>2

LEMMA DestroyOwner ==
  ASSUME IInv, NEW h \in Handles, Destroy(h), cache' = cache
  PROVE  OwnerInv'
<1>1. CASE h \in submitted
  BY <1>1, FireOwner DEF Destroy
<1>2. CASE h \notin submitted
  BY <1>2 DEF IInv, OwnerInv, Destroy
<1>3. QED
  BY <1>1, <1>2

\* Recycling a command buffer leaves the others bound to sets that exist.
LEMMA FreeBound ==
  ASSUME IInv, NEW c \in CommandBuffers, NEW S, FreeCommandBuffer(c, S),
         cache' = cache,
         \A e \in CommandBuffers : e # c /\ Active(e)' => Active(e)
  PROVE  BoundInv'
<1>1. bound'[c] = {}
  BY DEF IInv, TypeOK, FreeCommandBuffer
<1>2. ASSUME NEW e \in CommandBuffers, e # c, Active(e)'
      PROVE  bound'[e] \subseteq own'[e] \cup Cached'
  <2>1. bound'[e] = bound[e] /\ own'[e] = own[e] /\ Cached' = Cached
    BY <1>2 DEF IInv, TypeOK, FreeCommandBuffer, Cached
  <2>2. QED
    BY <1>2, <2>1 DEF IInv, BoundInv
<1>3. QED
  BY <1>1, <1>2 DEF BoundInv

LEMMA SameBound ==
  ASSUME IInv, UNCHANGED pool, cache' = cache,
         \A e \in CommandBuffers : Active(e)' => Active(e)
  PROVE  BoundInv'
BY DEF IInv, BoundInv, Cached

LEMMA FireBound ==
  ASSUME IInv, NEW h \in Handles, FireHook(h), cache' = cache,
         \A e \in CommandBuffers : Active(e)' => Active(e)
  PROVE  BoundInv'
<1>1. CASE hook[h] = Null
  BY <1>1, SameBound DEF FireHook
<1>2. CASE hook[h] # Null
  BY <1>2, FreeBound DEF IInv, TypeOK, FireHook
<1>3. QED
  BY <1>1, <1>2

LEMMA DestroyBound ==
  ASSUME IInv, NEW h \in Handles, Destroy(h), cache' = cache,
         \A e \in CommandBuffers : Active(e)' => Active(e)
  PROVE  BoundInv'
BY FireBound, SameBound DEF Destroy

\* Entering freshly granted sets in the cache disturbs no owner.
LEMMA InsertOwner ==
  ASSUME IInv, NEW M \in SUBSET Keys, NEW g \in Grants(M),
         \A k \in M : cache[k] = Null,
         cache' = Inserted(g), live' = live \cup Granted(g), own' = own,
         cbs' = cbs, \A c \in CommandBuffers : c \notin cbs => bound'[c] = {}
  PROVE  OwnerInv'
<1>1. /\ DOMAIN g = M
      /\ \A k \in M : g[k] \in Granted(g) /\ g[k] \notin live /\ g[k] \in Sets
      /\ \A k, l \in M : g[k] = g[l] => k = l
      /\ \A s \in Granted(g) : \E k \in M : s = g[k]
  BY GrantFresh DEF Grants, Granted
<1>2. \A k \in Keys : cache'[k] = IF k \in M THEN g[k] ELSE cache[k]
  BY <1>1 DEF Inserted
<1>3. \A k \in Keys : cache'[k] # Null => cache'[k] \in live'
  BY <1>1, <1>2 DEF IInv, OwnerInv
<1>4. \A k \in Keys, c \in CommandBuffers : cache'[k] \notin own'[c]
  BY <1>1, <1>2 DEF IInv, OwnerInv
<1>5. \A k, l \in Keys : cache'[k] = cache'[l] => k = l \/ cache'[k] = Null
  BY <1>1, <1>2 DEF IInv, OwnerInv
<1>6. \A s \in live' : \/ \E k \in Keys : s = cache'[k]
                      \/ \E c \in CommandBuffers : s \in own'[c]
  <2>1. ASSUME NEW s \in Granted(g)
        PROVE  \E k \in Keys : s = cache'[k]
    BY <1>1, <1>2, <2>1
  <2>2. ASSUME NEW s \in live, NEW k \in Keys, s = cache[k]
        PROVE  s = cache'[k]
    BY <1>2, <2>2, GrantFresh DEF IInv, TypeOK
  <2>3. QED
    BY <2>1, <2>2 DEF IInv, OwnerInv
<1>7. QED
  BY <1>3, <1>4, <1>5, <1>6 DEF IInv, OwnerInv

\* Giving freshly granted sets to a command buffer disturbs no owner.
LEMMA GrantOwner ==
  ASSUME IInv, NEW M \in SUBSET Keys, NEW g \in Grants(M),
         NEW c \in CommandBuffers, c \in cbs', cbs \subseteq cbs',
         cache' = cache, live' = live \cup Granted(g),
         own' = [own EXCEPT ![c] = @ \cup Granted(g)],
         \A e \in CommandBuffers : e # c => bound'[e] = bound[e]
  PROVE  OwnerInv'
<1>1. Granted(g) \cap live = {} /\ Granted(g) \subseteq Sets
  BY GrantFresh
<1>2. \A e \in CommandBuffers :
        own'[e] = own[e] \cup (IF e = c THEN Granted(g) ELSE {})
  BY DEF IInv, TypeOK
<1>3. \A e \in CommandBuffers : own'[e] \subseteq live'
  BY <1>2 DEF IInv, OwnerInv
<1>4. \A e \in CommandBuffers : e \notin cbs' => own'[e] = {} /\ bound'[e] = {}
  BY <1>2 DEF IInv, OwnerInv
<1>5. \A e1, e2 \in CommandBuffers : e1 # e2 => own'[e1] \cap own'[e2] = {}
  BY <1>1, <1>2 DEF IInv, OwnerInv
<1>6. \A k \in Keys, e \in CommandBuffers : cache'[k] \notin own'[e]
  <2>1. \A k \in Keys : cache[k] \notin Granted(g)
    BY <1>1 DEF IInv, TypeOK, OwnerInv
  <2>2. QED
    BY <1>2, <2>1 DEF IInv, OwnerInv
<1>7. \A s \in live' : \/ \E k \in Keys : s = cache'[k]
                      \/ \E e \in CommandBuffers : s \in own'[e]
  BY <1>2 DEF IInv, OwnerInv
<1>8. QED
  BY <1>3, <1>4, <1>5, <1>6, <1>7 DEF IInv, OwnerInv

-----------------------------------------------------------------------------
(* Every step preserves the invariant, one lemma for each action.           *)

LEMMA BeginFailsStep ==
  ASSUME IInv, "drain" \notin Faults, BeginFails
  PROVE  IInv'
<1>1. TypeOK'
  BY DEF IInv, TypeOK, BeginFails
<1>2. PendingInv'
  BY DEF IInv, TypeOK, PendingInv, BeginFails
<1>3. HookInv'
  BY DEF IInv, TypeOK, HookInv, BeginFails
<1>4. BatchInv'
  BY DEF IInv, TypeOK, BatchInv, BeginFails
<1>5. HolderInv'
  BY DEF IInv, TypeOK, HolderInv, BeginFails
<1>6. HostInv'
  BY DEF IInv, TypeOK, HostInv, BeginFails
<1>7. OwnerInv'
  BY DEF IInv, TypeOK, OwnerInv, BeginFails
<1>8. BoundInv'
  BY DEF IInv, TypeOK, BoundInv, BeginFails, Active, Cached
<1>9. FenceInv'
  BY DEF IInv, TypeOK, FenceInv, BeginFails
<1>10. QED
  BY <1>1, <1>2, <1>3, <1>4, <1>5, <1>6, <1>7, <1>8, <1>9 DEF IInv

LEMMA LaunchStep ==
  ASSUME IInv, "drain" \notin Faults, NEW f \in Fences, NEW d \in Dispatches,
         Launch(f, d)
  PROVE  IInv'
<1>1. TypeOK'
  BY GrantFresh, DispatchKeys DEF IInv, TypeOK, Launch, Granted
<1>2. PendingInv'
  BY GrantFresh, DispatchKeys DEF IInv, TypeOK, PendingInv, Launch, Granted
<1>3. HookInv'
  BY GrantFresh, DispatchKeys DEF IInv, TypeOK, HookInv, Launch, Granted
<1>4. BatchInv'
  BY GrantFresh, DispatchKeys DEF IInv, TypeOK, BatchInv, Launch, Granted
<1>5. HolderInv'
  BY GrantFresh, DispatchKeys DEF IInv, TypeOK, HolderInv, HookInv, BatchInv,
       HostInv, Launch, Granted
<1>6. HostInv'
  BY GrantFresh, DispatchKeys DEF IInv, TypeOK, HostInv, PendingInv, HookInv,
       BatchInv, HolderInv, Launch, Granted
<1>7. OwnerInv'
  <2>1. Elems(d) \in SUBSET Keys
    BY DispatchKeys
  <2>2. PICK c \in CommandBuffers \ cbs, e \in Grants(Elems(d)) :
          /\ cbs' = cbs \cup {c}
          /\ live' = live \cup Granted(e)
          /\ own' = [own EXCEPT ![c] = Granted(e)]
          /\ bound' = [bound EXCEPT ![c] = Granted(e)]
    BY DEF Launch
  <2>3. own' = [own EXCEPT ![c] = @ \cup Granted(e)]
    <3>1. own[c] = {}
      BY DEF IInv, OwnerInv
    <3>2. own[c] \cup Granted(e) = Granted(e)
      BY <3>1
    <3>3. QED
      BY <2>2, <3>2
  <2>4. cache' = cache /\ \A a \in CommandBuffers : a # c => bound'[a] = bound[a]
    BY <2>2 DEF IInv, TypeOK, Launch
  <2>5. QED
    BY <2>1, <2>2, <2>3, <2>4, GrantOwner
<1>8. BoundInv'
  BY GrantFresh, DispatchKeys DEF IInv, TypeOK, BoundInv, Launch, Granted,
       Active, Cached
<1>9. FenceInv'
  BY DEF IInv, TypeOK, FenceInv, Launch
<1>10. QED
  BY <1>1, <1>2, <1>3, <1>4, <1>5, <1>6, <1>7, <1>8, <1>9 DEF IInv

LEMMA LaunchFailsStep ==
  ASSUME IInv, "drain" \notin Faults, LaunchFails
  PROVE  IInv'
<1>1. TypeOK'
  BY DEF IInv, TypeOK, LaunchFails
<1>2. PendingInv'
  BY DEF IInv, TypeOK, PendingInv, LaunchFails
<1>3. HookInv'
  BY DEF IInv, TypeOK, HookInv, LaunchFails
<1>4. BatchInv'
  BY DEF IInv, TypeOK, BatchInv, LaunchFails
<1>5. HolderInv'
  BY DEF IInv, TypeOK, HolderInv, LaunchFails
<1>6. HostInv'
  BY DEF IInv, TypeOK, HostInv, LaunchFails
<1>7. OwnerInv'
  BY DEF IInv, TypeOK, OwnerInv, LaunchFails
<1>8. BoundInv'
  BY DEF IInv, TypeOK, BoundInv, LaunchFails, Active, Cached
<1>9. FenceInv'
  BY DEF IInv, TypeOK, FenceInv, LaunchFails
<1>10. QED
  BY <1>1, <1>2, <1>3, <1>4, <1>5, <1>6, <1>7, <1>8, <1>9 DEF IInv

LEMMA BatchOpenStep ==
  ASSUME IInv, "drain" \notin Faults, NEW b \in Batches, NEW useCache \in BOOLEAN,
         BatchOpen(b, useCache)
  PROVE  IInv'
<1>1. TypeOK'
  BY DEF IInv, TypeOK, BatchOpen
<1>2. PendingInv'
  BY DEF IInv, TypeOK, PendingInv, BatchOpen
<1>3. HookInv'
  BY DEF IInv, TypeOK, HookInv, BatchOpen
<1>4. BatchInv'
  BY DEF IInv, TypeOK, BatchInv, PendingInv, HolderInv, HostInv, BatchOpen
<1>5. HolderInv'
  BY DEF IInv, TypeOK, HolderInv, HookInv, BatchInv, HostInv, BatchOpen
<1>6. HostInv'
  BY DEF IInv, TypeOK, HostInv, BatchOpen
<1>7. OwnerInv'
  BY DEF IInv, TypeOK, OwnerInv, BatchOpen
<1>8. BoundInv'
  BY DEF IInv, TypeOK, BoundInv, Active, Cached, OwnerInv, HolderInv,
       HostInv, BatchOpen
<1>9. FenceInv'
  BY DEF IInv, TypeOK, FenceInv, BatchOpen
<1>10. QED
  BY <1>1, <1>2, <1>3, <1>4, <1>5, <1>6, <1>7, <1>8, <1>9 DEF IInv

LEMMA BatchAddStep ==
  ASSUME IInv, "drain" \notin Faults, NEW b \in Batches, NEW d \in Dispatches,
         BatchAdd(b, d)
  PROVE  IInv'
<1>1. TypeOK'
  <2>1. PICK g \in Grants(Missing(b, Elems(d))) :
          /\ live' = live \cup Granted(g)
          /\ bound' = [bound EXCEPT ![batch[b].cb] = @ \cup Uses(g, d)]
          /\ IF batch[b].cached
             THEN cache' = Inserted(g) /\ own' = own
             ELSE /\ cache' = cache
                  /\ own' = [own EXCEPT ![batch[b].cb] = @ \cup Granted(g)]
    BY DEF BatchAdd
  <2>2. Missing(b, Elems(d)) \in SUBSET Keys
    BY DispatchKeys DEF Missing
  <2>3. Granted(g) \subseteq Sets /\ DOMAIN g = Missing(b, Elems(d))
    BY <2>1, GrantFresh
  <2>4. Inserted(g) \in [Keys -> Sets \cup {Null}]
    BY <2>1, <2>2, InsertedType DEF IInv
  <2>5. Uses(g, d) \subseteq Sets
    <3>1. ASSUME NEW k \in Elems(d), k \notin DOMAIN g
          PROVE  cache[k] \in Sets
      BY <2>3, <3>1, DispatchKeys DEF Missing, IInv, TypeOK
    <3>2. QED
      BY <3>1, <2>1, <2>3, GrantFresh DEF Uses
  <2>6. /\ live' \subseteq Sets
        /\ cache' \in [Keys -> Sets \cup {Null}]
    BY <2>1, <2>3, <2>4 DEF IInv, TypeOK
  <2>7. own' \in [CommandBuffers -> SUBSET Sets]
    <3>1. CASE batch[b].cached
      BY <2>1, <3>1 DEF IInv, TypeOK
    <3>2. CASE ~batch[b].cached
      BY <2>1, <2>3, <3>2 DEF IInv, TypeOK
    <3>3. QED
      BY <3>1, <3>2
  <2>8. bound' \in [CommandBuffers -> SUBSET Sets]
    BY <2>1, <2>5 DEF IInv, TypeOK
  <2>9. QED
    BY <2>6, <2>7, <2>8 DEF IInv, TypeOK, BatchAdd
<1>2. PendingInv'
  BY GrantFresh, DispatchKeys DEF IInv, TypeOK, PendingInv, BatchAdd,
       Missing, Inserted, Uses, Granted, Cached
<1>3. HookInv'
  BY GrantFresh, DispatchKeys DEF IInv, TypeOK, HookInv, BatchAdd, Missing,
       Inserted, Uses, Granted, Cached
<1>4. BatchInv'
  BY GrantFresh, DispatchKeys DEF IInv, TypeOK, BatchInv, BatchAdd, Missing,
       Inserted, Uses, Granted, Cached
<1>5. HolderInv'
  BY GrantFresh, DispatchKeys DEF IInv, TypeOK, HolderInv, BatchAdd, Missing,
       Inserted, Uses, Granted, Cached
<1>6. HostInv'
  BY GrantFresh, DispatchKeys DEF IInv, TypeOK, HostInv, BatchAdd, Missing,
       Inserted, Uses, Granted, Cached
<1>7. OwnerInv'
  <2>1. PICK g \in Grants(Missing(b, Elems(d))) :
          /\ live' = live \cup Granted(g)
          /\ bound' = [bound EXCEPT ![batch[b].cb] = @ \cup Uses(g, d)]
          /\ IF batch[b].cached
             THEN cache' = Inserted(g) /\ own' = own
             ELSE /\ cache' = cache
                  /\ own' = [own EXCEPT ![batch[b].cb] = @ \cup Granted(g)]
    BY DEF BatchAdd
  <2>2. batch[b].cb \in CommandBuffers /\ batch[b].cb \in cbs /\ cbs' = cbs
    BY DEF IInv, TypeOK, BatchInv, BatchAdd
  <2>3. Missing(b, Elems(d)) \in SUBSET Keys
    BY DispatchKeys DEF Missing
  <2>4. \A c \in CommandBuffers : c # batch[b].cb => bound'[c] = bound[c]
    BY <2>1, <2>2 DEF IInv, TypeOK
  <2>5. CASE batch[b].cached
    <3>1. \A k \in Missing(b, Elems(d)) : cache[k] = Null
      BY <2>5 DEF Missing
    <3>2. \A c \in CommandBuffers : c \notin cbs => bound'[c] = {}
      BY <2>2, <2>4 DEF IInv, OwnerInv
    <3>3. QED
      BY <2>1, <2>2, <2>3, <2>5, <3>1, <3>2, InsertOwner
  <2>6. CASE ~batch[b].cached
    BY <2>1, <2>2, <2>3, <2>4, <2>6, GrantOwner
  <2>7. QED
    BY <2>5, <2>6
<1>8. BoundInv'
  BY GrantFresh, DispatchKeys DEF IInv, TypeOK, BoundInv, BatchAdd, Missing,
       Inserted, Uses, Granted, Cached, Active
<1>9. FenceInv'
  BY DEF IInv, TypeOK, FenceInv, BatchAdd
<1>10. QED
  BY <1>1, <1>2, <1>3, <1>4, <1>5, <1>6, <1>7, <1>8, <1>9 DEF IInv

LEMMA BatchAddFailsStep ==
  ASSUME IInv, "drain" \notin Faults, NEW b \in Batches, NEW d \in Dispatches,
         BatchAddFails(b, d)
  PROVE  IInv'
<1>1. TypeOK'
  BY GrantFresh, DispatchKeys, InsertedType DEF IInv, TypeOK, HostInv,
       BatchAddFails, Missing, Granted
<1>2. PendingInv'
  BY GrantFresh, DispatchKeys DEF IInv, TypeOK, PendingInv, BatchAddFails,
       Missing, Inserted, Granted, Cached
<1>3. HookInv'
  BY GrantFresh, DispatchKeys DEF IInv, TypeOK, HookInv, BatchAddFails,
       Missing, Inserted, Granted, Cached
<1>4. BatchInv'
  BY GrantFresh, DispatchKeys DEF IInv, TypeOK, BatchInv, BatchAddFails,
       Missing, Inserted, Granted, Cached
<1>5. HolderInv'
  BY GrantFresh, DispatchKeys DEF IInv, TypeOK, HolderInv, BatchAddFails,
       Missing, Inserted, Granted, Cached
<1>6. HostInv'
  BY GrantFresh, DispatchKeys DEF IInv, TypeOK, HostInv, BatchAddFails,
       Missing, Inserted, Granted, Cached
<1>7. OwnerInv'
  <2>1. PICK m \in 0..(Len(d) - 1) : \E g \in Grants(Missing(b, Before(d, m))) :
          IF batch[b].cached
          THEN cache' = Inserted(g) /\ live' = live \cup Granted(g)
          ELSE UNCHANGED <<cache, live>>
    BY DEF BatchAddFails
  <2>2. cbs' = cbs /\ own' = own /\ bound' = bound
    BY DEF BatchAddFails
  <2>3. CASE batch[b].cached
    <3>1. PICK g \in Grants(Missing(b, Before(d, m))) :
            cache' = Inserted(g) /\ live' = live \cup Granted(g)
      BY <2>1, <2>3
    <3>2. /\ Missing(b, Before(d, m)) \in SUBSET Keys
          /\ \A k \in Missing(b, Before(d, m)) : cache[k] = Null
      BY <2>3, DispatchKeys DEF Missing
    <3>3. \A c \in CommandBuffers : c \notin cbs => bound'[c] = {}
      BY <2>2 DEF IInv, OwnerInv
    <3>4. QED
      BY <2>2, <3>1, <3>2, <3>3, InsertOwner
  <2>4. CASE ~batch[b].cached
    BY <2>1, <2>2, <2>4 DEF IInv, OwnerInv
  <2>5. QED
    BY <2>3, <2>4
<1>8. BoundInv'
  BY GrantFresh, DispatchKeys DEF IInv, TypeOK, BoundInv, BatchAddFails,
       Missing, Inserted, Granted, Cached, Active
<1>9. FenceInv'
  BY DEF IInv, TypeOK, FenceInv, BatchAddFails
<1>10. QED
  BY <1>1, <1>2, <1>3, <1>4, <1>5, <1>6, <1>7, <1>8, <1>9 DEF IInv

LEMMA BatchSubmitStep ==
  ASSUME IInv, "drain" \notin Faults, NEW b \in Batches, NEW f \in Fences,
         BatchSubmit(b, f)
  PROVE  IInv'
<1>1. TypeOK'
  BY DEF IInv, TypeOK, HostInv, BatchSubmit, PendingInv, HookInv, BatchInv,
       HolderInv, OwnerInv, BoundInv, Active
<1>2. PendingInv'
  BY DEF IInv, TypeOK, PendingInv, BatchSubmit
<1>3. HookInv'
  BY DEF IInv, TypeOK, HookInv, BatchSubmit
<1>4. BatchInv'
  BY DEF IInv, TypeOK, BatchInv, BatchSubmit
<1>5. HolderInv'
  <2>1. batch[b].cb \in CommandBuffers /\ batch[b].cb \in cbs
    BY DEF IInv, TypeOK, BatchInv, BatchSubmit
  <2>2. \A e \in Batches :
          batch'[e].cb = IF e = b THEN Null ELSE batch[e].cb
    BY DEF IInv, TypeOK, BatchSubmit
  <2>3. host'.cb = batch[b].cb /\ hook' = hook /\ cbs' = cbs
    BY DEF BatchSubmit
  <2>4. QED
    BY <2>1, <2>2, <2>3 DEF IInv, HolderInv
<1>6. HostInv'
  BY DEF IInv, TypeOK, HostInv, PendingInv, HookInv, BatchInv, HolderInv,
       BatchSubmit, OwnerInv, BoundInv, Active
<1>7. OwnerInv'
  BY DEF IInv, TypeOK, OwnerInv, BatchSubmit
<1>8. BoundInv'
  BY DEF IInv, TypeOK, BoundInv, BatchSubmit, Active, Cached
<1>9. FenceInv'
  BY DEF IInv, TypeOK, FenceInv, BatchSubmit
<1>10. QED
  BY <1>1, <1>2, <1>3, <1>4, <1>5, <1>6, <1>7, <1>8, <1>9 DEF IInv

LEMMA BatchReuseStep ==
  ASSUME IInv, "drain" \notin Faults, NEW b \in Batches, BatchReuse(b)
  PROVE  IInv'
<1>1. TypeOK'
  BY DEF IInv, TypeOK, BatchReuse
<1>2. PendingInv'
  BY DEF IInv, TypeOK, PendingInv, BatchReuse
<1>3. HookInv'
  BY DEF IInv, TypeOK, HookInv, BatchReuse
<1>4. BatchInv'
  BY DEF IInv, TypeOK, BatchInv, BatchReuse
<1>5. HolderInv'
  BY DEF IInv, TypeOK, HolderInv, BatchReuse
<1>6. HostInv'
  BY DEF IInv, TypeOK, HostInv, BatchReuse
<1>7. OwnerInv'
  BY DEF IInv, TypeOK, OwnerInv, BatchReuse
<1>8. BoundInv'
  BY DEF IInv, TypeOK, BoundInv, BatchReuse, Active, Cached
<1>9. FenceInv'
  BY DEF IInv, TypeOK, FenceInv, BatchReuse
<1>10. QED
  BY <1>1, <1>2, <1>3, <1>4, <1>5, <1>6, <1>7, <1>8, <1>9 DEF IInv

LEMMA BatchDestroyStep ==
  ASSUME IInv, "drain" \notin Faults, NEW b \in Batches, BatchDestroy(b)
  PROVE  IInv'
<1>1. TypeOK'
  BY FreeType DEF IInv, TypeOK, BatchDestroy, NoBatch
<1>2. PendingInv'
  BY DEF IInv, TypeOK, PendingInv, HostInv, HookInv, BatchInv, HolderInv,
       BatchDestroy, FreeCommandBuffer, NoBatch
<1>3. HookInv'
  BY DEF IInv, TypeOK, HookInv, PendingInv, HostInv, HolderInv, BatchDestroy,
       FreeCommandBuffer, NoBatch
<1>4. BatchInv'
  BY DEF IInv, TypeOK, BatchInv, PendingInv, HolderInv, HostInv,
       BatchDestroy, FreeCommandBuffer, NoBatch
<1>5. HolderInv'
  BY DEF IInv, TypeOK, HolderInv, BatchDestroy, FreeCommandBuffer, NoBatch
<1>6. HostInv'
  BY DEF IInv, TypeOK, HostInv, BatchDestroy, FreeCommandBuffer, NoBatch
<1>7. OwnerInv'
  BY FreeOwner DEF IInv, TypeOK, OwnerInv, BatchDestroy
<1>8. BoundInv'
  BY DEF IInv, TypeOK, BoundInv, BatchDestroy, FreeCommandBuffer, NoBatch,
       Active, Cached
<1>9. FenceInv'
  BY DEF IInv, TypeOK, FenceInv, BatchDestroy
<1>10. QED
  BY <1>1, <1>2, <1>3, <1>4, <1>5, <1>6, <1>7, <1>8, <1>9 DEF IInv

LEMMA OneShotStep ==
  ASSUME IInv, "drain" \notin Faults, OneShot
  PROVE  IInv'
<1>1. TypeOK'
  BY DEF IInv, TypeOK, OneShot
<1>2. PendingInv'
  BY DEF IInv, TypeOK, PendingInv, OneShot
<1>3. HookInv'
  BY DEF IInv, TypeOK, HookInv, OneShot
<1>4. BatchInv'
  BY DEF IInv, TypeOK, BatchInv, OneShot
<1>5. HolderInv'
  BY DEF IInv, TypeOK, HolderInv, HookInv, BatchInv, HostInv, OneShot
<1>6. HostInv'
  <2>1. PICK c \in CommandBuffers \ cbs : host' = Frame("submit", c, Null, Null)
    BY DEF OneShot
  <2>2. exec' = exec /\ own' = own /\ ~Pending(c) /\ own[c] = {} /\ c # Null
    BY DEF IInv, PendingInv, OwnerInv, OneShot
  <2>3. QED
    BY <2>1, <2>2 DEF HostInv
<1>7. OwnerInv'
  BY DEF IInv, TypeOK, OwnerInv, OneShot
<1>8. BoundInv'
  BY DEF IInv, TypeOK, BoundInv, Active, Cached, OwnerInv, HolderInv,
       HostInv, OneShot
<1>9. FenceInv'
  BY DEF IInv, TypeOK, FenceInv, OneShot
<1>10. QED
  BY <1>1, <1>2, <1>3, <1>4, <1>5, <1>6, <1>7, <1>8, <1>9 DEF IInv

LEMMA EndFailsStep ==
  ASSUME IInv, "drain" \notin Faults, EndFails
  PROVE  IInv'
<1>1. TypeOK'
  BY FreeType DEF IInv, TypeOK, HostInv, EndFails, Unwind
<1>2. PendingInv'
  BY DEF IInv, TypeOK, PendingInv, HostInv, HookInv, BatchInv, HolderInv,
       EndFails, Unwind, FreeCommandBuffer
<1>3. HookInv'
  BY DEF IInv, TypeOK, HookInv, PendingInv, HostInv, HolderInv, EndFails,
       Unwind, FreeCommandBuffer
<1>4. BatchInv'
  BY DEF IInv, TypeOK, BatchInv, PendingInv, HolderInv, HostInv, EndFails,
       Unwind, FreeCommandBuffer
<1>5. HolderInv'
  BY DEF IInv, TypeOK, HolderInv, EndFails, Unwind, FreeCommandBuffer
<1>6. HostInv'
  BY DEF IInv, TypeOK, HostInv, EndFails, Unwind, FreeCommandBuffer
<1>7. OwnerInv'
  <2>1. host.cb \in CommandBuffers /\ cache' = cache
    BY DEF IInv, TypeOK, HostInv, EndFails
  <2>2. CASE host.dst = Null
    <3>1. own[host.cb] = {} /\ FreeCommandBuffer(host.cb, {})
      BY <2>2 DEF IInv, HostInv, EndFails, Unwind
    <3>2. QED
      BY <2>1, <3>1, FreeOwner
  <2>3. CASE host.dst # Null
    BY <2>1, <2>3 DEF IInv, OwnerInv, EndFails, Unwind
  <2>4. QED
    BY <2>2, <2>3
<1>8. BoundInv'
  BY DEF IInv, TypeOK, BoundInv, EndFails, Unwind, FreeCommandBuffer, Active,
       Cached
<1>9. FenceInv'
  BY DEF IInv, TypeOK, FenceInv, EndFails, Unwind
<1>10. QED
  BY <1>1, <1>2, <1>3, <1>4, <1>5, <1>6, <1>7, <1>8, <1>9 DEF IInv

LEMMA QueueSubmitStep ==
  ASSUME IInv, "drain" \notin Faults, QueueSubmit
  PROVE  IInv'
<1>1. TypeOK'
  BY DEF IInv, TypeOK, HostInv, QueueSubmit
<1>2. PendingInv'
  BY DEF IInv, TypeOK, PendingInv, HostInv, HookInv, BatchInv, HolderInv,
       QueueSubmit
<1>3. HookInv'
  BY DEF IInv, TypeOK, HookInv, PendingInv, HostInv, HolderInv, QueueSubmit
<1>4. BatchInv'
  BY DEF IInv, TypeOK, BatchInv, PendingInv, HolderInv, HostInv, QueueSubmit
<1>5. HolderInv'
  BY DEF IInv, TypeOK, HolderInv, HookInv, BatchInv, HostInv, QueueSubmit
<1>6. HostInv'
  BY DEF IInv, TypeOK, HostInv, PendingInv, HookInv, BatchInv, HolderInv,
       QueueSubmit
<1>7. OwnerInv'
  BY DEF IInv, TypeOK, OwnerInv, QueueSubmit
<1>8. BoundInv'
  BY DEF IInv, TypeOK, BoundInv, QueueSubmit, Active, Cached
<1>9. FenceInv'
  BY DEF IInv, TypeOK, FenceInv, QueueSubmit, HookInv, HostInv
<1>10. QED
  BY <1>1, <1>2, <1>3, <1>4, <1>5, <1>6, <1>7, <1>8, <1>9 DEF IInv

LEMMA QueueSubmitFailsStep ==
  ASSUME IInv, "drain" \notin Faults, QueueSubmitFails
  PROVE  IInv'
<1>1. TypeOK'
  <2>1. PICK h \in Handles :
          /\ vk' = [vk EXCEPT ![h] = "unsignaled"]
          /\ host' = [host EXCEPT !.at = "unwind", !.h = h]
    BY DEF QueueSubmitFails
  <2>2. host' = [at |-> "unwind", cb |-> host.cb, h |-> h, dst |-> host.dst]
    BY <2>1 DEF IInv, TypeOK
  <2>3. QED
    BY <2>1, <2>2 DEF IInv, TypeOK, QueueSubmitFails
<1>2. PendingInv'
  BY DEF IInv, TypeOK, PendingInv, QueueSubmitFails
<1>3. HookInv'
  BY DEF IInv, TypeOK, HookInv, QueueSubmitFails
<1>4. BatchInv'
  BY DEF IInv, TypeOK, BatchInv, QueueSubmitFails
<1>5. HolderInv'
  BY DEF IInv, TypeOK, HolderInv, QueueSubmitFails
<1>6. HostInv'
  BY DEF IInv, TypeOK, HostInv, PendingInv, HookInv, BatchInv, HolderInv,
       QueueSubmitFails
<1>7. OwnerInv'
  BY DEF IInv, TypeOK, OwnerInv, QueueSubmitFails
<1>8. BoundInv'
  BY DEF IInv, TypeOK, BoundInv, QueueSubmitFails, Active, Cached
<1>9. FenceInv'
  BY DEF IInv, TypeOK, FenceInv, QueueSubmitFails, HookInv, HostInv
<1>10. QED
  BY <1>1, <1>2, <1>3, <1>4, <1>5, <1>6, <1>7, <1>8, <1>9 DEF IInv

LEMMA UnwindFenceStep ==
  ASSUME IInv, "drain" \notin Faults, UnwindFence
  PROVE  IInv'
<1>1. TypeOK'
  BY FreeType DEF IInv, TypeOK, HostInv, UnwindFence, Unwind, Drained
<1>2. PendingInv'
  BY DEF IInv, TypeOK, PendingInv, HostInv, HookInv, BatchInv, HolderInv,
       UnwindFence, Unwind, FreeCommandBuffer, Drained
<1>3. HookInv'
  BY DEF IInv, TypeOK, HookInv, PendingInv, HostInv, HolderInv, UnwindFence,
       Unwind, FreeCommandBuffer, Drained
<1>4. BatchInv'
  BY DEF IInv, TypeOK, BatchInv, PendingInv, HolderInv, HostInv, UnwindFence,
       Unwind, FreeCommandBuffer, Drained
<1>5. HolderInv'
  BY DEF IInv, TypeOK, HolderInv, UnwindFence, Unwind, FreeCommandBuffer,
       Drained
<1>6. HostInv'
  BY DEF IInv, TypeOK, HostInv, UnwindFence, Unwind, FreeCommandBuffer,
       Drained
<1>7. OwnerInv'
  <2>1. host.cb \in CommandBuffers /\ cache' = cache
    BY DEF IInv, TypeOK, HostInv, UnwindFence
  <2>2. CASE host.dst = Null
    <3>1. own[host.cb] = {} /\ FreeCommandBuffer(host.cb, {})
      BY <2>2 DEF IInv, HostInv, UnwindFence, Unwind
    <3>2. QED
      BY <2>1, <3>1, FreeOwner
  <2>3. CASE host.dst # Null
    BY <2>1, <2>3 DEF IInv, OwnerInv, UnwindFence, Unwind
  <2>4. QED
    BY <2>2, <2>3
<1>8. BoundInv'
  BY DEF IInv, TypeOK, BoundInv, UnwindFence, Unwind, FreeCommandBuffer,
       Drained, Active, Cached
<1>9. FenceInv'
  BY DEF IInv, TypeOK, FenceInv, UnwindFence, Unwind, HostInv
<1>10. QED
  BY <1>1, <1>2, <1>3, <1>4, <1>5, <1>6, <1>7, <1>8, <1>9 DEF IInv

LEMMA AssignStep ==
  ASSUME IInv, "drain" \notin Faults, Assign
  PROVE  IInv'
<1>1. TypeOK'
  BY DestroyType DEF IInv, TypeOK, HostInv, Assign, Drained
<1>2. PendingInv'
  BY DEF IInv, TypeOK, PendingInv, HostInv, HookInv, BatchInv, HolderInv,
       Assign, Destroy, FireHook, FreeCommandBuffer, Drained, WaitReturns
<1>3. HookInv'
  BY DEF IInv, TypeOK, HookInv, PendingInv, HostInv, HolderInv, Assign,
       Destroy, FireHook, FreeCommandBuffer, Drained, WaitReturns
<1>4. BatchInv'
  BY DEF IInv, TypeOK, BatchInv, PendingInv, HolderInv, HostInv, Assign,
       Destroy, FireHook, FreeCommandBuffer, Drained, WaitReturns
<1>5. HolderInv'
  BY DEF IInv, TypeOK, HolderInv, Assign, Destroy, FireHook,
       FreeCommandBuffer, Drained, WaitReturns
<1>6. HostInv'
  BY DEF IInv, TypeOK, HostInv, Assign, Destroy, FireHook, FreeCommandBuffer,
       Drained, WaitReturns
<1>7. OwnerInv'
  <2>1. host.dst \in Fences /\ cache' = cache
    BY DEF IInv, TypeOK, HostInv, Assign
  <2>2. CASE fence[host.dst] = Null
    BY <2>1, <2>2 DEF IInv, OwnerInv, Assign
  <2>3. CASE fence[host.dst] # Null
    <3>1. fence[host.dst] \in Handles
      BY <2>1, <2>3 DEF IInv, TypeOK
    <3>2. Destroy(fence[host.dst])
      BY <2>3 DEF Assign
    <3>3. QED
      BY <2>1, <3>1, <3>2, DestroyOwner
  <2>4. QED
    BY <2>2, <2>3
<1>8. BoundInv'
  <2>1. host.dst \in Fences /\ cache' = cache
    BY DEF IInv, TypeOK, HostInv, Assign
  <2>2. \A e \in CommandBuffers : Active(e)' => Active(e)
    BY DEF IInv, TypeOK, Assign, Active
  <2>3. CASE fence[host.dst] = Null
    BY <2>1, <2>2, <2>3, SameBound DEF Assign
  <2>4. CASE fence[host.dst] # Null
    <3>1. fence[host.dst] \in Handles
      BY <2>1, <2>4 DEF IInv, TypeOK
    <3>2. Destroy(fence[host.dst])
      BY <2>4 DEF Assign
    <3>3. QED
      BY <2>1, <2>2, <3>1, <3>2, DestroyBound
  <2>5. QED
    BY <2>3, <2>4
<1>9. FenceInv'
  <2>1. /\ host.dst \in Fences /\ host.h \in Handles
        /\ fence' = [fence EXCEPT ![host.dst] = host.h] /\ host' = Idle
    BY DEF IInv, TypeOK, HostInv, Assign
  <2>2. \A h \in Handles :
          h # fence[host.dst] /\ h \in submitted => h \in submitted'
    BY DEF IInv, TypeOK, Assign, Destroy
  <2>3. host.h \in submitted /\ \A f \in Fences : fence[f] # host.h
    BY DEF IInv, FenceInv, Assign
  <2>4. \A f \in Fences :
          fence'[f] = IF f = host.dst THEN host.h ELSE fence[f]
    BY <2>1 DEF IInv, TypeOK
  <2>5. \A f \in Fences : fence'[f] # Null => fence'[f] \in submitted'
    <3>1. ASSUME NEW f \in Fences, f # host.dst, fence[f] # Null
          PROVE  fence[f] \in Handles /\ fence[f] # fence[host.dst]
      BY <2>1, <3>1 DEF IInv, TypeOK, FenceInv
    <3>2. ASSUME NEW f \in Fences, f # host.dst, fence[f] # Null
          PROVE  fence[f] \in submitted'
      BY <2>2, <3>1, <3>2 DEF IInv, FenceInv
    <3>3. host.h \in submitted'
      BY <2>1, <2>2, <2>3
    <3>4. QED
      BY <2>4, <3>2, <3>3
  <2>6. \A f, g \in Fences : fence'[f] = fence'[g] => f = g \/ fence'[f] = Null
    BY <2>3, <2>4 DEF IInv, FenceInv
  <2>7. QED
    BY <2>1, <2>5, <2>6 DEF FenceInv
<1>10. QED
  BY <1>1, <1>2, <1>3, <1>4, <1>5, <1>6, <1>7, <1>8, <1>9 DEF IInv

LEMMA ShotWaitStep ==
  ASSUME IInv, "drain" \notin Faults, ShotWait
  PROVE  IInv'
<1>1. TypeOK'
  BY DEF IInv, TypeOK, ShotWait
<1>2. PendingInv'
  BY DEF IInv, TypeOK, PendingInv, ShotWait
<1>3. HookInv'
  BY DEF IInv, TypeOK, HookInv, ShotWait
<1>4. BatchInv'
  BY DEF IInv, TypeOK, BatchInv, ShotWait
<1>5. HolderInv'
  BY DEF IInv, TypeOK, HolderInv, ShotWait
<1>6. HostInv'
  BY DEF IInv, TypeOK, HostInv, ShotWait
<1>7. OwnerInv'
  BY DEF IInv, TypeOK, OwnerInv, ShotWait
<1>8. BoundInv'
  BY DEF IInv, TypeOK, BoundInv, ShotWait, Active, Cached
<1>9. FenceInv'
  BY DEF IInv, TypeOK, FenceInv, ShotWait
<1>10. QED
  BY <1>1, <1>2, <1>3, <1>4, <1>5, <1>6, <1>7, <1>8, <1>9 DEF IInv

LEMMA ShotDropStep ==
  ASSUME IInv, "drain" \notin Faults, ShotDrop
  PROVE  IInv'
<1>1. TypeOK'
  BY FreeType DEF IInv, TypeOK, HostInv, ShotDrop, Drained
<1>2. PendingInv'
  BY DEF IInv, TypeOK, PendingInv, HostInv, HookInv, BatchInv, HolderInv,
       ShotDrop, FreeCommandBuffer, Drained, WaitReturns
<1>3. HookInv'
  BY DEF IInv, TypeOK, HookInv, PendingInv, HostInv, HolderInv, ShotDrop,
       FreeCommandBuffer, Drained, WaitReturns
<1>4. BatchInv'
  BY DEF IInv, TypeOK, BatchInv, PendingInv, HolderInv, HostInv, ShotDrop,
       FreeCommandBuffer, Drained, WaitReturns
<1>5. HolderInv'
  BY DEF IInv, TypeOK, HolderInv, ShotDrop, FreeCommandBuffer, Drained,
       WaitReturns
<1>6. HostInv'
  BY DEF IInv, TypeOK, HostInv, ShotDrop, FreeCommandBuffer, Drained,
       WaitReturns
<1>7. OwnerInv'
  <2>1. host.cb \in CommandBuffers /\ own[host.cb] = {}
    BY DEF IInv, TypeOK, HostInv, ShotDrop
  <2>2. FreeCommandBuffer(host.cb, {}) /\ cache' = cache
    BY DEF ShotDrop
  <2>3. QED
    BY <2>1, <2>2, FreeOwner
<1>8. BoundInv'
  BY DEF IInv, TypeOK, BoundInv, ShotDrop, FreeCommandBuffer, Drained,
       WaitReturns, Active, Cached
<1>9. FenceInv'
  BY DEF IInv, TypeOK, FenceInv, ShotDrop, HostInv
<1>10. QED
  BY <1>1, <1>2, <1>3, <1>4, <1>5, <1>6, <1>7, <1>8, <1>9 DEF IInv

LEMMA FenceWaitStep ==
  ASSUME IInv, "drain" \notin Faults, NEW f \in Fences, FenceWait(f)
  PROVE  IInv'
<1>1. TypeOK'
  BY DEF IInv, TypeOK, FenceWait
<1>2. PendingInv'
  BY DEF IInv, TypeOK, PendingInv, FenceWait
<1>3. HookInv'
  BY DEF IInv, TypeOK, HookInv, FenceWait
<1>4. BatchInv'
  BY DEF IInv, TypeOK, BatchInv, FenceWait
<1>5. HolderInv'
  BY DEF IInv, TypeOK, HolderInv, FenceWait
<1>6. HostInv'
  BY DEF IInv, TypeOK, HostInv, FenceWait
<1>7. OwnerInv'
  BY DEF IInv, TypeOK, OwnerInv, FenceWait
<1>8. BoundInv'
  BY DEF IInv, TypeOK, BoundInv, FenceWait, Active, Cached
<1>9. FenceInv'
  BY DEF IInv, TypeOK, FenceInv, FenceWait
<1>10. QED
  BY <1>1, <1>2, <1>3, <1>4, <1>5, <1>6, <1>7, <1>8, <1>9 DEF IInv

LEMMA FenceWaitReturnsStep ==
  ASSUME IInv, "drain" \notin Faults, FenceWaitReturns
  PROVE  IInv'
<1>1. TypeOK'
  BY FireType DEF IInv, TypeOK, HostInv, FenceWaitReturns
<1>2. PendingInv'
  BY DEF IInv, TypeOK, PendingInv, HostInv, HookInv, BatchInv, HolderInv,
       FenceWaitReturns, FireHook, FreeCommandBuffer
<1>3. HookInv'
  BY DEF IInv, TypeOK, HookInv, PendingInv, HostInv, HolderInv,
       FenceWaitReturns, FireHook, FreeCommandBuffer
<1>4. BatchInv'
  BY DEF IInv, TypeOK, BatchInv, PendingInv, HolderInv, HostInv,
       FenceWaitReturns, FireHook, FreeCommandBuffer
<1>5. HolderInv'
  BY DEF IInv, TypeOK, HolderInv, FenceWaitReturns, FireHook,
       FreeCommandBuffer
<1>6. HostInv'
  BY DEF IInv, TypeOK, HostInv, FenceWaitReturns, FireHook, FreeCommandBuffer
<1>7. OwnerInv'
  <2>1. host.h \in Handles /\ cache' = cache
    BY DEF IInv, TypeOK, HostInv, FenceWaitReturns
  <2>2. CASE FireHook(host.h)
    BY <2>1, <2>2, FireOwner
  <2>3. CASE UNCHANGED pool
    BY <2>1, <2>3 DEF IInv, OwnerInv
  <2>4. QED
    BY <2>2, <2>3 DEF FenceWaitReturns
<1>8. BoundInv'
  <2>1. host.h \in Handles /\ cache' = cache
    BY DEF IInv, TypeOK, HostInv, FenceWaitReturns
  <2>2. \A e \in CommandBuffers : Active(e)' => Active(e)
    BY DEF IInv, TypeOK, FenceWaitReturns, Active
  <2>3. CASE FireHook(host.h)
    BY <2>1, <2>2, <2>3, FireBound
  <2>4. CASE UNCHANGED pool
    BY <2>1, <2>2, <2>4, SameBound
  <2>5. QED
    BY <2>3, <2>4 DEF FenceWaitReturns
<1>9. FenceInv'
  BY DEF IInv, TypeOK, FenceInv, FenceWaitReturns
<1>10. QED
  BY <1>1, <1>2, <1>3, <1>4, <1>5, <1>6, <1>7, <1>8, <1>9 DEF IInv

LEMMA FencePollStep ==
  ASSUME IInv, "drain" \notin Faults, NEW f \in Fences, FencePoll(f)
  PROVE  IInv'
<1>1. TypeOK'
  BY FireType DEF IInv, TypeOK, FencePoll
<1>2. PendingInv'
  BY DEF IInv, TypeOK, PendingInv, HostInv, HookInv, BatchInv, HolderInv,
       FencePoll, FireHook, FreeCommandBuffer
<1>3. HookInv'
  BY DEF IInv, TypeOK, HookInv, PendingInv, HostInv, HolderInv, FencePoll,
       FireHook, FreeCommandBuffer
<1>4. BatchInv'
  BY DEF IInv, TypeOK, BatchInv, PendingInv, HolderInv, HostInv, FencePoll,
       FireHook, FreeCommandBuffer
<1>5. HolderInv'
  BY DEF IInv, TypeOK, HolderInv, FencePoll, FireHook, FreeCommandBuffer
<1>6. HostInv'
  BY DEF IInv, TypeOK, HostInv, FencePoll, FireHook, FreeCommandBuffer
<1>7. OwnerInv'
  BY FireOwner DEF IInv, TypeOK, OwnerInv, FencePoll
<1>8. BoundInv'
  <2>1. fence[f] \in Handles /\ FireHook(fence[f]) /\ cache' = cache
    BY DEF IInv, TypeOK, FencePoll
  <2>2. \A e \in CommandBuffers : Active(e)' => Active(e)
    BY DEF IInv, TypeOK, FencePoll, Active
  <2>3. QED
    BY <2>1, <2>2, FireBound
<1>9. FenceInv'
  BY DEF IInv, TypeOK, FenceInv, FencePoll
<1>10. QED
  BY <1>1, <1>2, <1>3, <1>4, <1>5, <1>6, <1>7, <1>8, <1>9 DEF IInv

LEMMA FenceDropStep ==
  ASSUME IInv, "drain" \notin Faults, NEW f \in Fences, FenceDrop(f)
  PROVE  IInv'
<1>1. TypeOK'
  BY DEF IInv, TypeOK, FenceDrop
<1>2. PendingInv'
  BY DEF IInv, TypeOK, PendingInv, FenceDrop
<1>3. HookInv'
  BY DEF IInv, TypeOK, HookInv, FenceDrop
<1>4. BatchInv'
  BY DEF IInv, TypeOK, BatchInv, FenceDrop
<1>5. HolderInv'
  BY DEF IInv, TypeOK, HolderInv, FenceDrop
<1>6. HostInv'
  BY DEF IInv, TypeOK, HostInv, FenceDrop
<1>7. OwnerInv'
  BY DEF IInv, TypeOK, OwnerInv, FenceDrop
<1>8. BoundInv'
  BY DEF IInv, TypeOK, BoundInv, FenceDrop, Active, Cached
<1>9. FenceInv'
  BY DEF IInv, TypeOK, FenceInv, FenceDrop
<1>10. QED
  BY <1>1, <1>2, <1>3, <1>4, <1>5, <1>6, <1>7, <1>8, <1>9 DEF IInv

LEMMA FenceDropReturnsStep ==
  ASSUME IInv, "drain" \notin Faults, FenceDropReturns
  PROVE  IInv'
<1>1. TypeOK'
  BY DestroyType DEF IInv, TypeOK, HostInv, FenceDropReturns, Drained
<1>2. PendingInv'
  BY DEF IInv, TypeOK, PendingInv, HostInv, HookInv, BatchInv, HolderInv,
       FenceDropReturns, Destroy, FireHook, FreeCommandBuffer, Drained,
       WaitReturns
<1>3. HookInv'
  BY DEF IInv, TypeOK, HookInv, PendingInv, HostInv, HolderInv,
       FenceDropReturns, Destroy, FireHook, FreeCommandBuffer, Drained,
       WaitReturns
<1>4. BatchInv'
  BY DEF IInv, TypeOK, BatchInv, PendingInv, HolderInv, HostInv,
       FenceDropReturns, Destroy, FireHook, FreeCommandBuffer, Drained,
       WaitReturns
<1>5. HolderInv'
  BY DEF IInv, TypeOK, HolderInv, FenceDropReturns, Destroy, FireHook,
       FreeCommandBuffer, Drained, WaitReturns
<1>6. HostInv'
  BY DEF IInv, TypeOK, HostInv, FenceDropReturns, Destroy, FireHook,
       FreeCommandBuffer, Drained, WaitReturns
<1>7. OwnerInv'
  <2>1. host.h \in Handles
    BY DEF IInv, TypeOK, HostInv, FenceDropReturns
  <2>2. Destroy(host.h) /\ cache' = cache
    BY DEF FenceDropReturns
  <2>3. QED
    BY <2>1, <2>2, DestroyOwner
<1>8. BoundInv'
  <2>1. host.h \in Handles /\ Destroy(host.h) /\ cache' = cache
    BY DEF IInv, TypeOK, HostInv, FenceDropReturns
  <2>2. \A e \in CommandBuffers : Active(e)' => Active(e)
    BY DEF IInv, TypeOK, FenceDropReturns, Active
  <2>3. QED
    BY <2>1, <2>2, DestroyBound
<1>9. FenceInv'
  BY DEF IInv, TypeOK, FenceInv, FenceDropReturns, Destroy, HookInv, HostInv
<1>10. QED
  BY <1>1, <1>2, <1>3, <1>4, <1>5, <1>6, <1>7, <1>8, <1>9 DEF IInv

LEMMA FenceMoveStep ==
  ASSUME IInv, "drain" \notin Faults, NEW f \in Fences, NEW g \in Fences,
         FenceMove(f, g)
  PROVE  IInv'
<1>1. TypeOK'
  BY DEF IInv, TypeOK, FenceMove
<1>2. PendingInv'
  BY DEF IInv, TypeOK, PendingInv, FenceMove
<1>3. HookInv'
  BY DEF IInv, TypeOK, HookInv, FenceMove
<1>4. BatchInv'
  BY DEF IInv, TypeOK, BatchInv, FenceMove
<1>5. HolderInv'
  BY DEF IInv, TypeOK, HolderInv, FenceMove
<1>6. HostInv'
  BY DEF IInv, TypeOK, HostInv, FenceMove
<1>7. OwnerInv'
  BY DEF IInv, TypeOK, OwnerInv, FenceMove
<1>8. BoundInv'
  BY DEF IInv, TypeOK, BoundInv, FenceMove, Active, Cached
<1>9. FenceInv'
  BY DEF IInv, TypeOK, FenceInv, HookInv, FenceMove
<1>10. QED
  BY <1>1, <1>2, <1>3, <1>4, <1>5, <1>6, <1>7, <1>8, <1>9 DEF IInv

LEMMA CacheClearStep ==
  ASSUME IInv, "drain" \notin Faults, CacheClear
  PROVE  IInv'
<1>1. TypeOK'
  BY DEF IInv, TypeOK, CacheClear, CacheIdle, Cached, HeldByBatch
<1>2. PendingInv'
  BY DEF IInv, TypeOK, PendingInv, CacheClear, CacheIdle, Cached, HeldByBatch
<1>3. HookInv'
  BY DEF IInv, TypeOK, HookInv, CacheClear, CacheIdle, Cached, HeldByBatch
<1>4. BatchInv'
  BY DEF IInv, TypeOK, BatchInv, CacheClear, CacheIdle, Cached, HeldByBatch
<1>5. HolderInv'
  BY DEF IInv, TypeOK, HolderInv, CacheClear, CacheIdle, Cached, HeldByBatch
<1>6. HostInv'
  BY DEF IInv, TypeOK, HostInv, CacheClear, CacheIdle, Cached, HeldByBatch
<1>7. OwnerInv'
  BY DEF IInv, TypeOK, OwnerInv, CacheClear, CacheIdle, Cached, HeldByBatch
<1>8. BoundInv'
  BY DEF IInv, TypeOK, BoundInv, CacheClear, CacheIdle, Cached, HeldByBatch,
       Active
<1>9. FenceInv'
  BY DEF IInv, TypeOK, FenceInv, CacheClear
<1>10. QED
  BY <1>1, <1>2, <1>3, <1>4, <1>5, <1>6, <1>7, <1>8, <1>9 DEF IInv

LEMMA WaitIdleStep ==
  ASSUME IInv, "drain" \notin Faults, WaitIdle
  PROVE  IInv'
<1>1. TypeOK'
  BY DEF IInv, TypeOK, WaitIdle
<1>2. PendingInv'
  BY DEF IInv, TypeOK, PendingInv, WaitIdle
<1>3. HookInv'
  BY DEF IInv, TypeOK, HookInv, WaitIdle
<1>4. BatchInv'
  BY DEF IInv, TypeOK, BatchInv, WaitIdle
<1>5. HolderInv'
  BY DEF IInv, TypeOK, HolderInv, WaitIdle
<1>6. HostInv'
  BY DEF IInv, TypeOK, HostInv, WaitIdle
<1>7. OwnerInv'
  BY DEF IInv, TypeOK, OwnerInv, WaitIdle
<1>8. BoundInv'
  BY DEF IInv, TypeOK, BoundInv, WaitIdle, Active, Cached
<1>9. FenceInv'
  BY DEF IInv, TypeOK, FenceInv, WaitIdle
<1>10. QED
  BY <1>1, <1>2, <1>3, <1>4, <1>5, <1>6, <1>7, <1>8, <1>9 DEF IInv

LEMMA WaitIdleReturnsStep ==
  ASSUME IInv, "drain" \notin Faults, WaitIdleReturns
  PROVE  IInv'
<1>1. TypeOK'
  BY DEF IInv, TypeOK, WaitIdleReturns
<1>2. PendingInv'
  BY DEF IInv, TypeOK, PendingInv, WaitIdleReturns
<1>3. HookInv'
  BY DEF IInv, TypeOK, HookInv, WaitIdleReturns
<1>4. BatchInv'
  BY DEF IInv, TypeOK, BatchInv, WaitIdleReturns
<1>5. HolderInv'
  BY DEF IInv, TypeOK, HolderInv, WaitIdleReturns
<1>6. HostInv'
  BY DEF IInv, TypeOK, HostInv, WaitIdleReturns
<1>7. OwnerInv'
  BY DEF IInv, TypeOK, OwnerInv, WaitIdleReturns
<1>8. BoundInv'
  BY DEF IInv, TypeOK, BoundInv, WaitIdleReturns, Active, Cached
<1>9. FenceInv'
  BY DEF IInv, TypeOK, FenceInv, WaitIdleReturns
<1>10. QED
  BY <1>1, <1>2, <1>3, <1>4, <1>5, <1>6, <1>7, <1>8, <1>9 DEF IInv

LEMMA GpuCompleteStep ==
  ASSUME IInv, "drain" \notin Faults, NEW c \in CommandBuffers,
         GpuComplete(c)
  PROVE  IInv'
<1>1. TypeOK'
  BY DEF IInv, TypeOK, GpuComplete
<1>2. PendingInv'
  BY DEF IInv, TypeOK, PendingInv, GpuComplete
<1>3. HookInv'
  BY DEF IInv, TypeOK, HookInv, GpuComplete
<1>4. BatchInv'
  BY DEF IInv, TypeOK, BatchInv, GpuComplete
<1>5. HolderInv'
  BY DEF IInv, TypeOK, HolderInv, GpuComplete
<1>6. HostInv'
  BY DEF IInv, TypeOK, HostInv, GpuComplete
<1>7. OwnerInv'
  BY DEF IInv, TypeOK, OwnerInv, GpuComplete
<1>8. BoundInv'
  BY DEF IInv, TypeOK, BoundInv, GpuComplete, Active, Cached
<1>9. FenceInv'
  BY DEF IInv, TypeOK, FenceInv, GpuComplete
<1>10. QED
  BY <1>1, <1>2, <1>3, <1>4, <1>5, <1>6, <1>7, <1>8, <1>9 DEF IInv

LEMMA DeviceLostStep ==
  ASSUME IInv, "drain" \notin Faults, DeviceLost
  PROVE  IInv'
<1>1. TypeOK'
  BY DEF IInv, TypeOK, DeviceLost
<1>2. PendingInv'
  BY DEF IInv, TypeOK, PendingInv, DeviceLost
<1>3. HookInv'
  BY DEF IInv, TypeOK, HookInv, DeviceLost
<1>4. BatchInv'
  BY DEF IInv, TypeOK, BatchInv, DeviceLost
<1>5. HolderInv'
  BY DEF IInv, TypeOK, HolderInv, DeviceLost
<1>6. HostInv'
  BY DEF IInv, TypeOK, HostInv, DeviceLost
<1>7. OwnerInv'
  BY DEF IInv, TypeOK, OwnerInv, DeviceLost
<1>8. BoundInv'
  BY DEF IInv, TypeOK, BoundInv, DeviceLost, Active, Cached
<1>9. FenceInv'
  BY DEF IInv, TypeOK, FenceInv, DeviceLost
<1>10. QED
  BY <1>1, <1>2, <1>3, <1>4, <1>5, <1>6, <1>7, <1>8, <1>9 DEF IInv


-----------------------------------------------------------------------------
(* The theorems.                                                            *)

LEMMA IInvInit == Init => IInv
<1>. SUFFICES ASSUME Init PROVE IInv
  OBVIOUS
<1>1. TypeOK
  BY DEF Init, TypeOK, NoBatch
<1>2. PendingInv /\ HookInv /\ BatchInv /\ HolderInv /\ HostInv
  BY DEF Init, NoBatch, PendingInv, HookInv, BatchInv, HolderInv, HostInv
<1>3. OwnerInv /\ BoundInv /\ FenceInv
  BY DEF Init, NoBatch, OwnerInv, BoundInv, FenceInv
<1>4. QED
  BY <1>1, <1>2, <1>3 DEF IInv

LEMMA IInvStep ==
  ASSUME IInv, "drain" \notin Faults, [Next]_vars
  PROVE  IInv'
<1>1. CASE Call
  <2>1. CASE BeginFails \/ LaunchFails \/ OneShot \/ CacheClear \/ WaitIdle
    BY <2>1, BeginFailsStep, LaunchFailsStep, OneShotStep, CacheClearStep,
       WaitIdleStep
  <2>2. CASE \E f \in Fences, d \in Dispatches : Launch(f, d)
    BY <2>2, LaunchStep
  <2>3. ASSUME NEW b \in Batches, \E useCache \in BOOLEAN : BatchOpen(b, useCache)
        PROVE  IInv'
    BY <2>3, BatchOpenStep
  <2>4. ASSUME NEW b \in Batches,
               \E d \in Dispatches : BatchAdd(b, d) \/ BatchAddFails(b, d)
        PROVE  IInv'
    BY <2>4, BatchAddStep, BatchAddFailsStep
  <2>5. ASSUME NEW b \in Batches, \E f \in Fences : BatchSubmit(b, f)
        PROVE  IInv'
    BY <2>5, BatchSubmitStep
  <2>6. ASSUME NEW b \in Batches, BatchReuse(b) \/ BatchDestroy(b)
        PROVE  IInv'
    BY <2>6, BatchReuseStep, BatchDestroyStep
  <2>7. ASSUME NEW f \in Fences, FenceWait(f) \/ FencePoll(f) \/ FenceDrop(f)
        PROVE  IInv'
    BY <2>7, FenceWaitStep, FencePollStep, FenceDropStep
  <2>8. ASSUME NEW f \in Fences, NEW g \in Fences, FenceMove(f, g)
        PROVE  IInv'
    BY <2>8, FenceMoveStep
  <2>9. QED
    BY <1>1, <2>1, <2>2, <2>3, <2>4, <2>5, <2>6, <2>7, <2>8 DEF Call
<1>2. CASE Progress
  BY <1>2, EndFailsStep, QueueSubmitStep, QueueSubmitFailsStep,
     UnwindFenceStep, AssignStep, ShotWaitStep, ShotDropStep,
     FenceWaitReturnsStep, FenceDropReturnsStep, WaitIdleReturnsStep
     DEF Progress
<1>3. CASE \E c \in CommandBuffers : GpuComplete(c)
  BY <1>3, GpuCompleteStep
<1>4. CASE DeviceLost
  BY <1>4, DeviceLostStep
<1>5. CASE UNCHANGED vars
  BY <1>5 DEF vars, IInv, TypeOK, PendingInv, HookInv, BatchInv, HolderInv,
     HostInv, OwnerInv, BoundInv, FenceInv, Active, Cached
<1>6. QED
  BY <1>1, <1>2, <1>3, <1>4, <1>5 DEF Next

\* The inductive invariant holds in every reachable state.
THEOREM Invariance ==
  ASSUME "drain" \notin Faults
  PROVE  Spec => []IInv
<1>1. Init => IInv
  BY IInvInit
<1>2. IInv /\ [Next]_vars => IInv'
  BY IInvStep
<1>3. QED
  BY <1>1, <1>2, PTL DEF Spec

\* Type correctness of the submission core.
THEOREM TypeCorrect ==
  ASSUME "drain" \notin Faults
  PROVE  Spec => []TypeOK
<1>1. IInv => TypeOK
  BY DEF IInv
<1>2. QED
  BY <1>1, Invariance, PTL

\* What the GPU executes is never recycled under it: for any number of
\* command buffers, sets, fences and batches, whatever fails.
THEOREM InFlightSafe ==
  ASSUME "drain" \notin Faults
  PROVE  Spec => []InFlightIntact
<1>1. IInv => InFlightIntact
  BY DEF IInv, TypeOK, PendingInv, OwnerInv, BoundInv, Active, Cached,
     InFlightIntact
<1>2. QED
  BY <1>1, Invariance, PTL

\* The hook that fires recycles a command buffer that is done.
LEMMA FireDone ==
  ASSUME IInv, IInv', exec' = exec, NEW e \in Handles, FireHook(e),
         NEW h \in Handles, hook[h] # Null, hook'[h] # hook[h]
  PROVE  hook'[h] = Null /\ ~Pending(hook[h])
<1>1. h = e /\ hook'[h] = Null /\ FreeCommandBuffer(hook[h], own[hook[h]])
  BY DEF IInv, TypeOK, FireHook
<1>2. hook[h] \in CommandBuffers /\ hook[h] \notin cbs'
  BY <1>1 DEF IInv, TypeOK, FreeCommandBuffer
<1>3. QED
  BY <1>1, <1>2 DEF IInv, PendingInv

LEMMA DestroyDone ==
  ASSUME IInv, IInv', exec' = exec, NEW e \in Handles, Destroy(e),
         NEW h \in Handles, hook[h] # Null, hook'[h] # hook[h]
  PROVE  hook'[h] = Null /\ ~Pending(hook[h])
<1>1. CASE e \in submitted
  BY <1>1, FireDone DEF Destroy
<1>2. CASE e \notin submitted
  BY <1>2 DEF IInv, TypeOK, HookInv, Destroy
<1>3. QED
  BY <1>1, <1>2

LEMMA HookStep ==
  ASSUME IInv, IInv', [Next]_vars,
         NEW h \in Handles, hook[h] # Null, hook'[h] # hook[h]
  PROVE  hook'[h] = Null /\ ~Pending(hook[h])
<1>1. CASE Assign
  <2>1. /\ exec' = exec /\ fence[host.dst] \in Handles
        /\ Destroy(fence[host.dst])
    BY <1>1 DEF IInv, TypeOK, HostInv, Assign
  <2>2. QED
    BY <2>1, DestroyDone
<1>2. CASE FenceDropReturns
  <2>1. exec' = exec /\ host.h \in Handles /\ Destroy(host.h)
    BY <1>2 DEF IInv, TypeOK, HostInv, FenceDropReturns
  <2>2. QED
    BY <2>1, DestroyDone
<1>3. CASE FenceWaitReturns
  <2>1. exec' = exec /\ host.h \in Handles /\ FireHook(host.h)
    BY <1>3 DEF IInv, TypeOK, HostInv, FenceWaitReturns
  <2>2. QED
    BY <2>1, FireDone
<1>4. CASE \E f \in Fences : FencePoll(f)
  <2>1. PICK f \in Fences : FencePoll(f)
    BY <1>4
  <2>2. exec' = exec /\ fence[f] \in Handles /\ FireHook(fence[f])
    BY <2>1 DEF IInv, TypeOK, FencePoll
  <2>3. QED
    BY <2>2, FireDone
<1>5. CASE QueueSubmit
  <2>1. PICK e \in Handles : /\ vk[e] = "none"
                            /\ \/ hook' = hook
                               \/ hook' = [hook EXCEPT ![e] = host.cb]
    BY <1>5 DEF QueueSubmit
  <2>2. hook[e] = Null
    BY <2>1 DEF IInv, HookInv
  <2>3. QED
    BY <2>1, <2>2 DEF IInv, TypeOK
<1>6. CASE Call \/ UNCHANGED vars
  <2>1. hook' = hook \/ \E f \in Fences : FencePoll(f)
    BY <1>6 DEF Call, vars, BeginFails, LaunchFails, OneShot, CacheClear,
       WaitIdle, Launch, BatchOpen, BatchAdd, BatchAddFails, BatchSubmit,
       BatchReuse, BatchDestroy, FenceWait, FenceDrop, FenceMove
  <2>2. QED
    BY <1>4, <2>1
<1>7. CASE \/ EndFails \/ QueueSubmitFails \/ UnwindFence \/ ShotWait
           \/ ShotDrop \/ WaitIdleReturns \/ DeviceLost
           \/ \E c \in CommandBuffers : GpuComplete(c)
  BY <1>7 DEF EndFails, QueueSubmitFails, UnwindFence, ShotWait, ShotDrop,
     WaitIdleReturns, DeviceLost, GpuComplete
<1>8. QED
  BY <1>1, <1>2, <1>3, <1>5, <1>6, <1>7 DEF Next, Progress

\* A hook runs once, and only when its command buffer is done.
THEOREM HookAfterCompletion ==
  ASSUME "drain" \notin Faults
  PROVE  Spec => HookOnCompletion
<1>1. IInv /\ IInv' /\ [Next]_vars =>
        [\A h \in Handles :
           hook[h] # Null /\ hook'[h] # hook[h] =>
             hook'[h] = Null /\ ~Pending(hook[h])]_vars
  BY HookStep
<1>2. QED
  BY <1>1, Invariance, PTL DEF Spec, HookOnCompletion

\* Each command buffer and each set has at most one owner to free it.
THEOREM OwnedOnce ==
  ASSUME "drain" \notin Faults
  PROVE  Spec => []SoleOwner
<1>1. IInv => SoleOwner
  BY DEF IInv, TypeOK, HolderInv, OwnerInv, FenceInv, Cached, HeldByBatch,
     HeldByHook, HeldByHost, SoleOwner
<1>2. QED
  BY <1>1, Invariance, PTL

\* No descriptor set outlives its owner.
THEOREM SetsOwned ==
  ASSUME "drain" \notin Faults
  PROVE  Spec => []SetsAccounted
<1>1. ASSUME IInv
      PROVE  SetsAccounted
  <2>1. live \subseteq Cached \cup UNION {own[c] : c \in cbs}
    <3>1. ASSUME NEW s \in live, s \notin Cached
          PROVE  \E c \in cbs : s \in own[c]
      BY <1>1, <3>1 DEF IInv, TypeOK, OwnerInv, Cached
    <3>2. QED
      BY <3>1
  <2>2. Cached \subseteq live /\ \A c \in cbs : own[c] \subseteq live
    BY <1>1 DEF IInv, TypeOK, OwnerInv, Cached
  <2>3. QED
    BY <2>1, <2>2 DEF SetsAccounted
<1>2. QED
  BY <1>1, Invariance, PTL

\* What a Batch recorded stays submittable and cached sets stay allocated.
THEOREM RecordedSafe ==
  ASSUME "drain" \notin Faults
  PROVE  Spec => []RecordedIntact
<1>1. IInv => RecordedIntact
  BY DEF IInv, TypeOK, BatchInv, OwnerInv, BoundInv, Active, Cached,
     RecordedIntact
<1>2. QED
  BY <1>1, Invariance, PTL
-----------------------------------------------------------------------------
(* What is lost, and where.                                                 *)

\* Somebody will free the command buffer c.
Holds(c) == \/ \E b \in Batches : batch[b].cb = c
            \/ \E h \in Handles : hook[h] = c
            \/ host.cb = c

\* A Batch that was not constructed holds nothing to be overwritten.
Unopened == \A b \in Batches : batch[b].st = "none" => batch[b].cb = Null

LEMMA UnopenedStep ==
  ASSUME IInv, Unopened, [Next]_vars
  PROVE  Unopened'
<1>1. CASE batch' = batch
  BY <1>1 DEF Unopened
<1>2. ASSUME NEW b \in Batches, \E useCache \in BOOLEAN : BatchOpen(b, useCache)
      PROVE  Unopened'
  <2>1. PICK useCache \in BOOLEAN, c \in CommandBuffers :
          batch' = [batch EXCEPT ![b] = [st |-> "open", cb |-> c, cached |-> useCache]]
    BY <1>2 DEF BatchOpen
  <2>2. \A e \in Batches : e # b => batch'[e] = batch[e]
    BY <2>1
  <2>3. batch'[b].st = "open"
    BY <2>1 DEF IInv, TypeOK
  <2>. QED
    BY <2>2, <2>3 DEF Unopened
<1>3. ASSUME NEW b \in Batches, (\E f \in Fences : BatchSubmit(b, f)) \/ BatchDestroy(b)
      PROVE  Unopened'
  <2>1. \/ batch' = [batch EXCEPT ![b] = [st |-> "spent", cb |-> Null, cached |-> @.cached]]
        \/ batch' = [batch EXCEPT ![b] = NoBatch]
    BY <1>3 DEF BatchSubmit, BatchDestroy
  <2>2. \A e \in Batches : e # b => batch'[e] = batch[e]
    BY <2>1 DEF IInv, TypeOK
  <2>3. batch'[b].cb = Null
    BY <2>1 DEF IInv, TypeOK, NoBatch
  <2>. QED
    BY <2>2, <2>3 DEF Unopened
<1>4. CASE Call
  <2>1. \/ batch' = batch
        \/ \E b \in Batches : \E useCache \in BOOLEAN : BatchOpen(b, useCache)
        \/ \E b \in Batches : (\E f \in Fences : BatchSubmit(b, f)) \/ BatchDestroy(b)
    BY <1>4 DEF Call, BeginFails, LaunchFails, OneShot, CacheClear, WaitIdle, Launch,
       BatchAdd, BatchAddFails, BatchReuse, FenceWait, FencePoll, FenceDrop, FenceMove
  <2>. QED
    BY <1>1, <1>2, <1>3, <2>1
<1>5. CASE Progress
  <2>1. batch' = batch
    BY <1>5 DEF Progress, EndFails, QueueSubmit, QueueSubmitFails, UnwindFence, Assign,
       ShotWait, ShotDrop, FenceWaitReturns, FenceDropReturns, WaitIdleReturns
  <2>. QED
    BY <1>1, <2>1
<1>6. CASE (\E c \in CommandBuffers : GpuComplete(c)) \/ DeviceLost \/ UNCHANGED vars
  BY <1>1, <1>6 DEF GpuComplete, DeviceLost, vars
<1>. QED
  BY <1>4, <1>5, <1>6 DEF Next

LEMMA Unopening ==
  ASSUME "drain" \notin Faults
  PROVE  Spec => []Unopened
<1>1. Init => Unopened
  BY DEF Init, Unopened, NoBatch
<1>2. IInv /\ Unopened /\ [Next]_vars => Unopened'
  BY UnopenedStep
<1>. QED
  BY <1>1, <1>2, Invariance, PTL DEF Spec

\* A step that keeps holding what stays allocated, and holds what it allocates,
\* loses nothing.
LEMMA NothingLost ==
  ASSUME IInv, IInv',
         \A c \in CommandBuffers : c \in cbs /\ c \in cbs' /\ Holds(c) => Holds(c)',
         \A c \in CommandBuffers : c \in cbs' /\ c \notin cbs => Holds(c)'
  PROVE  Leaked' \subseteq Leaked
<1>1. cbs \subseteq CommandBuffers /\ cbs' \subseteq CommandBuffers /\ Null \notin CommandBuffers
  BY DEF IInv, TypeOK
<1>2. \A c \in CommandBuffers : c \in Held <=> Holds(c)
  BY DEF Held, HeldByBatch, HeldByHook, HeldByHost, Holds
<1>3. \A c \in CommandBuffers : c \in Held' <=> Holds(c)'
  BY DEF Held, HeldByBatch, HeldByHook, HeldByHost, Holds
<1>. QED
  BY <1>1, <1>2, <1>3 DEF Leaked

\* The hook that runs frees what it held, and lets go of nothing else.
LEMMA FireHolds ==
  ASSUME IInv, NEW h \in Handles, FireHook(h)
  PROVE  /\ cbs' \subseteq cbs
         /\ \A c \in cbs', e \in Handles : hook[e] = c => hook'[e] = c
<1>1. CASE hook[h] = Null
  BY <1>1 DEF FireHook
<1>2. CASE hook[h] # Null
  <2>1. cbs' = cbs \ {hook[h]} /\ hook' = [hook EXCEPT ![h] = Null]
    BY <1>2 DEF FireHook, FreeCommandBuffer
  <2>. QED
    BY <2>1 DEF IInv, TypeOK
<1>. QED
  BY <1>1, <1>2

\* Nor does a submitted fence that is destroyed.
LEMMA DestroyHolds ==
  ASSUME IInv, NEW h \in Handles, Destroy(h)
  PROVE  /\ cbs' \subseteq cbs
         /\ \A c \in cbs', e \in Handles : hook[e] = c => hook'[e] = c
<1>1. CASE h \in submitted
  BY <1>1, FireHolds DEF Destroy
<1>2. CASE h \notin submitted
  <2>1. hook[h] = Null /\ cbs' = cbs /\ hook' = [hook EXCEPT ![h] = Null]
    BY <1>2 DEF IInv, HookInv, Destroy
  <2>2. hook' = hook
    BY <2>1 DEF IInv, TypeOK
  <2>. QED
    BY <2>1, <2>2
<1>. QED
  BY <1>1, <1>2

\* A step that allocates nothing, keeps what the Batches and the call hold, and
\* of the hooks loses only what it freed.
LEMMA HooksKeep ==
  ASSUME IInv, IInv', batch' = batch, cbs' \subseteq cbs,
         \A c \in cbs', e \in Handles : hook[e] = c => hook'[e] = c,
         \A c \in cbs' : host.cb = c => Holds(c)'
  PROVE  Leaked' \subseteq Leaked
<1>1. ASSUME NEW c \in CommandBuffers, c \in cbs', Holds(c) PROVE Holds(c)'
  <2>1. CASE \E b \in Batches : batch[b].cb = c
    BY <2>1 DEF Holds
  <2>2. CASE \E h \in Handles : hook[h] = c
    BY <1>1, <2>2 DEF Holds
  <2>3. CASE host.cb = c
    BY <1>1, <2>3
  <2>. QED
    BY <1>1, <2>1, <2>2, <2>3 DEF Holds
<1>. QED
  BY <1>1, NothingLost

\* One step for each action that frees, allocates or passes on.
LEMMA CallLoses ==
  ASSUME IInv, IInv', Unopened, Call
  PROVE  Leaked' \subseteq Leaked \/ BeginFails
<1>0. Null \notin CommandBuffers /\ cbs \subseteq CommandBuffers
  BY DEF IInv, TypeOK
<1>1. ASSUME NEW f \in Fences, NEW d \in Dispatches, Launch(f, d)
      PROVE  Leaked' \subseteq Leaked
  <2>1. PICK c \in CommandBuffers :
          cbs' = cbs \cup {c} /\ host' = Frame("submit", c, Null, f)
    BY <1>1 DEF Launch
  <2>2. host.cb = Null /\ host'.cb = c /\ hook' = hook /\ batch' = batch
    BY <1>1, <2>1 DEF Launch
  <2>. QED
    BY <1>0, <2>1, <2>2, NothingLost DEF Holds
<1>2. ASSUME OneShot PROVE Leaked' \subseteq Leaked
  <2>1. PICK c \in CommandBuffers :
          cbs' = cbs \cup {c} /\ host' = Frame("submit", c, Null, Null)
    BY <1>2 DEF OneShot
  <2>2. host.cb = Null /\ host'.cb = c /\ hook' = hook /\ batch' = batch
    BY <1>2, <2>1 DEF OneShot
  <2>. QED
    BY <1>0, <2>1, <2>2, NothingLost DEF Holds
<1>3. ASSUME NEW b \in Batches, NEW useCache \in BOOLEAN, BatchOpen(b, useCache)
      PROVE  Leaked' \subseteq Leaked
  <2>1. PICK c \in CommandBuffers :
          /\ cbs' = cbs \cup {c}
          /\ batch' = [batch EXCEPT ![b] = [st |-> "open", cb |-> c, cached |-> useCache]]
    BY <1>3 DEF BatchOpen
  <2>2. host' = host /\ hook' = hook /\ batch[b].cb = Null
    BY <1>3 DEF BatchOpen, Unopened
  <2>3. batch'[b].cb = c /\ \A e \in Batches : e # b => batch'[e] = batch[e]
    BY <2>1 DEF IInv, TypeOK
  <2>4. \A e \in CommandBuffers : Holds(e) => Holds(e)'
    BY <1>0, <2>2, <2>3 DEF Holds
  <2>5. Holds(c)'
    BY <2>3 DEF Holds
  <2>. QED
    BY <2>1, <2>4, <2>5, NothingLost
<1>4. ASSUME NEW b \in Batches, NEW f \in Fences, BatchSubmit(b, f)
      PROVE  Leaked' \subseteq Leaked
  <2>1. /\ cbs' = cbs /\ hook' = hook /\ host.cb = Null /\ host'.cb = batch[b].cb
        /\ batch' = [batch EXCEPT ![b] = [st |-> "spent", cb |-> Null, cached |-> @.cached]]
    BY <1>4 DEF BatchSubmit
  <2>2. \A e \in Batches : e # b => batch'[e] = batch[e]
    BY <2>1
  <2>3. \A c \in CommandBuffers : Holds(c) => Holds(c)'
    BY <1>0, <2>1, <2>2 DEF Holds
  <2>. QED
    BY <2>1, <2>3, NothingLost
<1>5. ASSUME NEW b \in Batches, BatchDestroy(b)
      PROVE  Leaked' \subseteq Leaked
  <2>1. /\ hook' = hook /\ host.cb = Null
        /\ cbs' = IF batch[b].cb = Null THEN cbs ELSE cbs \ {batch[b].cb}
        /\ batch' = [batch EXCEPT ![b] = NoBatch]
    BY <1>5 DEF BatchDestroy, FreeCommandBuffer
  <2>2. \A e \in Batches : e # b => batch'[e] = batch[e]
    BY <2>1
  <2>3. \A c \in CommandBuffers : c \in cbs' /\ Holds(c) => Holds(c)'
    BY <1>0, <2>1, <2>2 DEF Holds
  <2>4. cbs' \subseteq cbs
    BY <2>1
  <2>. QED
    BY <2>3, <2>4, NothingLost
<1>6. ASSUME NEW f \in Fences, FencePoll(f) PROVE Leaked' \subseteq Leaked
  <2>1. fence[f] \in Handles /\ FireHook(fence[f]) /\ batch' = batch /\ host.cb = Null
    BY <1>6 DEF FencePoll, IInv, TypeOK
  <2>2. Null \notin cbs'
    BY DEF IInv, TypeOK
  <2>. QED
    BY <2>1, <2>2, FireHolds, HooksKeep
<1>7. ASSUME cbs' = cbs, hook' = hook, batch' = batch, host.cb = Null
      PROVE  Leaked' \subseteq Leaked
  <2>1. \A c \in CommandBuffers : Holds(c) => Holds(c)'
    BY <1>0, <1>7 DEF Holds
  <2>. QED
    BY <1>7, <2>1, NothingLost
<1>8. CASE LaunchFails \/ CacheClear \/ WaitIdle
  BY <1>7, <1>8 DEF LaunchFails, CacheClear, WaitIdle
<1>9. ASSUME NEW b \in Batches, BatchReuse(b) \/ \E d \in Dispatches : BatchAdd(b, d) \/ BatchAddFails(b, d)
      PROVE  Leaked' \subseteq Leaked
  BY <1>7, <1>9 DEF BatchReuse, BatchAdd, BatchAddFails
<1>10. ASSUME NEW f \in Fences, FenceWait(f) \/ FenceDrop(f) \/ \E g \in Fences : FenceMove(f, g)
       PROVE  Leaked' \subseteq Leaked
  BY <1>7, <1>10 DEF FenceWait, FenceDrop, FenceMove
<1>. QED
  BY <1>1, <1>2, <1>3, <1>4, <1>5, <1>6, <1>8, <1>9, <1>10 DEF Call

LEMMA ProgressLoses ==
  ASSUME IInv, IInv', Progress
  PROVE  Leaked' \subseteq Leaked \/ EndFails \/ UnwindFence
<1>0. Null \notin CommandBuffers /\ cbs \subseteq CommandBuffers /\ Null \notin cbs'
  BY DEF IInv, TypeOK
<1>1. CASE QueueSubmit
  <2>1. PICK h \in Handles :
          /\ vk[h] = "none"
          /\ IF host.dst = Null
             THEN hook' = hook /\ host' = Frame("shotWait", host.cb, h, Null)
             ELSE /\ hook' = [hook EXCEPT ![h] = host.cb]
                  /\ host' = Frame("assign", Null, h, host.dst)
    BY <1>1 DEF QueueSubmit
  <2>2. cbs' = cbs /\ batch' = batch
    BY <1>1 DEF QueueSubmit
  <2>3. hook[h] = Null
    BY <2>1 DEF IInv, HookInv
  <2>4. \A c \in cbs', e \in Handles : hook[e] = c => hook'[e] = c
    BY <1>0, <2>1, <2>3 DEF IInv, TypeOK
  <2>5. ASSUME NEW c \in cbs', host.cb = c PROVE Holds(c)'
    <3>1. CASE host.dst = Null
      BY <2>1, <2>5, <3>1 DEF Holds
    <3>2. CASE host.dst # Null
      <4>1. hook'[h] = host.cb
        BY <2>1, <3>2 DEF IInv, TypeOK
      <4>. QED
        BY <2>5, <4>1 DEF Holds
    <3>. QED
      BY <3>1, <3>2
  <2>. QED
    BY <2>2, <2>4, <2>5, HooksKeep
<1>2. CASE QueueSubmitFails
  <2>1. cbs' = cbs /\ batch' = batch /\ hook' = hook /\ host'.cb = host.cb
    BY <1>2 DEF QueueSubmitFails, IInv, TypeOK
  <2>. QED
    BY <2>1, HooksKeep DEF Holds
<1>3. CASE Assign
  <2>1. batch' = batch /\ host.cb = Null
    BY <1>3 DEF Assign, IInv, HostInv
  <2>2. CASE fence[host.dst] = Null
    <3>1. cbs' = cbs /\ hook' = hook
      BY <1>3, <2>2 DEF Assign
    <3>. QED
      BY <1>0, <2>1, <3>1, HooksKeep
  <2>3. CASE fence[host.dst] # Null
    <3>1. Destroy(fence[host.dst]) /\ fence[host.dst] \in Handles
      BY <1>3, <2>3 DEF Assign, IInv, TypeOK, HostInv
    <3>. QED
      BY <1>0, <2>1, <3>1, DestroyHolds, HooksKeep
  <2>. QED
    BY <2>2, <2>3
<1>4. CASE ShotWait
  <2>1. cbs' = cbs /\ batch' = batch /\ hook' = hook /\ host'.cb = host.cb
    BY <1>4 DEF ShotWait, IInv, TypeOK
  <2>. QED
    BY <2>1, HooksKeep DEF Holds
<1>5. CASE ShotDrop
  <2>1. cbs' = cbs \ {host.cb} /\ batch' = batch /\ hook' = hook
    BY <1>5 DEF ShotDrop, FreeCommandBuffer
  <2>. QED
    BY <2>1, HooksKeep
<1>6. CASE FenceWaitReturns
  <2>1. batch' = batch /\ host.cb = Null /\ host.h \in Handles
    BY <1>6 DEF FenceWaitReturns, IInv, HostInv, TypeOK
  <2>2. FireHook(host.h) \/ (cbs' = cbs /\ hook' = hook)
    BY <1>6 DEF FenceWaitReturns
  <2>3. /\ cbs' \subseteq cbs
        /\ \A c \in cbs', e \in Handles : hook[e] = c => hook'[e] = c
    BY <2>1, <2>2, FireHolds
  <2>. QED
    BY <1>0, <2>1, <2>3, HooksKeep
<1>7. CASE FenceDropReturns
  <2>1. batch' = batch /\ host.cb = Null /\ host.h \in Handles /\ Destroy(host.h)
    BY <1>7 DEF FenceDropReturns, IInv, HostInv, TypeOK
  <2>2. /\ cbs' \subseteq cbs
        /\ \A c \in cbs', e \in Handles : hook[e] = c => hook'[e] = c
    BY <2>1, DestroyHolds
  <2>. QED
    BY <1>0, <2>1, <2>2, HooksKeep
<1>8. CASE WaitIdleReturns
  <2>1. cbs' = cbs /\ batch' = batch /\ hook' = hook /\ host.cb = Null
    BY <1>8 DEF WaitIdleReturns, IInv, HostInv
  <2>. QED
    BY <1>0, <2>1, HooksKeep
<1>. QED
  BY <1>1, <1>2, <1>3, <1>4, <1>5, <1>6, <1>7, <1>8 DEF Progress

\* A command buffer is lost in three places and no other: the handle that
\* begin_one_shot just allocated, and what launch() or Batch::submit had handed
\* to a Context::submit that throws (LeaksOnlyOnThrow says that these throw).
THEOREM LeaksWhereItThrows ==
  ASSUME "drain" \notin Faults
  PROVE  Spec => LeaksOnlyOnThrow
<1>1. ASSUME IInv, IInv', Unopened, [Next]_vars
      PROVE  Leaked' \subseteq Leaked \/ BeginFails \/ EndFails \/ UnwindFence
  <2>1. ASSUME cbs' = cbs, hook' = hook, batch' = batch, host' = host
        PROVE  Leaked' \subseteq Leaked
    BY <2>1 DEF Leaked, Held, HeldByBatch, HeldByHook, HeldByHost
  <2>2. CASE (\E c \in CommandBuffers : GpuComplete(c)) \/ DeviceLost \/ UNCHANGED vars
    BY <2>1, <2>2 DEF GpuComplete, DeviceLost, vars
  <2>. QED
    BY <1>1, <2>2, CallLoses, ProgressLoses DEF Next
<1>2. BeginFails \/ EndFails \/ UnwindFence => thrown' \in {"begin", "submit"}
  BY DEF BeginFails, EndFails, UnwindFence, Unwind
<1>3. IInv /\ IInv' /\ Unopened /\ [Next]_vars =>
        [Leaked' \subseteq Leaked \/ thrown' \in {"begin", "submit"}]_vars
  BY <1>1, <1>2
<1>. QED
  BY <1>3, Invariance, Unopening, PTL DEF Spec, LeaksOnlyOnThrow

-----------------------------------------------------------------------------
(* Refinement of Recycling.                                                 *)

HeldNow == cbs \cup live

\* With nothing started or finished, only executing command buffers' sets
\* matter to InUse.
LEMMA SameUse ==
  ASSUME exec' = exec,
         \A c \in CommandBuffers : Pending(c) => bound'[c] = bound[c]
  PROVE  InUse' = InUse
BY DEF InUse

LEMMA UseHeld ==
  ASSUME IInv
  PROVE  InUse \subseteq HeldNow
BY DEF IInv, TypeOK, PendingInv, OwnerInv, BoundInv, Active, Cached, InUse,
   HeldNow

\* Growing or shrinking what is held, while the device goes on as before.
LEMMA HostStep ==
  ASSUME IInv, IInv', InUse' = InUse,
         HeldNow \subseteq HeldNow' \/ HeldNow' \subseteq HeldNow
  PROVE  Promise!Next
<1>1. InUse' \subseteq HeldNow'
  <2>1. IInv' => (InUse \subseteq HeldNow)'
    BY UseHeld, PTL
  <2>2. QED
    BY <2>1
<1>2. HeldNow' \subseteq CommandBuffers \cup Sets
  BY DEF IInv, TypeOK, HeldNow
<1>3. QED
  BY <1>1, <1>2 DEF Promise!Next, Promise!Acquire, Promise!Release, HeldNow
\* Giving a command buffer back takes nothing the device still uses.
LEMMA FreeShrinks ==
  ASSUME IInv, IInv', exec' = exec, NEW c \in CommandBuffers, NEW S,
         FreeCommandBuffer(c, S)
  PROVE  InUse' = InUse /\ HeldNow' \subseteq HeldNow
<1>1. ~Pending(c)
  BY DEF IInv, PendingInv, FreeCommandBuffer
<1>2. \A e \in CommandBuffers : Pending(e) => bound'[e] = bound[e]
  BY <1>1 DEF IInv, TypeOK, FreeCommandBuffer
<1>3. QED
  BY <1>2, SameUse DEF FreeCommandBuffer, HeldNow

LEMMA SamePool ==
  ASSUME exec' = exec, UNCHANGED pool
  PROVE  InUse' = InUse /\ HeldNow' = HeldNow
BY DEF InUse, HeldNow

LEMMA FireShrinks ==
  ASSUME IInv, IInv', exec' = exec, NEW h \in Handles, FireHook(h)
  PROVE  InUse' = InUse /\ HeldNow' \subseteq HeldNow
<1>1. CASE hook[h] = Null
  BY <1>1, SamePool DEF FireHook
<1>2. CASE hook[h] # Null
  BY <1>2, FreeShrinks DEF IInv, TypeOK, FireHook
<1>3. QED
  BY <1>1, <1>2

LEMMA DestroyShrinks ==
  ASSUME IInv, IInv', exec' = exec, NEW h \in Handles, Destroy(h)
  PROVE  InUse' = InUse /\ HeldNow' \subseteq HeldNow
BY FireShrinks, SamePool DEF Destroy

LEMMA UnwindShrinks ==
  ASSUME IInv, IInv', exec' = exec, host.cb \in CommandBuffers,
         NEW result, Unwind(result)
  PROVE  InUse' = InUse /\ HeldNow' \subseteq HeldNow
BY FreeShrinks, SamePool DEF Unwind

\* Each step of the core is a step of the promise, or leaves it unchanged.
LEMMA RefinesStep ==
  ASSUME IInv, IInv', [Next]_vars
  PROVE  Promise!Next \/ (InUse' = InUse /\ HeldNow' = HeldNow)
<1>1. CASE \/ LaunchFails \/ WaitIdle \/ QueueSubmitFails \/ ShotWait
           \/ WaitIdleReturns \/ UNCHANGED vars
           \/ \E b \in Batches : \/ BatchReuse(b)
                                 \/ \E f \in Fences : BatchSubmit(b, f)
           \/ \E f \in Fences : \/ FenceWait(f) \/ FenceDrop(f)
                                \/ \E g \in Fences : FenceMove(f, g)
  <2>1. exec' = exec /\ UNCHANGED pool
    BY <1>1 DEF LaunchFails, WaitIdle, QueueSubmitFails, ShotWait,
       WaitIdleReturns, BatchReuse, BatchSubmit, FenceWait, FenceDrop,
       FenceMove, vars
  <2>2. QED
    BY <2>1, SamePool
<1>2. CASE BeginFails \/ OneShot \/ (\E f \in Fences, d \in Dispatches : Launch(f, d))
           \/ (\E b \in Batches, useCache \in BOOLEAN : BatchOpen(b, useCache))
  <2>1. exec' = exec /\ HeldNow \subseteq HeldNow'
    BY <1>2 DEF BeginFails, OneShot, Launch, BatchOpen, HeldNow
  <2>2. \A c \in CommandBuffers : Pending(c) => bound'[c] = bound[c]
    BY <1>2 DEF IInv, TypeOK, PendingInv, BeginFails, OneShot, Launch, BatchOpen
  <2>3. QED
    BY <2>1, <2>2, SameUse, HostStep
<1>3. CASE \E b \in Batches, d \in Dispatches : BatchAdd(b, d) \/ BatchAddFails(b, d)
  <2>1. exec' = exec /\ HeldNow \subseteq HeldNow'
    BY <1>3 DEF BatchAdd, BatchAddFails, HeldNow
  <2>2. \A c \in CommandBuffers : Pending(c) => bound'[c] = bound[c]
    BY <1>3 DEF IInv, TypeOK, BatchInv, BatchAdd, BatchAddFails
  <2>3. QED
    BY <2>1, <2>2, SameUse, HostStep
<1>4. CASE CacheClear
  <2>1. /\ exec' = exec /\ HeldNow' \subseteq HeldNow
        /\ \A c \in CommandBuffers : Pending(c) => bound'[c] = bound[c]
    BY <1>4 DEF CacheClear, HeldNow
  <2>2. QED
    BY <2>1, SameUse, HostStep
<1>5. ASSUME NEW b \in Batches, BatchDestroy(b)
      PROVE  Promise!Next \/ (InUse' = InUse /\ HeldNow' = HeldNow)
  <2>1. exec' = exec
    BY <1>5 DEF BatchDestroy
  <2>2. CASE batch[b].cb = Null
    BY <1>5, <2>1, <2>2, SamePool DEF BatchDestroy
  <2>3. CASE batch[b].cb # Null
    <3>1. batch[b].cb \in CommandBuffers
      BY <2>3 DEF IInv, TypeOK
    <3>2. FreeCommandBuffer(batch[b].cb, own[batch[b].cb])
      BY <1>5, <2>3 DEF BatchDestroy
    <3>3. QED
      BY <2>1, <3>1, <3>2, FreeShrinks, HostStep
  <2>4. QED
    BY <2>2, <2>3
<1>6. CASE EndFails \/ UnwindFence
  <2>1. exec' = exec /\ host.cb \in CommandBuffers /\ Unwind("submit")
    BY <1>6 DEF IInv, TypeOK, HostInv, EndFails, UnwindFence
  <2>2. QED
    BY <2>1, UnwindShrinks, HostStep
<1>7. CASE ShotDrop
  <2>1. /\ exec' = exec /\ host.cb \in CommandBuffers
        /\ FreeCommandBuffer(host.cb, {})
    BY <1>7 DEF IInv, TypeOK, HostInv, ShotDrop
  <2>2. QED
    BY <2>1, FreeShrinks, HostStep
<1>8. CASE Assign
  <2>1. exec' = exec /\ host.dst \in Fences
    BY <1>8 DEF IInv, TypeOK, HostInv, Assign
  <2>2. CASE fence[host.dst] = Null
    BY <1>8, <2>1, <2>2, SamePool DEF Assign
  <2>3. CASE fence[host.dst] # Null
    <3>1. fence[host.dst] \in Handles
      BY <2>1, <2>3 DEF IInv, TypeOK
    <3>2. Destroy(fence[host.dst])
      BY <1>8, <2>3 DEF Assign
    <3>3. QED
      BY <2>1, <3>1, <3>2, DestroyShrinks, HostStep
  <2>4. QED
    BY <2>2, <2>3
<1>9. CASE FenceDropReturns
  <2>1. exec' = exec /\ host.h \in Handles /\ Destroy(host.h)
    BY <1>9 DEF IInv, TypeOK, HostInv, FenceDropReturns
  <2>2. QED
    BY <2>1, DestroyShrinks, HostStep
<1>10. CASE FenceWaitReturns
  <2>1. exec' = exec /\ host.h \in Handles
    BY <1>10 DEF IInv, TypeOK, HostInv, FenceWaitReturns
  <2>2. CASE FireHook(host.h)
    BY <2>1, <2>2, FireShrinks, HostStep
  <2>3. CASE UNCHANGED pool
    BY <2>1, <2>3, SamePool
  <2>4. QED
    BY <1>10, <2>2, <2>3 DEF FenceWaitReturns
<1>11. CASE \E f \in Fences : FencePoll(f)
  <2>1. PICK f \in Fences : FencePoll(f)
    BY <1>11
  <2>2. exec' = exec /\ fence[f] \in Handles /\ FireHook(fence[f])
    BY <2>1 DEF IInv, TypeOK, FencePoll
  <2>3. QED
    BY <2>2, FireShrinks, HostStep
<1>12. CASE QueueSubmit
  <2>1. /\ UNCHANGED pool /\ host.cb \in CommandBuffers
        /\ \E h \in Handles : exec' = [exec EXCEPT ![host.cb] = h]
    BY <1>12 DEF IInv, TypeOK, HostInv, QueueSubmit
  <2>2. \A c \in CommandBuffers : Pending(c) => Pending(c)'
    BY <2>1 DEF IInv, TypeOK
  <2>3. InUse \subseteq InUse' /\ HeldNow' = HeldNow
    BY <2>1, <2>2 DEF InUse, HeldNow
  <2>4. InUse' \subseteq HeldNow'
    <3>1. IInv' => (InUse \subseteq HeldNow)'
      BY UseHeld, PTL
    <3>2. QED
      BY <3>1
  <2>5. QED
    BY <2>3, <2>4 DEF Promise!Next, Promise!Start, HeldNow
<1>13. CASE DeviceLost \/ (\E c \in CommandBuffers : GpuComplete(c))
  <2>1. UNCHANGED pool /\ \A c \in CommandBuffers : Pending(c)' => Pending(c)
    BY <1>13 DEF IInv, TypeOK, DeviceLost, GpuComplete
  <2>2. InUse' \subseteq InUse /\ HeldNow' = HeldNow
    BY <2>1 DEF InUse, HeldNow
  <2>3. QED
    BY <2>2 DEF Promise!Next, Promise!Finish, HeldNow
<1>14. QED
  BY <1>1, <1>2, <1>3, <1>4, <1>5, <1>6, <1>7, <1>8, <1>9, <1>10, <1>11,
     <1>12, <1>13 DEF Next, Call, Progress

\* The submission core implements the abstract promise: resources are given
\* back only while the device does not use them.
THEOREM Refinement ==
  ASSUME "drain" \notin Faults
  PROVE  Spec => RecyclesSafely
<1>1. Init => Promise!Init
  BY DEF Init, Promise!Init, InUse
<1>2. IInv /\ IInv' /\ [Next]_vars => [Promise!Next]_<<HeldNow, InUse>>
  BY RefinesStep
<1>3. QED
  BY <1>1, <1>2, Invariance, PTL DEF Spec, RecyclesSafely, Promise!Spec, HeldNow
===============================================================================
