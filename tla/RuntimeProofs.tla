---------------------------- MODULE RuntimeProofs ----------------------------
(***************************************************************************)
(* Proofs about Runtime for any number of buffers, kernels, sets and pools   *)
(* and batches of any length.  One invariant says who holds each descriptor  *)
(* set, that a hook's and a batch's sets are their own, and that an entry of *)
(* the cache is right as long as no buffer of it died; the other one what    *)
(* every buffer's memory has between calls, and a batch between dispatches.  *)
(***************************************************************************)
EXTENDS Runtime, FiniteFacts

Command == [in : Handles, out : Handles, pre : BOOLEAN]
Objects == Handles \X Nat
Keys    == Kernels \X Handles \X Handles
Entries == [key : Keys, set : Sets]
Uses    == [set : Sets, asked : Objects \X Objects]
Batches == [open : BOOLEAN, cached : BOOLEAN, ops : Seq(Command), own : SUBSET Sets]

\* What of the state is about descriptor sets, and its types.
Typed ==
  /\ gen \in [Handles -> Nat]
  /\ pools \in Nat
  /\ home \in [Sets -> Nat] /\ setPool \in [Sets -> Nat]
  /\ bound \in [Sets -> {<<>>} \cup (Objects \X Objects)]
  /\ cache \subseteq Entries
  /\ dirty \in BOOLEAN
  /\ batch \in Batches
  /\ flight = None \/ flight \subseteq Sets
  /\ used \subseteq Uses

Flying == IF flight = None THEN {} ELSE flight

Cached == {e.set : e \in cache}

\* The three owners of sets have none in common; a batch with a cache owns none.
Owners ==
  /\ \A s \in Sets : home[s] # 0 <=> s \in Cached \/ s \in Flying \/ s \in batch.own
  /\ \A s \in Sets : setPool[s] = home[s]
  /\ \A s \in Cached : s \notin Flying /\ s \notin batch.own
  /\ \A s \in Flying : s \notin batch.own
  /\ ~batch.open \/ batch.cached => batch.own = {}

\* An entry's set names the buffers that have the key's handles now.
Entry(e) == /\ bound[e.set] = <<Object(e.key[2]), Object(e.key[3])>>
            /\ e.key[2] \in Live /\ e.key[3] \in Live

Coherent == ~dirty => \A e \in cache : Entry(e)

\* Sets of work are somebody's while the work is recorded or in flight.
Work ==
  /\ \A u \in used : home[u.set] # 0 /\ bound[u.set] = u.asked
  /\ ~batch.open /\ flight = None => used = {}

IInv == Typed /\ Owners /\ Coherent /\ Work

-----------------------------------------------------------------------------
\* What binding a dispatch does: the set is the cache's and right already, or
\* it was free and is written now.
Hit(k, in, out, cached, s) ==
  /\ cached /\ s \in Cached /\ bound[s] = <<Object(in), Object(out)>>
  /\ UNCHANGED <<descriptors, cache>>

Written(k, in, out, cached, s) ==
  /\ home[s] = 0
  /\ \E p \in Nat \ {0} :
       /\ pools' = p
       /\ home' = [home EXCEPT ![s] = p]
       /\ setPool' = [setPool EXCEPT ![s] = p]
  /\ bound' = [bound EXCEPT ![s] = <<Object(in), Object(out)>>]
  /\ cache' = cache \cup (IF cached THEN {[key |-> Key(k, in, out), set |-> s]} ELSE {})

LEMMA Binds ==
  ASSUME IInv, NEW k \in Kernels, NEW in \in Live, NEW out \in Live, NEW cached \in BOOLEAN,
         NEW s \in Sets, cached => ~dirty, Bind(k, in, out, cached, s)
  PROVE  /\ used' = used \cup {[set |-> s, asked |-> <<Object(in), Object(out)>>]}
         /\ Hit(k, in, out, cached, s) \/ Written(k, in, out, cached, s)
<1> DEFINE asked == <<Object(in), Object(out)>>
           hit == {e \in cache : cached /\ e.key = Key(k, in, out)}
<1>1. /\ used' = used \cup {[set |-> s, asked |-> asked]}
      /\ \/ \E e \in hit : e.set = s /\ UNCHANGED <<descriptors, cache>>
         \/ /\ hit = {}
            /\ Allocate(s, asked)
            /\ cache' = cache \cup (IF cached THEN {[key |-> Key(k, in, out), set |-> s]} ELSE {})
  BY DEF Bind
<1>2. ASSUME NEW e \in hit, e.set = s, UNCHANGED <<descriptors, cache>>
      PROVE  Hit(k, in, out, cached, s)
  <2>1. e \in cache /\ cached /\ e.key = <<k, in, out>>
    BY <1>2 DEF Key
  <2>2. bound[s] = <<Object(in), Object(out)>>
    BY <1>2, <2>1 DEF IInv, Coherent, Entry
  <2>3. s \in Cached
    BY <1>2, <2>1 DEF Cached
  <2>. QED
    BY <1>2, <2>1, <2>2, <2>3 DEF Hit
<1>3. ASSUME Allocate(s, asked),
             cache' = cache \cup (IF cached THEN {[key |-> Key(k, in, out), set |-> s]} ELSE {})
      PROVE  Written(k, in, out, cached, s)
  <2> DEFINE p == IF pools > 0 /\ Room(pools) THEN pools ELSE pools + 1
  <2>1. /\ home[s] = 0 /\ pools' = p /\ home' = [home EXCEPT ![s] = p]
        /\ setPool' = [setPool EXCEPT ![s] = IF @ = 0 THEN p ELSE @]
        /\ bound' = [bound EXCEPT ![s] = asked]
    BY <1>3 DEF Allocate
  <2>2. p \in Nat \ {0}
    BY DEF IInv, Typed
  <2>3. setPool[s] = 0
    BY <2>1 DEF IInv, Owners
  <2> HIDE DEF p
  <2>4. setPool' = [setPool EXCEPT ![s] = p]
    BY <2>1, <2>3
  <2>. QED
    BY <1>3, <2>1, <2>2, <2>4 DEF Written
<1>. QED
  BY <1>1, <1>2, <1>3

\* What freeing the sets S does when set_pool_ is right.
LEMMA Frees ==
  ASSUME IInv, NEW S \in SUBSET Sets, Freed(S)
  PROVE  /\ \A s \in Sets : home'[s] = IF s \in S THEN 0 ELSE home[s]
         /\ \A s \in Sets : setPool'[s] = home'[s]
         /\ \A s \in Sets \ S : bound'[s] = bound[s]
         /\ home' \in [Sets -> Nat] /\ setPool' \in [Sets -> Nat]
         /\ bound' \in [Sets -> {<<>>} \cup (Objects \X Objects)]
         /\ pools' = pools
BY DEF IInv, Typed, Owners, Freed

-----------------------------------------------------------------------------
(* The invariant.                                                           *)

\* Types and coherence after a dispatch was bound.
LEMMA BoundWell ==
  ASSUME IInv, NEW k \in Kernels, NEW in \in Live, NEW out \in Live, NEW cached \in BOOLEAN,
         NEW s \in Sets, cached => ~dirty, Bind(k, in, out, cached, s),
         UNCHANGED <<buf, gen, dirty>>
  PROVE  /\ gen' \in [Handles -> Nat] /\ pools' \in Nat
         /\ home' \in [Sets -> Nat] /\ setPool' \in [Sets -> Nat]
         /\ bound' \in [Sets -> {<<>>} \cup (Objects \X Objects)]
         /\ cache' \subseteq Entries /\ used' \subseteq Uses
         /\ home'[s] # 0 /\ \A t \in Sets : home[t] # 0 => home'[t] = home[t]
         /\ \A t \in Sets \ {s} : home'[t] = home[t]
         /\ \A t \in Sets : setPool'[t] = home'[t]
         /\ \A u \in used' : home'[u.set] # 0 /\ bound'[u.set] = u.asked
         /\ Coherent'
         /\ Cached' = IF cached THEN Cached \cup {s} ELSE Cached
         /\ home[s] = 0 \/ (cached /\ s \in Cached)
<1>0. IInv /\ in \in Handles /\ out \in Handles /\ Live' = Live
      /\ \A h \in Handles : Object(h)' = Object(h) /\ Object(h) \in Objects
  BY DEF IInv, Typed, Live, Object, Objects
<1> DEFINE asked == <<Object(in), Object(out)>>
           use == [set |-> s, asked |-> asked]
<1>1. /\ used' = used \cup {use}
      /\ Hit(k, in, out, cached, s) \/ Written(k, in, out, cached, s)
  BY Binds
<1>2. asked \in Objects \X Objects /\ use \in Uses /\ used' \subseteq Uses
  BY <1>0, <1>1 DEF Uses, IInv, Typed
<1>3. \A u \in used : u \in Uses /\ u.set \in Sets /\ home[u.set] # 0 /\ bound[u.set] = u.asked
  BY DEF IInv, Typed, Work, Uses
<1>4. \A e \in cache : e \in Entries /\ e.set \in Sets /\ e.key[2] \in Handles /\ e.key[3] \in Handles
                       /\ home[e.set] # 0
  BY DEF IInv, Typed, Owners, Entries, Keys, Cached
<1>5. CASE Hit(k, in, out, cached, s)
  <2>1. /\ cached /\ s \in Cached /\ bound[s] = asked /\ home[s] # 0
        /\ UNCHANGED <<pools, home, setPool, bound, cache>>
    BY <1>4, <1>5 DEF Hit, descriptors, Cached
  <2>2. Coherent'
    BY <1>0, <1>4, <2>1 DEF IInv, Coherent, Entry
  <2>3. Cached' = Cached
    BY <2>1 DEF Cached
  <2>4. \A u \in used' : home'[u.set] # 0 /\ bound'[u.set] = u.asked
    BY <1>1, <1>3, <2>1
  <2>. QED
    BY <1>2, <2>1, <2>2, <2>3, <2>4 DEF IInv, Typed, Owners
<1>6. CASE Written(k, in, out, cached, s)
  <2> DEFINE entry == [key |-> Key(k, in, out), set |-> s]
  <2>1. PICK q \in Nat \ {0} :
          /\ home[s] = 0 /\ pools' = q /\ home' = [home EXCEPT ![s] = q]
          /\ setPool' = [setPool EXCEPT ![s] = q] /\ bound' = [bound EXCEPT ![s] = asked]
          /\ cache' = cache \cup (IF cached THEN {entry} ELSE {})
    BY <1>6 DEF Written
  <2>2. entry \in Entries /\ entry.set = s /\ entry.key = <<k, in, out>>
    BY <1>0 DEF Entries, Keys, Key
  <2>3. /\ pools' \in Nat /\ home' \in [Sets -> Nat] /\ setPool' \in [Sets -> Nat]
        /\ home'[s] = q /\ \A t \in Sets \ {s} : home'[t] = home[t] /\ bound'[t] = bound[t]
        /\ bound'[s] = asked
        /\ \A t \in Sets : setPool'[t] = home'[t]
    BY <2>1 DEF IInv, Typed, Owners
  <2>4. bound' \in [Sets -> {<<>>} \cup (Objects \X Objects)]
    BY <1>2, <2>1 DEF IInv, Typed
  <2>5. cache' \subseteq Entries
    BY <2>1, <2>2 DEF IInv, Typed
  <2>6. Coherent'
    <3> SUFFICES ASSUME ~dirty, NEW e \in cache' PROVE Entry(e)'
      BY DEF Coherent
    <3>1. CASE e \in cache
      <4>1. bound'[e.set] = bound[e.set]
        BY <1>4, <2>1, <2>3, <3>1
      <4>. QED
        BY <1>0, <1>4, <3>1, <4>1 DEF IInv, Coherent, Entry
    <3>2. CASE e \notin cache
      <4>1. e = entry
        BY <2>1, <3>2
      <4>. QED
        BY <1>0, <2>2, <2>3, <4>1 DEF Entry
    <3>. QED
      BY <3>1, <3>2
  <2>7. Cached' = IF cached THEN Cached \cup {s} ELSE Cached
    BY <2>1, <2>2 DEF Cached
  <2>8. \A u \in used' : home'[u.set] # 0 /\ bound'[u.set] = u.asked
    BY <1>1, <1>3, <2>1, <2>3
  <2>. QED
    BY <1>2, <2>1, <2>3, <2>4, <2>5, <2>6, <2>7, <2>8 DEF IInv, Typed
<1>. QED
  BY <1>1, <1>5, <1>6

LEMMA InitIInv == Init => IInv
<1> SUFFICES ASSUME Init PROVE IInv
  OBVIOUS
<1>1. <<>> \in Seq(Command) /\ NoBatch \in Batches
  BY DEF NoBatch, Batches
<1>2. Typed
  BY <1>1 DEF Init, Typed
<1>3. Owners
  BY DEF Init, Owners, Cached, Flying, NoBatch
<1>4. Coherent /\ Work
  BY DEF Init, Coherent, Work
<1>. QED
  BY <1>2, <1>3, <1>4 DEF IInv

LEMMA StepIInv == IInv /\ [Next]_vars => IInv'
<1> SUFFICES ASSUME IInv, [Next]_vars PROVE IInv'
  OBVIOUS
<1> USE DEF buffers, descriptors
<1>t. Typed /\ Owners /\ Coherent /\ Work
  BY DEF IInv
<1>u. \A u \in used : u \in Uses /\ u.set \in Sets /\ home[u.set] # 0 /\ bound[u.set] = u.asked
  BY <1>t DEF Typed, Work, Uses
<1>e. \A e \in cache : e.set \in Sets /\ e.set \in Cached /\ e.key[2] \in Handles /\ e.key[3] \in Handles
  BY <1>t DEF Typed, Entries, Keys, Cached
<1>n. NoBatch \in Batches /\ NoBatch.own = {} /\ ~NoBatch.open
  <2>1. <<>> \in Seq(Command)
    OBVIOUS
  <2>. QED
    BY <2>1 DEF NoBatch, Batches
<1>f. Flying \subseteq Sets /\ batch.own \subseteq Sets /\ Cached \subseteq Sets
  BY <1>t, <1>e DEF Typed, Flying, Batches, Cached
<1>1. ASSUME NEW h \in Handles, Destroy(h) PROVE IInv'
  <2>1. /\ h \in Live /\ buf' = [buf EXCEPT ![h] = None]
        /\ dirty' = (dirty \/ \E e \in cache : h \in {e.key[2], e.key[3]})
        /\ UNCHANGED <<gen, pools, home, setPool, bound, cache, batch, flight, used>>
    BY <1>1 DEF Destroy
  <2>2. Coherent'
    <3> SUFFICES ASSUME ~dirty', NEW e \in cache PROVE Entry(e)'
      BY <2>1 DEF Coherent
    <3>1. ~dirty /\ e.key[2] # h /\ e.key[3] # h
      BY <2>1
    <3>. QED
      BY <1>t, <1>e, <2>1, <3>1 DEF Coherent, Entry, Live, Object
  <2>. QED
    BY <1>t, <2>1, <2>2 DEF IInv, Typed, Owners, Work, Cached, Flying
<1>2. ASSUME NEW h \in Handles, NEW kind \in Kinds, Create(h, kind) PROVE IInv'
  <2>1. /\ buf[h] = None /\ buf' = [buf EXCEPT ![h] = kind] /\ gen' = [gen EXCEPT ![h] = @ + 1]
        /\ UNCHANGED <<pools, home, setPool, bound, cache, dirty, batch, flight, used>>
    BY <1>2 DEF Create
  <2>2. gen' \in [Handles -> Nat]
    BY <1>t, <2>1 DEF Typed
  <2>3. Coherent'
    <3> SUFFICES ASSUME ~dirty, NEW e \in cache PROVE Entry(e)'
      BY <2>1 DEF Coherent
    <3>1. Entry(e) /\ e.key[2] # h /\ e.key[3] # h
      BY <1>t, <2>1 DEF Coherent, Entry, Live
    <3>2. \A g \in Live : g # h => g \in Live' /\ gen'[g] = gen[g]
      BY <1>t, <2>1 DEF Live, Typed
    <3>. QED
      BY <2>1, <3>1, <3>2 DEF Entry, Object
  <2>. QED
    BY <1>t, <2>1, <2>2, <2>3 DEF IInv, Typed, Owners, Work, Cached, Flying
<1>3. ASSUME UNCHANGED <<buf, gen, descriptors, cache, dirty, batch, flight, used>> PROVE IInv'
  BY <1>3, <1>t DEF IInv, Typed, Owners, Coherent, Entry, Object, Live, Work, Cached, Flying
<1>4. ASSUME NEW k \in Kernels, NEW in \in Handles, NEW out \in Handles, NEW s \in Sets,
             Launch(k, in, out, s)
      PROVE  IInv'
  <2>1. /\ in \in Live /\ out \in Live /\ Bind(k, in, out, FALSE, s)
        /\ flight' = Flying \cup {s} /\ UNCHANGED <<buf, gen, dirty, batch>>
    BY <1>4 DEF Launch, Outstanding, Flying
  <2>2. /\ gen' \in [Handles -> Nat] /\ pools' \in Nat
        /\ home' \in [Sets -> Nat] /\ setPool' \in [Sets -> Nat]
        /\ bound' \in [Sets -> {<<>>} \cup (Objects \X Objects)]
        /\ cache' \subseteq Entries /\ used' \subseteq Uses
        /\ home'[s] # 0 /\ \A t \in Sets \ {s} : home'[t] = home[t]
        /\ \A t \in Sets : setPool'[t] = home'[t]
        /\ \A u \in used' : home'[u.set] # 0 /\ bound'[u.set] = u.asked
        /\ Coherent' /\ Cached' = Cached
        /\ home[s] = 0
    <3> DEFINE cached == NoBatch.cached
    <3>1. cached \in BOOLEAN /\ ~cached
      BY DEF NoBatch
    <3> HIDE DEF cached
    <3>2. {e \in cache : cached /\ e.key = Key(k, in, out)}
            = {e \in cache : FALSE /\ e.key = Key(k, in, out)}
      BY <3>1
    <3>3. Bind(k, in, out, cached, s)
      BY <2>1, <3>1, <3>2 DEF Bind
    <3>. QED
      BY <2>1, <3>1, <3>3, BoundWell
  <2>3. flight' # None /\ flight' \subseteq Sets /\ Flying' = Flying \cup {s}
    BY <1>f, <2>1, RuntimeAssumption DEF Flying
  <2>4. Typed' /\ Work'
    BY <1>t, <2>1, <2>2, <2>3 DEF Typed, Work
  <2>5. Owners'
    BY <1>t, <1>f, <2>1, <2>2, <2>3 DEF Owners
  <2>. QED
    BY <2>2, <2>4, <2>5 DEF IInv
<1>5. ASSUME NEW k \in Kernels, NEW in \in Handles, NEW out \in Handles, NEW s \in Sets,
             BatchAdd(k, in, out, s)
      PROVE  IInv'
  <2>1. /\ in \in Live /\ out \in Live /\ Bind(k, in, out, batch.cached, s)
        /\ batch.open /\ (batch.cached => ~dirty)
        /\ UNCHANGED <<buf, gen, dirty, flight>>
    BY <1>5 DEF BatchAdd
  <2>2. batch.cached \in BOOLEAN /\ batch \in Batches
    BY <1>t DEF Typed, Batches
  <2>3. /\ gen' \in [Handles -> Nat] /\ pools' \in Nat
        /\ home' \in [Sets -> Nat] /\ setPool' \in [Sets -> Nat]
        /\ bound' \in [Sets -> {<<>>} \cup (Objects \X Objects)]
        /\ cache' \subseteq Entries /\ used' \subseteq Uses
        /\ home'[s] # 0 /\ \A t \in Sets : home[t] # 0 => home'[t] = home[t]
        /\ \A t \in Sets \ {s} : home'[t] = home[t]
        /\ \A t \in Sets : setPool'[t] = home'[t]
        /\ \A u \in used' : home'[u.set] # 0 /\ bound'[u.set] = u.asked
        /\ Coherent' /\ Cached' = IF batch.cached THEN Cached \cup {s} ELSE Cached
        /\ home[s] = 0 \/ (batch.cached /\ s \in Cached)
    BY <2>1, <2>2, BoundWell
  <2>4. /\ batch'.open /\ batch'.cached = batch.cached /\ batch' \in Batches
        /\ batch'.own = IF batch.cached THEN batch.own ELSE batch.own \cup {s}
    <3>1. [in |-> in, out |-> out, pre |-> batch.ops = <<>>] \in Command
      BY DEF Command
    <3>2. Append(batch.ops, [in |-> in, out |-> out, pre |-> batch.ops = <<>>]) \in Seq(Command)
      BY <2>2, <3>1 DEF Batches
    <3>. QED
      BY <1>5, <2>1, <2>2, <3>2 DEF BatchAdd, Batches
  <2>5. Flying' = Flying
    BY <2>1 DEF Flying
  <2>6. Typed' /\ Work'
    BY <1>t, <2>1, <2>3, <2>4 DEF Typed, Work
  <2>7. Owners'
    <3>1. CASE batch.cached
      BY <1>t, <1>f, <2>3, <2>4, <2>5, <3>1 DEF Owners
    <3>2. CASE ~batch.cached
      BY <1>t, <1>f, <2>3, <2>4, <2>5, <3>2 DEF Owners
    <3>. QED
      BY <2>2, <3>1, <3>2
  <2>. QED
    BY <2>3, <2>6, <2>7 DEF IInv
<1>6. ASSUME NEW cached \in BOOLEAN, BatchOpen(cached) PROVE IInv'
  <2>1. /\ ~batch.open /\ batch' = [NoBatch EXCEPT !.open = TRUE, !.cached = cached]
        /\ UNCHANGED <<buf, gen, pools, home, setPool, bound, cache, dirty, flight, used>>
    BY <1>6 DEF BatchOpen
  <2>2. batch' \in Batches /\ batch'.own = {} /\ batch'.open /\ batch.own = {}
    BY <1>n, <1>t, <2>1 DEF Batches, Owners
  <2>3. Typed' /\ Work'
    BY <1>t, <2>1, <2>2 DEF Typed, Work
  <2>4. Owners'
    BY <1>t, <2>1, <2>2 DEF Owners, Cached, Flying
  <2>5. Coherent'
    BY <1>t, <2>1 DEF Coherent, Entry, Object, Live
  <2>. QED
    BY <2>3, <2>4, <2>5 DEF IInv
<1>7. CASE BatchSubmit
  <2>1. /\ batch.open /\ batch' = NoBatch /\ flight' = Flying \cup batch.own
        /\ UNCHANGED <<buf, gen, pools, home, setPool, bound, cache, dirty, used>>
    BY <1>7 DEF BatchSubmit, Outstanding, Flying
  <2>2. flight' # None /\ flight' \subseteq Sets /\ Flying' = Flying \cup batch.own
    BY <1>f, <2>1, RuntimeAssumption DEF Flying
  <2>3. Typed' /\ Work'
    BY <1>n, <1>t, <2>1, <2>2 DEF Typed, Work
  <2>4. Cached' = Cached
    BY <2>1 DEF Cached
  <2>5. Owners'
    BY <1>n, <1>t, <2>1, <2>2, <2>4 DEF Owners
  <2>6. Coherent'
    BY <1>t, <2>1 DEF Coherent, Entry, Object, Live
  <2>. QED
    BY <2>3, <2>5, <2>6 DEF IInv
<1>8. CASE Wait
  <2>1. /\ flight # None /\ Freed(Flying) /\ flight' = None
        /\ used' = IF batch.open THEN {u \in used : u.set \notin Flying} ELSE {}
        /\ UNCHANGED <<buf, gen, cache, dirty, batch>>
    BY <1>8 DEF Wait, Flying
  <2>2. /\ \A s \in Sets : home'[s] = IF s \in Flying THEN 0 ELSE home[s]
        /\ \A s \in Sets : setPool'[s] = home'[s]
        /\ \A s \in Sets \ Flying : bound'[s] = bound[s]
        /\ home' \in [Sets -> Nat] /\ setPool' \in [Sets -> Nat]
        /\ bound' \in [Sets -> {<<>>} \cup (Objects \X Objects)] /\ pools' = pools
    BY <1>f, <2>1, Frees
  <2>3. Flying' = {} /\ Cached' = Cached
    BY <2>1 DEF Flying, Cached
  <2>4. Typed' /\ Work'
    BY <1>t, <1>u, <2>1, <2>2 DEF Typed, Work
  <2>5. Owners'
    BY <1>t, <1>f, <2>1, <2>2, <2>3 DEF Owners
  <2>6. Coherent'
    BY <1>t, <1>e, <2>1, <2>2 DEF Owners, Coherent, Entry, Object, Live
  <2>. QED
    BY <2>4, <2>5, <2>6 DEF IInv
<1>9. CASE Clear
  <2>1. /\ ~batch.open /\ flight = None /\ Freed(Cached) /\ cache' = {} /\ ~dirty'
        /\ UNCHANGED <<buf, gen, batch, flight, used>>
    BY <1>9 DEF Clear, Cached
  <2>2. /\ \A s \in Sets : home'[s] = IF s \in Cached THEN 0 ELSE home[s]
        /\ \A s \in Sets : setPool'[s] = home'[s]
        /\ home' \in [Sets -> Nat] /\ setPool' \in [Sets -> Nat]
        /\ bound' \in [Sets -> {<<>>} \cup (Objects \X Objects)] /\ pools' = pools
    BY <1>f, <2>1, Frees
  <2>3. Flying' = Flying /\ Cached' = {} /\ used = {} /\ dirty' = FALSE
    BY <1>9, <1>t, <2>1 DEF Flying, Cached, Work, Clear
  <2>4. Typed' /\ Work' /\ Coherent'
    BY <1>t, <2>1, <2>2, <2>3 DEF Typed, Work, Coherent
  <2>5. Owners'
    BY <1>t, <1>f, <2>1, <2>2, <2>3 DEF Owners
  <2>. QED
    BY <2>4, <2>5 DEF IInv
<1>10. ASSUME NEW h \in Handles, NEW force \in BOOLEAN, NEW coherent \in BOOLEAN,
              Upload(h, force, coherent) \/ Download(h, force, coherent)
       PROVE  IInv'
  BY <1>3, <1>10 DEF Upload, Download
<1>11. CASE UNCHANGED vars
  BY <1>3, <1>11 DEF vars
<1>. QED
  BY <1>1, <1>2, <1>4, <1>5, <1>6, <1>7, <1>8, <1>9, <1>10, <1>11 DEF Next

LEMMA Invariance == Spec => []IInv
<1>. QED
  BY InitIInv, StepIInv, PTL DEF Spec

\* A dispatch that is recorded or in flight works on the buffers it was given,
\* however many buffers one handle has named and sets the cache has shared.
THEOREM BindsRight == Spec => []BindsWhatWasAsked
<1>1. IInv => BindsWhatWasAsked
  BY DEF IInv, Work, BindsWhatWasAsked
<1>. QED
  BY <1>1, Invariance, PTL

\* Every allocated set has exactly one owner, and set_pool_ its pool, for any
\* number of pools.
THEOREM SetsOwned == Spec => []SetsAccountedFor
<1>1. IInv => SetsAccountedFor
  <2> SUFFICES ASSUME IInv PROVE SetsAccountedFor
    OBVIOUS
  <2>1. /\ Typed /\ Owners
        /\ Cached \subseteq Sets /\ Flying \subseteq Sets /\ batch.own \subseteq Sets
    BY DEF IInv, Typed, Entries, Cached, Flying, Batches
  <2>2. setPool = home
    BY <2>1 DEF Typed, Owners
  <2>3. Outstanding(batch.own) = Flying \cup batch.own
    BY DEF Outstanding, Flying
  <2>4. {s \in Sets : home[s] # 0} = Cached \cup Outstanding(batch.own)
    BY <2>1, <2>3 DEF Owners
  <2>5. Cached \cap Outstanding(batch.own) = {}
    BY <2>1, <2>3 DEF Owners
  <2>. QED
    BY <2>2, <2>4, <2>5 DEF SetsAccountedFor, Cached
<1>. QED
  BY <1>1, Invariance, PTL

-----------------------------------------------------------------------------
(* Visibility.                                                              *)

\* A buffer between two calls: nothing may be overtaken, memory has its newest
\* contents, and a copy finds them.
Rest(m) == /\ m \in Memory /\ m.over = {} /\ "mem" \in m.seen
           /\ m.by = "cpu" \/ "copy" \in m.seen

\* A buffer between two dispatches of a batch: a shader finds its contents, and
\* only a copy could still overtake a read of it.
Running(m) == /\ m \in Memory /\ "shader" \in m.seen /\ m.over \subseteq {<<"shader", "copy">>}
              /\ \/ m.by = "shader"
                 \/ "mem" \in m.seen /\ "copy" \in m.seen

Memories == [Handles -> Memory]
Rests == mem \in Memories /\ \A h \in Handles : Rest(mem[h])

\* The first dispatch of a batch has the barrier in front.
FirstWaits == batch.ops # <<>> => batch.ops[1].pre

\* What makes every access current.
CurrentInv == fresh /\ Rests /\ FirstWaits

\* The host's operations and a finished copy keep a buffer at rest.
LEMMA StaysAtRest ==
  ASSUME NEW m, Rest(m), NEW coherent
  PROVE  /\ Rest(Waited(m)) /\ Rest(Submitted(m)) /\ Rest(Fresh)
         /\ Rest(Flushed(CpuWrite(m, coherent))) /\ Rest(Invalidated(m))
         /\ Rest(Waited(Write(Submitted(m), "copy")))
         /\ Rest(Waited(Read(Submitted(m), "copy")))
         /\ CanRead(Submitted(m), "copy") /\ CanWrite(Submitted(m), "copy")
         /\ CpuReads(Invalidated(m), coherent)
<1>1. m \in Memory
  BY DEF Rest
<1>2. Rest(Fresh)
  BY DEF Rest, Fresh, Memory, Agents, Device
<1>3. Rest(Waited(m)) /\ Rest(Submitted(m))
  BY DEF Rest, Waited, Submitted, Memory, Agents, Device
<1>4. Rest(Flushed(CpuWrite(m, coherent))) /\ Rest(Invalidated(m))
  BY DEF Rest, Flushed, CpuWrite, Write, Invalidated, Memory, Agents, Device
<1>5. Rest(Waited(Write(Submitted(m), "copy")))
  BY DEF Rest, Waited, Write, Memory, Agents, Device
<1>6. Rest(Waited(Read(Submitted(m), "copy")))
  BY DEF Rest, Waited, Read, Submitted, Memory, Agents, Device
<1>7. /\ CanRead(Submitted(m), "copy") /\ CanWrite(Submitted(m), "copy")
      /\ CpuReads(Invalidated(m), coherent)
  BY DEF Rest, CanRead, CanWrite, Submitted, Invalidated, CpuReads, Memory, Agents, Device
<1>. QED
  BY <1>2, <1>3, <1>4, <1>5, <1>6, <1>7

\* What a barrier, a read and a write make of one buffer.
LEMMA StaysRunning ==
  ASSUME NEW m
  PROVE  /\ Rest(m) => Running(Barrier(Submitted(m), Device, {"shader"}))
         /\ Running(m) => /\ CanRead(m, "shader") /\ CanWrite(m, "shader")
                          /\ Running(Barrier(m, {"shader"}, {"shader"}))
                          /\ Running(Barrier(Read(m, "shader"), {"shader"}, {"shader"}))
                          /\ Running(Barrier(Write(m, "shader"), {"shader"}, {"shader"}))
                          /\ Rest(Barrier(m, {"shader"}, Agents \ {"cpu"}))
<1>1. Rest(m) => Running(Barrier(Submitted(m), Device, {"shader"}))
  BY DEF Rest, Running, Barrier, Submitted, Memory, Agents, Device
<1>2. Running(m) => CanRead(m, "shader") /\ CanWrite(m, "shader")
  BY DEF Running, CanRead, CanWrite, Device
<1>3. Running(m) => Running(Barrier(m, {"shader"}, {"shader"}))
  BY DEF Running, Barrier, Memory, Agents, Device
<1>4. Running(m) => Running(Barrier(Read(m, "shader"), {"shader"}, {"shader"}))
  <2> SUFFICES ASSUME Running(m) PROVE Running(Barrier(Read(m, "shader"), {"shader"}, {"shader"}))
    OBVIOUS
  <2> DEFINE n == Read(m, "shader")  b == Barrier(n, {"shader"}, {"shader"})
  <2>1. /\ n \in Memory /\ n.by = m.by /\ n.seen = m.seen
        /\ n.over = m.over \cup ({"shader"} \X Device)
    BY DEF Running, Read, Memory, Agents, Device
  <2>2. n.over \subseteq {<<"shader", "copy">>, <<"shader", "shader">>}
    BY <2>1 DEF Running, Device
  <2> HIDE DEF n
  <2>3. /\ b \in Memory /\ b.by = n.by /\ n.seen \subseteq b.seen
        /\ b.over = n.over \ ({"shader"} \X {"shader"})
    BY <2>1 DEF Barrier, Memory, Agents, Device
  <2>4. b.over \subseteq {<<"shader", "copy">>}
    BY <2>2, <2>3
  <2>. QED
    BY <2>1, <2>3, <2>4 DEF Running, n
<1>5. Running(m) => Running(Barrier(Write(m, "shader"), {"shader"}, {"shader"}))
  BY DEF Running, Barrier, Write, Memory, Agents, Device
<1>6. Running(m) => Rest(Barrier(m, {"shader"}, Agents \ {"cpu"}))
  <2> SUFFICES ASSUME Running(m) PROVE Rest(Barrier(m, {"shader"}, Agents \ {"cpu"}))
    OBVIOUS
  <2> DEFINE to == Agents \ {"cpu"}  b == Barrier(m, {"shader"}, to)
  <2>0. m \in Memory /\ to \subseteq Agents /\ m.seen \cap {"shader"} # {}
    BY DEF Running
  <2> HIDE DEF to
  <2>1. /\ b \in Memory /\ b.over = m.over \ ({"shader"} \X to)
        /\ b.seen = m.seen \cup to
    BY <2>0 DEF Barrier, Memory
  <2>2. "copy" \in to /\ "mem" \in to
    BY DEF to, Agents, Device
  <2>3. b.over = {}
    BY <2>1, <2>2 DEF Running
  <2>. QED
    BY <2>1, <2>2, <2>3 DEF Rest, to
<1>. QED
  BY <1>1, <1>2, <1>3, <1>4, <1>5, <1>6

\* How a batch stands between two of its dispatches.
InOrder(r) == /\ r.ok = TRUE /\ r.mem \in Memories
              /\ \A h \in Handles : Running(r.mem[h])

\* How it starts.
AtStart(r) == /\ r.ok = TRUE /\ r.mem \in Memories
              /\ \A h \in Handles : /\ Rest(r.mem[h])
                                    /\ Running(Barrier(r.mem[h], Device, {"shader"}))

\* A dispatch keeps the order, and the first one, with its barrier, begins it.
LEMMA DispatchRuns ==
  ASSUME NEW q, NEW d \in Command, InOrder(q) \/ (d.pre /\ AtStart(q))
  PROVE  InOrder(Dispatched(q, d))
<1> DEFINE M == q.mem
           P == IF d.pre THEN PreBarrier(M) ELSE M
           W == [P EXCEPT ![d.in] = Read(@, "shader"), ![d.out] = Write(@, "shader")]
           r == Dispatched(q, d)
<1>1. d.in \in Handles /\ d.out \in Handles /\ d.pre \in BOOLEAN
  BY DEF Command
<1>2. ASSUME NEW m, Running(m) PROVE Running(Barrier(m, Device, {"shader"}))
  BY <1>2 DEF Running, Barrier, Memory, Agents, Device
<1>3. P = [h \in Handles |-> P[h]] /\ \A h \in Handles : Running(P[h])
  BY <1>2 DEF PreBarrier, All, Memories, InOrder, AtStart
<1> HIDE DEF P
<1>4. /\ W = [h \in Handles |-> W[h]]
      /\ \A h \in Handles : W[h] = IF h = d.out THEN Write(P[h], "shader")
                                   ELSE IF h = d.in THEN Read(P[h], "shader") ELSE P[h]
  BY <1>1, <1>3
<1>5. r = [mem |-> NarrowPost(W),
           ok |-> q.ok /\ CanRead(P[d.in], "shader") /\ CanWrite(P[d.out], "shader")]
  BY DEF Dispatched, P
<1>6. \A h \in Handles : Running(Barrier(W[h], {"shader"}, {"shader"}))
  BY <1>3, <1>4, StaysRunning
<1> HIDE DEF W, r
<1>7. r.mem = [h \in Handles |-> Barrier(W[h], {"shader"}, {"shader"})]
  BY <1>5 DEF NarrowPost, All
<1>8. r.mem \in Memories /\ \A h \in Handles : Running(r.mem[h])
  BY <1>6, <1>7 DEF Memories, Running
<1>9. CanRead(P[d.in], "shader") /\ CanWrite(P[d.out], "shader")
  BY <1>1, <1>3, StaysRunning
<1>10. r.ok = TRUE
  BY <1>5, <1>9 DEF InOrder, AtStart
<1>. QED
  BY <1>8, <1>10 DEF r, InOrder

\* The commands of a batch one after another: what the function Run of Executed is.
Start(M)         == [mem |-> [h \in Handles |-> Submitted(M[h])], ok |-> TRUE]
Runs(f, ops, M, n) ==
  f = [i \in 0..n |-> IF i = 0 THEN Start(M) ELSE Dispatched(f[i - 1], ops[i])]

LEMMA RunExists ==
  ASSUME NEW ops, NEW M, NEW n \in Nat
  PROVE  \E f : Runs(f, ops, M, n)
<1> DEFINE S == {k \in Nat : \E f : Runs(f, ops, M, k)}
<1>1. 0 \in S
  <2> DEFINE f == [i \in 0..0 |-> Start(M)]
  <2>1. Runs(f, ops, M, 0)
    BY DEF Runs
  <2>. QED
    BY <2>1
<1>2. ASSUME NEW k \in S PROVE k + 1 \in S
  <2>1. PICK f : Runs(f, ops, M, k)
    OBVIOUS
  <2> DEFINE g == [i \in 0..(k + 1) |-> IF i = k + 1 THEN Dispatched(f[k], ops[i]) ELSE f[i]]
  <2>2. k \in Nat /\ k + 1 \in Nat
    OBVIOUS
  <2>3. \A i \in 0..k : f[i] = IF i = 0 THEN Start(M) ELSE Dispatched(f[i - 1], ops[i])
    BY <2>1 DEF Runs
  <2>4. /\ \A i \in 0..k : g[i] = f[i]
        /\ g[k + 1] = Dispatched(f[k], ops[k + 1])
    BY <2>2
  <2>5. ASSUME NEW i \in 0..(k + 1)
        PROVE  g[i] = IF i = 0 THEN Start(M) ELSE Dispatched(g[i - 1], ops[i])
    <3>1. CASE i = k + 1
      BY <2>2, <2>4, <3>1
    <3>2. CASE i # k + 1
      <4>1. i \in 0..k /\ (i # 0 => i - 1 \in 0..k)
        BY <2>2, <3>2
      <4>. QED
        BY <2>3, <2>4, <4>1
    <3>. QED
      BY <3>1, <3>2
  <2>6. g = [i \in 0..(k + 1) |-> g[i]]
    OBVIOUS
  <2> HIDE DEF g
  <2>7. Runs(g, ops, M, k + 1)
    BY <2>5, <2>6 DEF Runs
  <2>. QED
    BY <2>2, <2>7
<1> HIDE DEF S
<1>3. S = Nat
  BY <1>1, <1>2, EveryNumber DEF S
<1>. QED
  BY <1>3 DEF S

LEMMA ExecutedIsARun ==
  ASSUME NEW ops, Len(ops) \in Nat, NEW M
  PROVE  \E f : Runs(f, ops, M, Len(ops)) /\ Executed(ops, M) = f[Len(ops)]
<1> DEFINE Run == CHOOSE f : Runs(f, ops, M, Len(ops))
<1>1. Runs(Run, ops, M, Len(ops))
  BY RunExists
<1>2. Executed(ops, M) = Run[Len(ops)]
  BY DEF Executed, Runs, Start
<1>. QED
  BY <1>1, <1>2

\* A whole batch whose first dispatch waits, over buffers at rest: every access
\* is in order, and only an empty batch leaves the buffers as they were.
LEMMA BatchRuns ==
  ASSUME NEW ops \in Seq(Command), ops # <<>> => ops[1].pre,
         NEW M \in Memories, \A h \in Handles : Rest(M[h])
  PROVE  IF ops = <<>> THEN AtStart(Executed(ops, M)) ELSE InOrder(Executed(ops, M))
<1>1. Len(ops) \in Nat /\ (ops = <<>> <=> Len(ops) = 0) /\ \A i \in 1..Len(ops) : ops[i] \in Command
  OBVIOUS
<1>2. PICK f : Runs(f, ops, M, Len(ops)) /\ Executed(ops, M) = f[Len(ops)]
  BY <1>1, ExecutedIsARun
<1>3. PICK n \in Nat : n = Len(ops)
  BY <1>1
<1>4. /\ f[0] = Start(M)
      /\ \A i \in 1..n : f[i] = Dispatched(f[i - 1], ops[i])
  BY <1>2, <1>3 DEF Runs
<1>5. AtStart(f[0])
  <2>1. /\ f[0].ok = TRUE
        /\ f[0].mem = [h \in Handles |-> Submitted(M[h])]
    BY <1>4 DEF Start
  <2>2. \A h \in Handles : /\ Rest(Submitted(M[h]))
                           /\ Running(Barrier(Submitted(M[h]), Device, {"shader"}))
    BY StaysAtRest, StaysRunning
  <2>. QED
    BY <2>1, <2>2 DEF AtStart, Memories, Rest
<1> DEFINE S == {i \in Nat : i + 1 <= n => InOrder(f[i + 1])}
<1>6. 0 \in S
  <2> SUFFICES ASSUME 1 <= n PROVE InOrder(f[1])
    OBVIOUS
  <2>1. ops[1] \in Command /\ ops[1].pre /\ f[1] = Dispatched(f[0], ops[1])
    BY <1>1, <1>3, <1>4
  <2>. QED
    BY <1>5, <2>1, DispatchRuns
<1>7. ASSUME NEW i \in S PROVE i + 1 \in S
  <2> DEFINE j == i + 1
  <2>1. j \in Nat /\ (j <= n => InOrder(f[j])) /\ (j + 1 <= n => j <= n)
    OBVIOUS
  <2> SUFFICES ASSUME j + 1 <= n PROVE InOrder(f[j + 1])
    BY <2>1
  <2> HIDE DEF j
  <2>2. ops[j + 1] \in Command /\ f[j + 1] = Dispatched(f[j], ops[j + 1]) /\ InOrder(f[j])
    BY <1>1, <1>3, <1>4, <2>1
  <2>. QED
    BY <2>2, DispatchRuns
<1>8. S = Nat
  <2>1. S \in SUBSET Nat
    OBVIOUS
  <2> HIDE DEF S
  <2>. QED
    BY <1>6, <1>7, <2>1, EveryNumber
<1>9. CASE n = 0
  BY <1>1, <1>2, <1>3, <1>5, <1>9
<1>10. CASE n # 0
  <2>1. n - 1 \in Nat /\ (n - 1) + 1 = n
    BY <1>10
  <2>2. \A i \in Nat : i + 1 <= n => InOrder(f[i + 1])
    BY <1>8
  <2>3. InOrder(f[n])
    BY <2>1, <2>2
  <2>. QED
    BY <1>1, <1>2, <1>3, <1>10, <2>3
<1>. QED
  BY <1>9, <1>10

\* The wide barrier behind a batch, or behind launch()'s dispatch.
LEMMA PostRests ==
  ASSUME NEW M \in Memories, \A h \in Handles : Running(M[h])
  PROVE  WidePost(M) \in Memories /\ \A h \in Handles : Rest(WidePost(M)[h])
<1>1. \A h \in Handles : Rest(Barrier(M[h], {"shader"}, Agents \ {"cpu"}))
  BY StaysRunning
<1>. QED
  BY <1>1 DEF WidePost, All, Memories, Rest

LEMMA InitCurrent == Init => CurrentInv
<1>1. Rest(Fresh)
  BY DEF Rest, Fresh, Memory, Agents, Device
<1>. QED
  BY <1>1 DEF Init, CurrentInv, Rests, Memories, FirstWaits, NoBatch, Rest

LEMMA StepCurrent == IInv /\ CurrentInv /\ [Next]_vars => CurrentInv'
<1> SUFFICES ASSUME IInv, CurrentInv, [Next]_vars PROVE CurrentInv'
  OBVIOUS
<1>i. /\ fresh = TRUE /\ mem \in Memories /\ \A h \in Handles : Rest(mem[h])
      /\ batch.ops # <<>> => batch.ops[1].pre
      /\ batch \in Batches /\ batch.ops \in Seq(Command)
  BY DEF CurrentInv, Rests, FirstWaits, IInv, Typed, Batches
\* One buffer's memory becomes another one at rest, and the batch stays.
<1>b. ASSUME NEW h \in Handles, NEW m, Rest(m), mem' = [mem EXCEPT ![h] = m],
             fresh' = TRUE, UNCHANGED batch
      PROVE  CurrentInv'
  BY <1>i, <1>b DEF CurrentInv, Rests, FirstWaits, Memories, Rest
<1>s. ASSUME mem' = mem, fresh' = TRUE, UNCHANGED batch PROVE CurrentInv'
  BY <1>i, <1>s DEF CurrentInv, Rests, FirstWaits
<1>1. ASSUME NEW h \in Handles, Destroy(h) PROVE CurrentInv'
  BY <1>i, <1>s, <1>1 DEF Destroy
<1>2. ASSUME NEW h \in Handles, NEW kind \in Kinds, Create(h, kind) PROVE CurrentInv'
  <2>1. Rest(Fresh)
    BY <1>i, StaysAtRest
  <2>. QED
    BY <1>i, <1>b, <1>2, <2>1 DEF Create
<1>3. ASSUME NEW h \in Handles, NEW force \in BOOLEAN, NEW coherent \in BOOLEAN,
             Upload(h, force, coherent)
      PROVE  CurrentInv'
  <2>1. Rest(mem[h]) /\ Rest(Fresh)
    BY <1>i, StaysAtRest
  <2>2. CASE Direct(h, force)
    <3>1. /\ mem' = [mem EXCEPT ![h] = Flushed(CpuWrite(mem[h], buf[h].coherent))]
          /\ UNCHANGED <<fresh, batch>>
      BY <1>3, <2>2 DEF Upload
    <3>2. Rest(Flushed(CpuWrite(mem[h], buf[h].coherent)))
      BY <2>1, StaysAtRest
    <3>. QED
      BY <1>i, <1>b, <3>1, <3>2
  <2>3. CASE ~Direct(h, force)
    <3> DEFINE staging == Flushed(CpuWrite(Fresh, coherent))
    <3>1. /\ fresh' = CopyOk(staging, mem[h])
          /\ mem' = [mem EXCEPT ![h] = Waited(Write(Submitted(mem[h]), "copy"))]
          /\ UNCHANGED batch
      BY <1>3, <2>3 DEF Upload
    <3>2. Rest(staging)
      BY <2>1, StaysAtRest
    <3>3. Rest(Waited(Write(Submitted(mem[h]), "copy")))
      BY <2>1, StaysAtRest
    <3>4. CanRead(Submitted(staging), "copy") /\ CanWrite(Submitted(mem[h]), "copy")
      BY <2>1, <3>2, StaysAtRest
    <3> HIDE DEF staging
    <3>5. fresh' = TRUE
      BY <3>1, <3>4 DEF CopyOk
    <3>. QED
      BY <1>b, <3>1, <3>3, <3>5
  <2>. QED
    BY <2>2, <2>3
<1>4. ASSUME NEW h \in Handles, NEW force \in BOOLEAN, NEW coherent \in BOOLEAN,
             Download(h, force, coherent)
      PROVE  CurrentInv'
  <2>1. Rest(mem[h]) /\ Rest(Fresh)
    BY <1>i, StaysAtRest
  <2>2. CASE Direct(h, force)
    <3> DEFINE m == Invalidated(mem[h])
    <3>1. /\ fresh' = CpuReads(m, buf[h].coherent)
          /\ mem' = [mem EXCEPT ![h] = IF buf[h].coherent THEN mem[h] ELSE m]
          /\ UNCHANGED batch
      BY <1>4, <2>2 DEF Download
    <3>2. Rest(m) /\ CpuReads(m, buf[h].coherent)
      BY <2>1, StaysAtRest
    <3> HIDE DEF m
    <3>3. Rest(IF buf[h].coherent THEN mem[h] ELSE m)
      BY <2>1, <3>2
    <3>4. fresh' = TRUE
      BY <3>1, <3>2 DEF CpuReads
    <3>. QED
      BY <1>b, <3>1, <3>3, <3>4
  <2>3. CASE ~Direct(h, force)
    <3> DEFINE staging == Waited(Write(Fresh, "copy"))
    <3>1. /\ fresh' = (CopyOk(mem[h], Fresh) /\ CpuReads(Invalidated(staging), coherent))
          /\ mem' = [mem EXCEPT ![h] = Waited(Read(Submitted(mem[h]), "copy"))]
          /\ UNCHANGED batch
      BY <1>4, <2>3 DEF Download
    <3>2. Rest(staging)
      BY DEF Rest, Waited, Write, Fresh, Memory, Agents, Device
    <3> HIDE DEF staging
    <3>3. CpuReads(Invalidated(staging), coherent)
      BY <3>2, StaysAtRest
    <3>4. CanRead(Submitted(mem[h]), "copy") /\ CanWrite(Submitted(Fresh), "copy")
      BY <2>1, StaysAtRest
    <3>5. Rest(Waited(Read(Submitted(mem[h]), "copy")))
      BY <2>1, StaysAtRest
    <3>6. fresh' = TRUE
      BY <3>1, <3>3, <3>4 DEF CopyOk, CpuReads
    <3>. QED
      BY <1>b, <3>1, <3>5, <3>6
  <2>. QED
    BY <2>2, <2>3
<1>5. ASSUME NEW k \in Kernels, NEW in \in Handles, NEW out \in Handles, NEW s \in Sets,
             Launch(k, in, out, s)
      PROVE  CurrentInv'
  <2> DEFINE d == [in |-> in, out |-> out, pre |-> TRUE]
             r == Executed(<<d>>, mem)
  <2>1. mem' = WidePost(r.mem) /\ fresh' = (fresh /\ r.ok) /\ UNCHANGED batch
    BY <1>5 DEF Launch
  <2>2. d \in Command /\ d.pre
    BY DEF Command
  <2> HIDE DEF d
  <2>3. <<d>> \in Seq(Command) /\ <<d>> # <<>> /\ <<d>>[1].pre
    BY <2>2
  <2>4. /\ r.ok = TRUE /\ r.mem \in Memories
        /\ \A h \in Handles : Running(r.mem[h])
    BY <1>i, <2>3, BatchRuns DEF InOrder
  <2> HIDE DEF r
  <2>5. mem' \in Memories /\ \A h \in Handles : Rest(mem'[h])
    BY <2>1, <2>4, PostRests
  <2>. QED
    BY <1>i, <2>1, <2>4, <2>5 DEF CurrentInv, Rests, FirstWaits
<1>6. ASSUME NEW k \in Kernels, NEW in \in Handles, NEW out \in Handles, NEW s \in Sets,
             BatchAdd(k, in, out, s)
      PROVE  CurrentInv'
  <2> DEFINE d == [in |-> in, out |-> out, pre |-> batch.ops = <<>>]
  <2>1. batch'.ops = Append(batch.ops, d) /\ UNCHANGED <<mem, fresh>>
    BY <1>i, <1>6 DEF BatchAdd, buffers, Batches
  <2>2. batch.ops = <<>> => d.pre
    OBVIOUS
  <2> HIDE DEF d
  <2>3. batch'.ops[1] = IF batch.ops = <<>> THEN d ELSE batch.ops[1]
    BY <1>i, <2>1
  <2>4. batch'.ops[1].pre
    BY <1>i, <2>2, <2>3
  <2>. QED
    BY <1>i, <2>1, <2>4 DEF CurrentInv, Rests, FirstWaits
<1>7. ASSUME NEW cached \in BOOLEAN, BatchOpen(cached) PROVE CurrentInv'
  <2>1. batch'.ops = <<>> /\ UNCHANGED <<mem, fresh>>
    BY <1>7 DEF BatchOpen, NoBatch, buffers
  <2>. QED
    BY <1>i, <2>1 DEF CurrentInv, Rests, FirstWaits
<1>8. CASE BatchSubmit
  <2> DEFINE r == Executed(batch.ops, mem)
  <2>1. /\ mem' = IF batch.ops = <<>> THEN r.mem ELSE WidePost(r.mem)
        /\ fresh' = (fresh /\ r.ok) /\ batch'.ops = <<>>
    BY <1>8 DEF BatchSubmit, NoBatch
  <2>2. /\ r.ok = TRUE /\ r.mem \in Memories
        /\ \A h \in Handles : IF batch.ops = <<>> THEN Rest(r.mem[h]) ELSE Running(r.mem[h])
    BY <1>i, BatchRuns DEF InOrder, AtStart
  <2> HIDE DEF r
  <2>3. mem' \in Memories /\ \A h \in Handles : Rest(mem'[h])
    BY <2>1, <2>2, PostRests
  <2>. QED
    BY <1>i, <2>1, <2>2, <2>3 DEF CurrentInv, Rests, FirstWaits
<1>9. CASE Wait
  <2>1. mem' = [h \in Handles |-> Waited(mem[h])] /\ UNCHANGED <<batch, fresh>>
    BY <1>9 DEF Wait
  <2>2. \A h \in Handles : Rest(Waited(mem[h]))
    BY <1>i, StaysAtRest
  <2>. QED
    BY <1>i, <2>1, <2>2 DEF CurrentInv, Rests, FirstWaits, Memories, Rest
<1>10. CASE Clear
  BY <1>i, <1>s, <1>10 DEF Clear, buffers
<1>11. CASE UNCHANGED vars
  BY <1>i, <1>s, <1>11 DEF vars, buffers
<1>. QED
  BY <1>1, <1>2, <1>3, <1>4, <1>5, <1>6, <1>7, <1>8, <1>9, <1>10, <1>11 DEF Next

\* Every kernel and every transfer sees the newest contents of its buffers and no
\* write overtakes an access, for any number of buffers, batches of any length
\* and calls in any order (the barriers of launch() and Batch, Buffer's flushes).
THEOREM AlwaysCurrent == Spec => []TransfersCurrent
<1>1. Spec => [](IInv /\ CurrentInv)
  <2>1. Init => CurrentInv
    BY InitCurrent
  <2>2. IInv /\ CurrentInv /\ [Next]_vars => CurrentInv'
    BY StepCurrent
  <2>. QED
    BY <2>1, <2>2, Invariance, PTL DEF Spec
<1>2. CurrentInv => TransfersCurrent
  BY DEF CurrentInv, TransfersCurrent
<1>. QED
  BY <1>1, <1>2, PTL
=============================================================================
