------------------------------ MODULE Sampling ------------------------------
(***************************************************************************)
(* The choice of the next token: the serial argmax and the three-dispatch   *)
(* tree that replaces it, the four best of each strided chain that replace  *)
(* the full download, and the host's draw from what was kept.               *)
(*                                                                          *)
(* A logit is a natural number and a draw the set of the tokens some random  *)
(* number gives.  Token t is at position t + 1 of a logits sequence.        *)
(***************************************************************************)
EXTENDS Integers, Sequences, FiniteSetsExt

CONSTANT Exp          \* the softmax weight of every logit there is

Logits == DOMAIN Exp

\* A logit that is not minus infinity has some weight.
ASSUME ExpAssumption == \A x \in Logits : x \in Nat /\ Exp[x] \in Nat \ {0}

NoToken == -1         \* 0xFFFFFFFF
Lowest == -1          \* -INFINITY, below every logit

TokenIds(xs) == 0..(Len(xs) - 1)
Chain(xs, p, parts) == {t \in TokenIds(xs) : t % parts = p}

\* A candidate is [value, id]; of equal values the lower id is better.
Better(a, b) == a.value > b.value \/ (a.value = b.value /\ a.id < b.id)

Entries(xs, ids) == {[value |-> xs[t + 1], id |-> t] : t \in ids}

\* The k best of a set.
Best(cands, k) == {c \in cands : Cardinality({d \in cands : Better(d, c)}) < k}

-----------------------------------------------------------------------------
(* Greedy.                                                                  *)

\* argmax: the first of the largest.
Argmax(xs) == CHOOSE t \in TokenIds(xs) : \A u \in TokenIds(xs) :
                xs[t + 1] > xs[u + 1] \/ (xs[t + 1] = xs[u + 1] /\ t <= u)

\* argmax_partial: token 0 stands for an empty chain.
ArgmaxPartials(xs, parts) ==
  [p \in 0..(parts - 1) |->
     IF Chain(xs, p, parts) = {} THEN [value |-> Lowest, id |-> 0]
     ELSE CHOOSE c \in Best(Entries(xs, Chain(xs, p, parts)), 1) : TRUE]

\* argmax_reduce and argmax_final: the best of the entries one thread sees.
Winner(cands) == IF cands = {} THEN [value |-> Lowest, id |-> NoToken]
                 ELSE CHOOSE c \in cands : \A d \in cands : ~Better(d, c)

ArgmaxTree(xs, parts, parts2) ==
  LET first == ArgmaxPartials(xs, parts)
      second == [p \in 0..(parts2 - 1) |->
                   Winner({first[q] : q \in {r \in 0..(parts - 1) : r % parts2 = p}})]
  IN  Winner({second[p] : p \in 0..(parts2 - 1)}).id

-----------------------------------------------------------------------------
(* Temperature.                                                             *)

\* Mutant of Harvest: a chain gives its three best.
HarvestThree(xs, parts) ==
  UNION {Best(Entries(xs, Chain(xs, p, parts)), 3) : p \in 0..(parts - 1)}

\* topk4_partial, and sample_candidates without the unfilled slots.
Harvest(xs, parts) ==
  UNION {Best(Entries(xs, Chain(xs, p, parts)), 4) : p \in 0..(parts - 1)}

Weight(c) == Exp[c.value]
Mass(cands) == MapThenSumSet(Weight, cands)

\* draw: the k best, and of them, best first, up to and with the one that
\* carries the mass to the share topP asks for; <<1, 1>> asks for no cut.
Kept(cands, k) == IF k = 0 THEN cands ELSE Best(cands, k)

Nucleus(cands, topP) ==
  IF topP[1] = topP[2] THEN cands
  ELSE {c \in cands : Mass({d \in cands : Better(d, c)}) * topP[2] < topP[1] * Mass(cands)}

Draw(cands, k, topP) == {c.id : c \in Nucleus(Kept(cands, k), topP)}

\* sample_cpu: of equal logits at the cut any may stay, and top_p is not used.
SampleCpu(xs, k) ==
  IF k = 0 \/ k >= Len(xs) THEN {TokenIds(xs)}
  ELSE {ids \in kSubset(k, TokenIds(xs)) :
          \A t \in ids, u \in TokenIds(xs) \ ids : xs[t + 1] >= xs[u + 1]}

-----------------------------------------------------------------------------
(* What holds.                                                              *)

Crowded(xs, parts, k) ==
  \E p \in 0..(parts - 1) :
    Cardinality({c \in Kept(Entries(xs, TokenIds(xs)), k) : c.id % parts = p}) > 4

\* The fast paths choose like the exact ones: the tree finds the serial scan's
\* token, ties and empty chains included; and unless five of the k best share
\* a chain, a draw from the harvest is a draw from the whole vocabulary, which
\* without a nucleus cut is also one of sample_cpu's.  A kept set is never
\* empty and has the share of the mass it was asked for.
FastPathsExact(xs, parts, parts2, k, topP) ==
  LET all == Entries(xs, TokenIds(xs))
      harvest == Harvest(xs, parts)
      kept == Kept(harvest, k)
  IN  /\ ArgmaxTree(xs, parts, parts2) = Argmax(xs)
      /\ ~Crowded(xs, parts, k) =>
           /\ Draw(harvest, k, topP) = Draw(all, k, topP)
           /\ topP = <<1, 1>> => Draw(harvest, k, topP) \in SampleCpu(xs, k)
      /\ Nucleus(kept, topP) # {}
      /\ Mass(Nucleus(kept, topP)) * topP[2] >= topP[1] * Mass(kept)
=============================================================================
