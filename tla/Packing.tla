------------------------------- MODULE Packing -------------------------------
(***************************************************************************)
(* The int4 weights of the decode path: the tensors the packer accepts,     *)
(* where pack_group puts weight k of column j and its block's scale in each *)
(* of the three layouts, and where the matching matvec kernel reads them.   *)
(***************************************************************************)
EXTENDS Integers, FiniteSets

QBlock == 32                     \* weights that share a scale
Group == 64                      \* columns packed together

Layouts == {"ColumnNibble", "Km4", "Km4Bf16"}

\* Mutant of Packable: blocks in fours are not asked for.
PackableBlocks(layout, rows, cols) == rows % QBlock = 0 /\ cols % Group = 0

\* build_pack_tasks: what a tensor's shape must divide.
Packable(layout, rows, cols) ==
  /\ layout = "Km4Bf16" => (rows \div QBlock) % 4 = 0
  /\ rows % QBlock = 0
  /\ cols % Group = 0

-----------------------------------------------------------------------------
(* The packer.  A cell is <<word, shift>>.                                  *)

\* pack_group: weight k of column c of a group.
WeightCell(layout, rows, cols, group, c, k) ==
  LET nblk == rows \div QBlock
      b == k \div QBlock
      t == k % QBlock
      base == (group * nblk + b) * Group
  IN  IF layout = "ColumnNibble"
      THEN <<k * (cols \div 8) + group * (Group \div 8) + c \div 8, 4 * (c % 8)>>
      ELSE <<(base + c) * 4 + ((t \div 8) % 4), 4 * (t % 8)>>

\* pack_group, and pack_scales_bf16_cols: the scale of block b of column j.
ScaleCell(layout, cols, b, j) ==
  IF layout = "Km4Bf16"
  THEN LET q == b \div 4 i == b % 4
       IN  <<(q * cols + j) * 2 + i \div 2, 16 * (i % 2)>>
  ELSE <<b * cols + j, 0>>

WordCount(rows, cols) == (rows * cols) \div 8
ScaleCount(layout, rows, cols) ==
  IF layout = "Km4Bf16" THEN ((rows \div QBlock) \div 4) * cols * 2
  ELSE (rows \div QBlock) * cols

\* quantise, of v with a block's largest magnitude a: 7 v / a, rounded half
\* away from zero, around 8.
Round(n, d) == IF n >= 0 THEN (2 * n + d) \div (2 * d) ELSE -((d - 2 * n) \div (2 * d))
Clamp(n, lo, hi) == IF n < lo THEN lo ELSE IF n > hi THEN hi ELSE n
Quantise(v, a) == IF a = 0 THEN 8 ELSE Clamp(Round(7 * v, a) + 8, 0, 15)

-----------------------------------------------------------------------------
(* The kernels.  One thread a column, or a column and a part.               *)

\* mv_ref, mv_km4 and mv_km4_bs: the cell of weight k of column j.
ReadWeight(layout, rows, cols, j, k) ==
  LET nblk == rows \div QBlock
      uint4 == (j \div Group) * nblk * Group + (j % Group) + (k \div QBlock) * Group
  IN  IF layout = "ColumnNibble" THEN <<(k * cols + j) \div 8, 4 * (j % 8)>>
      ELSE <<4 * uint4 + (k % QBlock) \div 8, 4 * (k % 8)>>

\* ... and of the scale that weight is multiplied by.
ReadScale(layout, cols, j, k) ==
  LET b == k \div QBlock
  IN  CASE layout # "Km4Bf16" -> <<b * cols + j, 0>>
        [] OTHER -> LET word == ((b \div 4) * cols + j) * 2
                    IN  CASE b % 4 = 0 -> <<word, 0>>      [] b % 4 = 1 -> <<word, 16>>
                          [] b % 4 = 2 -> <<word + 1, 0>>  [] b % 4 = 3 -> <<word + 1, 16>>

\* The blocks the p-th of split parts sums; Km4Bf16 splits quads of blocks,
\* and a kernel that is not split is one part.
PartBlocks(layout, rows, split, p) ==
  LET unit == IF layout = "Km4Bf16" THEN 4 ELSE 1
      n == (rows \div QBlock) \div unit
      per == (n + split - 1) \div split
      first == p * per
      end == IF first + per < n THEN first + per ELSE n
  IN  {b \in 0..(rows \div QBlock) : first * unit <= b /\ b < end * unit}

-----------------------------------------------------------------------------
(* What holds.                                                              *)

\* A tensor the packer accepts is multiplied whole: the kernel of its layout
\* reads every weight and scale where the packer put it, in bounds, no two in
\* one place, every block is summed by exactly one part, and threads that pack
\* different groups of columns write different words.
PackingAgrees(layout, rows, cols, split) ==
  Packable(layout, rows, cols) =>
    LET es == (0..(cols - 1)) \X (0..(rows - 1))
        blocks == 0..(rows \div QBlock - 1)
        cell == [e \in es |-> WeightCell(layout, rows, cols, e[1] \div Group, e[1] % Group, e[2])]
        scales == [s \in (0..(cols - 1)) \X blocks |-> ScaleCell(layout, cols, s[2], s[1])]
        words(g) == {cell[e][1] : e \in {x \in es : x[1] \div Group = g}}
        scaleWords(g) == {scales[s][1] : s \in {x \in DOMAIN scales : x[1] \div Group = g}}
        groups == 0..(cols \div Group - 1)
    IN  /\ \A e \in es : /\ ReadWeight(layout, rows, cols, e[1], e[2]) = cell[e]
                         /\ ReadScale(layout, cols, e[1], e[2])
                              = scales[<<e[1], e[2] \div QBlock>>]
                         /\ cell[e][1] < WordCount(rows, cols)
        /\ \A s \in DOMAIN scales : scales[s][1] < ScaleCount(layout, rows, cols)
        /\ Cardinality({cell[e] : e \in es}) = Cardinality(es)
        /\ Cardinality({scales[s] : s \in DOMAIN scales}) = Cardinality(DOMAIN scales)
        /\ \A b \in blocks :
             Cardinality({p \in 0..(split - 1) : b \in PartBlocks(layout, rows, split, p)}) = 1
        /\ \A g, h \in groups : g # h => /\ words(g) \cap words(h) = {}
                                         /\ scaleWords(g) \cap scaleWords(h) = {}

\* Quantising with the block's own scale loses at most half of it.
QuantiseBounded(v, a) ==
  LET q == Quantise(v, a)
  IN  q \in 0..15 /\ 2 * (7 * v - (q - 8) * a) <= a /\ 2 * ((q - 8) * a - 7 * v) <= a
=============================================================================
