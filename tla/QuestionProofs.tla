---------------------------- MODULE QuestionProofs ----------------------------
(***************************************************************************)
(* The parts without a state, which Algorithms asks questions: what the run  *)
(* sees of small tensors and short lists of logits, for all of them.  First  *)
(* Packing: kernels read what was packed, no two weights share a cell,       *)
(* packer threads write different words, a split kernel sums every block     *)
(* once, and quantising loses at most half a step.  Then the same of Quant,  *)
(* that Sampling's fast paths choose like the exact ones, and that Gguf      *)
(* reads back whatever file was written: what stands where in the file (Has, *)
(* Laid), and a read that is made whole or fails at its end (Yields).        *)
(***************************************************************************)
EXTENDS Packing, Quant, Sampling, Gguf, FiniteFacts, SequenceTheorems

\* Quotient and remainder are unique.
LEMMA EuclidUnique ==
  ASSUME NEW n \in Nat, NEW a \in Int, NEW b \in Int, NEW r \in 0..(n - 1), NEW s \in 0..(n - 1),
         a * n + r = b * n + s
  PROVE  a = b /\ r = s
<1>1. ASSUME NEW x \in Int, NEW y \in Int, x < y PROVE x * n + n <= y * n
  <2>1. y = x + 1 + (y - x - 1) /\ y - x - 1 \in Nat
    BY <1>1
  <2>2. \A d \in Nat : (x + 1 + d) * n = x * n + n + d * n /\ d * n \in Nat
    OBVIOUS
  <2>3. y * n = x * n + n + (y - x - 1) * n /\ (y - x - 1) * n \in Nat
    BY <2>1, <2>2
  <2>. QED
    BY <2>3
<1>2. a * n \in Int /\ b * n \in Int
  OBVIOUS
<1>3. ~(a < b)
  BY <1>1, <1>2
<1>4. ~(b < a)
  BY <1>1, <1>2
<1>. QED
  BY <1>2, <1>3, <1>4

\* The shape of a tensor the packer accepts.
LEMMA Shapes ==
  ASSUME NEW layout \in Layouts, NEW rows \in Nat, NEW cols \in Nat, Packable(layout, rows, cols)
  PROVE  /\ rows \div QBlock \in Nat /\ rows = 32 * (rows \div QBlock)
         /\ cols \div Group \in Nat /\ cols = 64 * (cols \div Group)
         /\ cols \div 8 \in Nat /\ cols = 8 * (cols \div 8)
BY DEF Packable, QBlock, Group

\* Where a weight is in its tensor: column j of group g, row k of block b.
LEMMA Places ==
  ASSUME NEW layout \in Layouts, NEW rows \in Nat, NEW cols \in Nat, Packable(layout, rows, cols),
         NEW j \in 0..(cols - 1), NEW k \in 0..(rows - 1)
  PROVE  /\ j \in Nat /\ k \in Nat
         /\ j \div 64 \in 0..(cols \div 64 - 1) /\ j % 64 \in 0..63 /\ j = 64 * (j \div 64) + (j % 64)
         /\ k \div 32 \in 0..(rows \div 32 - 1) /\ k % 32 \in 0..31 /\ k = 32 * (k \div 32) + (k % 32)
<1>1. /\ rows \div 32 \in Nat /\ rows = 32 * (rows \div 32)
      /\ cols \div 64 \in Nat /\ cols = 64 * (cols \div 64)
  BY Shapes DEF QBlock, Group
<1>2. \A i \in Nat : /\ i \div 64 \in Nat /\ i % 64 \in 0..63 /\ i = 64 * (i \div 64) + (i % 64)
                     /\ i \div 32 \in Nat /\ i % 32 \in 0..31 /\ i = 32 * (i \div 32) + (i % 32)
  OBVIOUS
<1>3. /\ \A n, q \in Nat, r \in 0..63 : 64 * q + r <= 64 * n - 1 => q \in 0..(n - 1)
      /\ \A n, q \in Nat, r \in 0..31 : 32 * q + r <= 32 * n - 1 => q \in 0..(n - 1)
  OBVIOUS
<1>4. j \in Nat /\ j <= 64 * (cols \div 64) - 1 /\ k \in Nat /\ k <= 32 * (rows \div 32) - 1
  BY <1>1
<1>5. j \div 64 \in 0..(cols \div 64 - 1)
  <2>1. 64 * (j \div 64) + (j % 64) <= 64 * (cols \div 64) - 1
    BY <1>2, <1>4
  <2>. QED
    BY <1>1, <1>2, <1>3, <1>4, <2>1
<1>6. k \div 32 \in 0..(rows \div 32 - 1)
  <2>1. 32 * (k \div 32) + (k % 32) <= 32 * (rows \div 32) - 1
    BY <1>2, <1>4
  <2>. QED
    BY <1>1, <1>2, <1>3, <1>4, <2>1
<1>. QED
  BY <1>2, <1>4, <1>5, <1>6

-----------------------------------------------------------------------------
(* The kernels read what the packer wrote.                                  *)

\* The kernel of every layout reads a weight, and the scale it is multiplied by,
\* in the cell the packer put it (pack_group against mv_ref, mv_km4, mv_km4_bs).
THEOREM KernelReadsTheCell ==
  ASSUME NEW layout \in Layouts, NEW rows \in Nat, NEW cols \in Nat, Packable(layout, rows, cols),
         NEW j \in 0..(cols - 1), NEW k \in 0..(rows - 1)
  PROVE  /\ ReadWeight(layout, rows, cols, j, k)
              = WeightCell(layout, rows, cols, j \div Group, j % Group, k)
         /\ ReadScale(layout, cols, j, k) = ScaleCell(layout, cols, k \div QBlock, j)
<1> DEFINE nblk == rows \div 32  w == cols \div 8
           g == j \div 64  c == j % 64  b == k \div 32  t == k % 32
<1>1. /\ nblk \in Nat /\ w \in Nat /\ cols = 8 * w
      /\ g \in Nat /\ c \in 0..63 /\ j = 64 * g + c
      /\ b \in Nat /\ t \in 0..31 /\ k = 32 * b + t /\ j \in Nat /\ k \in Nat
  BY Shapes, Places DEF QBlock, Group
<1>2. CASE layout = "ColumnNibble"
  <2>1. k * cols = 8 * (k * w) /\ k * w \in Nat
    BY <1>1
  <2>2. (k * cols + j) \div 8 = k * w + g * 8 + c \div 8
    <3>1. \A m \in Nat, h \in Nat, d \in 0..63 :
            (8 * m + (64 * h + d)) \div 8 = m + h * 8 + d \div 8
      OBVIOUS
    <3>. QED
      BY <1>1, <2>1, <3>1
  <2>3. j % 8 = c % 8
    BY <1>1
  <2>4. ReadWeight(layout, rows, cols, j, k) = <<(k * cols + j) \div 8, 4 * (j % 8)>>
    BY <1>2 DEF ReadWeight
  <2>5. WeightCell(layout, rows, cols, g, c, k) = <<k * w + g * 8 + c \div 8, 4 * (c % 8)>>
    BY <1>2 DEF WeightCell, Group
  <2>. QED
    BY <1>2, <2>2, <2>3, <2>4, <2>5 DEF ReadScale, ScaleCell, Group, QBlock
<1>3. CASE layout # "ColumnNibble"
  <2>1. ReadWeight(layout, rows, cols, j, k)
          = <<4 * (g * nblk * 64 + c + b * 64) + t \div 8, 4 * (k % 8)>>
    BY <1>3 DEF ReadWeight, Group, QBlock
  <2>2. WeightCell(layout, rows, cols, g, c, k)
          = <<((g * nblk + b) * 64 + c) * 4 + ((t \div 8) % 4), 4 * (t % 8)>>
    BY <1>3 DEF WeightCell, Group, QBlock
  <2>3. k % 8 = t % 8 /\ (t \div 8) % 4 = t \div 8
    BY <1>1
  <2>4. 4 * (g * nblk * 64 + c + b * 64) + t \div 8 = ((g * nblk + b) * 64 + c) * 4 + t \div 8
    <3>1. g * nblk \in Nat /\ t \div 8 \in Nat
      BY <1>1
    <3>2. \A m \in Nat, x \in Nat, y \in Nat, z \in Nat :
            4 * (m * 64 + x + y * 64) + z = ((m + y) * 64 + x) * 4 + z
      OBVIOUS
    <3>. QED
      BY <1>1, <3>1, <3>2
  <2>5. ReadScale(layout, cols, j, k) = ScaleCell(layout, cols, b, j)
    <3>1. CASE layout = "Km4Bf16"
      <4> DEFINE i == b % 4  word == ((b \div 4) * cols + j) * 2
      <4>1. i \in 0..3 /\ word \in Nat
        BY <1>1
      <4>2. ReadScale(layout, cols, j, k)
              = CASE i = 0 -> <<word, 0>>     [] i = 1 -> <<word, 16>>
                  [] i = 2 -> <<word + 1, 0>> [] i = 3 -> <<word + 1, 16>>
        BY <3>1 DEF ReadScale, QBlock
      <4>3. ScaleCell(layout, cols, b, j) = <<word + i \div 2, 16 * (i % 2)>>
        BY <3>1 DEF ScaleCell
      <4> HIDE DEF i, word
      <4>4. CASE i = 0
        BY <4>1, <4>2, <4>3, <4>4
      <4>5. CASE i = 1
        BY <4>1, <4>2, <4>3, <4>5
      <4>6. CASE i = 2
        BY <4>1, <4>2, <4>3, <4>6
      <4>7. CASE i = 3
        BY <4>1, <4>2, <4>3, <4>7
      <4>. QED
        BY <4>1, <4>4, <4>5, <4>6, <4>7
    <3>2. CASE layout # "Km4Bf16"
      BY <3>2 DEF ReadScale, ScaleCell, QBlock
    <3>. QED
      BY <3>1, <3>2
  <2>. QED
    BY <2>1, <2>2, <2>3, <2>4, <2>5 DEF Group, QBlock
<1>. QED
  BY <1>2, <1>3

-----------------------------------------------------------------------------
(* Cells are in bounds and nobody shares one.                               *)

\* The cell the packer uses for weight k of column j.
CellOf(layout, rows, cols, j, k) ==
  WeightCell(layout, rows, cols, j \div Group, j % Group, k)

LEMMA NibbleCell ==
  ASSUME NEW rows \in Nat, NEW cols \in Nat, Packable("ColumnNibble", rows, cols),
         NEW j \in 0..(cols - 1), NEW k \in 0..(rows - 1)
  PROVE  /\ CellOf("ColumnNibble", rows, cols, j, k)
              = <<k * (cols \div 8) + (j \div 8), 4 * (j % 8)>>
         /\ k \in Nat /\ cols \div 8 \in Nat /\ j \div 8 \in 0..(cols \div 8 - 1)
         /\ j % 8 \in 0..7 /\ j = 8 * (j \div 8) + (j % 8)
         /\ j \div 64 = (j \div 8) \div 8
<1>0. "ColumnNibble" \in Layouts
  BY DEF Layouts
<1>1. /\ cols \div 8 \in Nat /\ cols = 8 * (cols \div 8)
      /\ j \div 64 \in Nat /\ j % 64 \in 0..63 /\ j = 64 * (j \div 64) + (j % 64)
      /\ j \in Nat /\ k \in Nat
  BY <1>0, Shapes, Places
<1>2. /\ j \div 8 = (j \div 64) * 8 + ((j % 64) \div 8) /\ (j % 64) % 8 = j % 8
      /\ j \div 8 \in Nat /\ j % 8 \in 0..7 /\ j = 8 * (j \div 8) + (j % 8)
      /\ j \div 64 = (j \div 8) \div 8
  BY <1>1
<1>3. j \div 8 <= cols \div 8 - 1
  BY <1>1, <1>2
<1>4. CellOf("ColumnNibble", rows, cols, j, k)
        = <<k * (cols \div 8) + (j \div 64) * 8 + ((j % 64) \div 8), 4 * ((j % 64) % 8)>>
  BY DEF CellOf, WeightCell, Group
<1>5. k * (cols \div 8) \in Nat
  BY <1>1
<1>6. k * (cols \div 8) + (j \div 64) * 8 + ((j % 64) \div 8) = k * (cols \div 8) + (j \div 8)
  BY <1>1, <1>2, <1>5
<1>. QED
  BY <1>1, <1>2, <1>3, <1>4, <1>6

LEMMA Km4Cell ==
  ASSUME NEW layout \in Layouts, layout # "ColumnNibble",
         NEW rows \in Nat, NEW cols \in Nat, Packable(layout, rows, cols),
         NEW j \in 0..(cols - 1), NEW k \in 0..(rows - 1)
  PROVE  CellOf(layout, rows, cols, j, k)
           = <<(((j \div 64) * (rows \div 32) + (k \div 32)) * 64 + (j % 64)) * 4 + ((k % 32) \div 8),
               4 * ((k % 32) % 8)>>
<1>1. k % 32 \in 0..31
  BY Places
<1>2. ((k % 32) \div 8) % 4 = (k % 32) \div 8
  BY <1>1
<1>. QED
  BY <1>2 DEF CellOf, WeightCell, Group, QBlock

\* Every weight of a tensor has a cell of its own.
THEOREM WeightsApart ==
  ASSUME NEW layout \in Layouts, NEW rows \in Nat, NEW cols \in Nat, Packable(layout, rows, cols),
         NEW i \in 0..(cols - 1), NEW k \in 0..(rows - 1),
         NEW j \in 0..(cols - 1), NEW m \in 0..(rows - 1),
         CellOf(layout, rows, cols, i, k) = CellOf(layout, rows, cols, j, m)
  PROVE  i = j /\ k = m
<1>1. CASE layout = "ColumnNibble"
  <2> DEFINE w == cols \div 8
  <2>1. /\ w \in Nat /\ k \in Nat /\ m \in Nat
        /\ i \div 8 \in 0..(w - 1) /\ j \div 8 \in 0..(w - 1)
        /\ i % 8 \in 0..7 /\ i = 8 * (i \div 8) + (i % 8)
        /\ j % 8 \in 0..7 /\ j = 8 * (j \div 8) + (j % 8)
        /\ CellOf(layout, rows, cols, i, k) = <<k * w + (i \div 8), 4 * (i % 8)>>
        /\ CellOf(layout, rows, cols, j, m) = <<m * w + (j \div 8), 4 * (j % 8)>>
    BY <1>1, NibbleCell
  <2>2. k * w + (i \div 8) = m * w + (j \div 8) /\ 4 * (i % 8) = 4 * (j % 8)
    <3> DEFINE x == k * w + (i \div 8)  y == m * w + (j \div 8)
               c == 4 * (i % 8)  d == 4 * (j % 8)
    <3>1. <<x, c>> = <<y, d>>
      BY <2>1, Zenon
    <3> HIDE DEF x, y, c, d
    <3>2. x = y /\ c = d
      BY <3>1
    <3>. QED
      BY <3>2 DEF x, y, c, d
  <2>3. k = m /\ i \div 8 = j \div 8
    <3> HIDE DEF w
    <3>. QED
      BY <2>1, <2>2, EuclidUnique
  <2>. QED
    BY <2>1, <2>2, <2>3
<1>2. CASE layout # "ColumnNibble"
  <2> DEFINE n == rows \div 32
             X(g, b) == g * n + b
  <2>1. /\ n \in Nat
        /\ i \div 64 \in Nat /\ i % 64 \in 0..63 /\ i = 64 * (i \div 64) + (i % 64)
        /\ j \div 64 \in Nat /\ j % 64 \in 0..63 /\ j = 64 * (j \div 64) + (j % 64)
        /\ k \div 32 \in 0..(n - 1) /\ k % 32 \in 0..31 /\ k = 32 * (k \div 32) + (k % 32)
        /\ m \div 32 \in 0..(n - 1) /\ m % 32 \in 0..31 /\ m = 32 * (m \div 32) + (m % 32)
    BY Shapes, Places DEF QBlock
  <2>2. /\ (X(i \div 64, k \div 32) * 64 + (i % 64)) * 4 + ((k % 32) \div 8)
             = (X(j \div 64, m \div 32) * 64 + (j % 64)) * 4 + ((m % 32) \div 8)
        /\ 4 * ((k % 32) % 8) = 4 * ((m % 32) % 8)
    <3> DEFINE x == (X(i \div 64, k \div 32) * 64 + (i % 64)) * 4 + ((k % 32) \div 8)
               y == (X(j \div 64, m \div 32) * 64 + (j % 64)) * 4 + ((m % 32) \div 8)
               c == 4 * ((k % 32) % 8)  d == 4 * ((m % 32) % 8)
    <3>1. <<x, c>> = <<y, d>>
      BY <1>2, Km4Cell
    <3> HIDE DEF x, y, c, d
    <3>2. x = y /\ c = d
      BY <3>1
    <3>. QED
      BY <3>2 DEF x, y, c, d
  <2>3. X(i \div 64, k \div 32) \in Nat /\ X(j \div 64, m \div 32) \in Nat
    <3>1. (i \div 64) * n \in Nat /\ (j \div 64) * n \in Nat
      BY <2>1
    <3>. QED
      BY <2>1, <3>1
  <2>5. /\ X(i \div 64, k \div 32) = X(j \div 64, m \div 32)
        /\ i % 64 = j % 64 /\ (k % 32) \div 8 = (m % 32) \div 8
    <3> DEFINE x == X(i \div 64, k \div 32)  y == X(j \div 64, m \div 32)
               c == i % 64  d == j % 64  t == k % 32  u == m % 32
    <3>1. /\ x \in Nat /\ y \in Nat /\ c \in 0..63 /\ d \in 0..63 /\ t \in 0..31 /\ u \in 0..31
          /\ (x * 64 + c) * 4 + (t \div 8) = (y * 64 + d) * 4 + (u \div 8)
      BY <2>1, <2>2, <2>3
    <3> HIDE DEF x, y, c, d, t, u
    <3>2. x = y /\ c = d /\ t \div 8 = u \div 8
      BY <3>1
    <3>. QED
      BY <3>2 DEF x, y, c, d, t, u
  <2>8. k % 32 = m % 32
    BY <2>1, <2>2, <2>5
  <2>6. (i \div 64) * n + (k \div 32) = (j \div 64) * n + (m \div 32)
    BY <2>5
  <2>7. i \div 64 = j \div 64 /\ k \div 32 = m \div 32
    <3> HIDE DEF n
    <3>. QED
      BY <2>1, <2>6, EuclidUnique
  <2>. QED
    BY <2>1, <2>5, <2>7, <2>8
<1>. QED
  BY <1>1, <1>2

\* Packer threads, which take different groups of columns, write different words.
THEOREM GroupsApart ==
  ASSUME NEW layout \in Layouts, NEW rows \in Nat, NEW cols \in Nat, Packable(layout, rows, cols),
         NEW i \in 0..(cols - 1), NEW k \in 0..(rows - 1),
         NEW j \in 0..(cols - 1), NEW m \in 0..(rows - 1),
         CellOf(layout, rows, cols, i, k)[1] = CellOf(layout, rows, cols, j, m)[1]
  PROVE  i \div Group = j \div Group
<1>1. CASE layout = "ColumnNibble"
  <2> DEFINE w == cols \div 8
  <2>1. /\ w \in Nat /\ k \in Nat /\ m \in Nat
        /\ i \div 8 \in 0..(w - 1) /\ j \div 8 \in 0..(w - 1)
        /\ i \div 64 = (i \div 8) \div 8 /\ j \div 64 = (j \div 8) \div 8
        /\ CellOf(layout, rows, cols, i, k) = <<k * w + (i \div 8), 4 * (i % 8)>>
        /\ CellOf(layout, rows, cols, j, m) = <<m * w + (j \div 8), 4 * (j % 8)>>
    BY <1>1, NibbleCell
  <2>2. k * w + (i \div 8) = m * w + (j \div 8)
    <3> DEFINE x == k * w + (i \div 8)  y == m * w + (j \div 8)
               c == 4 * (i % 8)  d == 4 * (j % 8)
    <3>1. <<x, c>>[1] = <<y, d>>[1]
      BY <2>1, Zenon
    <3> HIDE DEF x, y, c, d
    <3>2. x = y
      BY <3>1
    <3>. QED
      BY <3>2 DEF x, y
  <2>3. i \div 8 = j \div 8
    <3> HIDE DEF w
    <3>. QED
      BY <2>1, <2>2, EuclidUnique
  <2>. QED
    BY <2>1, <2>3 DEF Group
<1>2. CASE layout # "ColumnNibble"
  <2> DEFINE n == rows \div 32
             X(g, b) == g * n + b
  <2>1. /\ n \in Nat
        /\ i \div 64 \in Nat /\ i % 64 \in 0..63 /\ j \div 64 \in Nat /\ j % 64 \in 0..63
        /\ k \div 32 \in 0..(n - 1) /\ k % 32 \in 0..31
        /\ m \div 32 \in 0..(n - 1) /\ m % 32 \in 0..31
    BY Shapes, Places DEF QBlock
  <2>2. (X(i \div 64, k \div 32) * 64 + (i % 64)) * 4 + ((k % 32) \div 8)
          = (X(j \div 64, m \div 32) * 64 + (j % 64)) * 4 + ((m % 32) \div 8)
    <3> DEFINE x == (X(i \div 64, k \div 32) * 64 + (i % 64)) * 4 + ((k % 32) \div 8)
               y == (X(j \div 64, m \div 32) * 64 + (j % 64)) * 4 + ((m % 32) \div 8)
               c == 4 * ((k % 32) % 8)  d == 4 * ((m % 32) % 8)
    <3>3. CellOf(layout, rows, cols, i, k) = <<x, c>> /\ CellOf(layout, rows, cols, j, m) = <<y, d>>
      BY <1>2, Km4Cell
    <3> HIDE DEF x, y, c, d
    <3>2. x = y
      BY <3>3
    <3>. QED
      BY <3>2 DEF x, y
  <2>3. X(i \div 64, k \div 32) \in Nat /\ X(j \div 64, m \div 32) \in Nat
    <3>1. (i \div 64) * n \in Nat /\ (j \div 64) * n \in Nat
      BY <2>1
    <3>. QED
      BY <2>1, <3>1
  <2>5. X(i \div 64, k \div 32) = X(j \div 64, m \div 32)
    <3> DEFINE x == X(i \div 64, k \div 32)  y == X(j \div 64, m \div 32)
               c == i % 64  d == j % 64  t == k % 32  u == m % 32
    <3>1. /\ x \in Nat /\ y \in Nat /\ c \in 0..63 /\ d \in 0..63 /\ t \in 0..31 /\ u \in 0..31
          /\ (x * 64 + c) * 4 + (t \div 8) = (y * 64 + d) * 4 + (u \div 8)
      BY <2>1, <2>2, <2>3
    <3> HIDE DEF x, y, c, d, t, u
    <3>2. x = y
      BY <3>1
    <3>. QED
      BY <3>2 DEF x, y
  <2>6. (i \div 64) * n + (k \div 32) = (j \div 64) * n + (m \div 32)
    BY <2>5
  <2>7. i \div 64 = j \div 64
    <3> HIDE DEF n
    <3>. QED
      BY <2>1, <2>6, EuclidUnique
  <2>. QED
    BY <2>7 DEF Group
<1>. QED
  BY <1>1, <1>2

\* No two blocks' scales share a cell, and scales of different columns are in
\* different words, so that threads that pack different groups of columns
\* never write the same word of scales.
THEOREM ScalesApart ==
  ASSUME NEW layout \in Layouts, NEW cols \in Nat,
         NEW i \in 0..(cols - 1), NEW j \in 0..(cols - 1), NEW b \in Nat, NEW c \in Nat,
         ScaleCell(layout, cols, b, i)[1] = ScaleCell(layout, cols, c, j)[1]
  PROVE  /\ i = j
         /\ ScaleCell(layout, cols, b, i) = ScaleCell(layout, cols, c, j) => b = c
<1>1. CASE layout # "Km4Bf16"
  <2>1. b * cols + i = c * cols + j
    BY <1>1 DEF ScaleCell
  <2>. QED
    BY <2>1, EuclidUnique
<1>2. CASE layout = "Km4Bf16"
  <2> DEFINE p == b \div 4  q == c \div 4  x == p * cols + i  y == q * cols + j
             u == b % 4  v == c % 4  s == 16 * (u % 2)  t == 16 * (v % 2)
  <2>1. /\ ScaleCell(layout, cols, b, i) = <<x * 2 + u \div 2, s>>
        /\ ScaleCell(layout, cols, c, j) = <<y * 2 + v \div 2, t>>
    BY <1>2 DEF ScaleCell
  <2>2. /\ p \in Nat /\ q \in Nat /\ u \in 0..3 /\ v \in 0..3
        /\ b = 4 * p + u /\ c = 4 * q + v
    OBVIOUS
  <2>3. x \in Int /\ y \in Int
    <3> HIDE DEF p, q
    <3>. QED
      BY <2>2
  <2> HIDE DEF x, y, u, v
  <2>4. x * 2 + u \div 2 = y * 2 + v \div 2
    <3> DEFINE d == x * 2 + u \div 2  e == y * 2 + v \div 2
    <3>1. ScaleCell(layout, cols, b, i) = <<d, s>> /\ ScaleCell(layout, cols, c, j) = <<e, t>>
      BY <2>1
    <3> HIDE DEF d, e, s, t
    <3>2. d = e
      BY <3>1
    <3>. QED
      BY <3>2 DEF d, e
  <2>5. x = y /\ u \div 2 = v \div 2
    BY <2>2, <2>3, <2>4
  <2>6. i = j /\ p = q
    <3>1. p * cols + i = q * cols + j
      BY <2>5 DEF x, y
    <3> HIDE DEF p, q
    <3>. QED
      BY <2>2, <3>1, EuclidUnique
  <2>7. ASSUME ScaleCell(layout, cols, b, i) = ScaleCell(layout, cols, c, j)
        PROVE  b = c
    <3>1. s = t
      <4> DEFINE d == x * 2 + u \div 2  e == y * 2 + v \div 2
      <4>1. <<d, s>> = <<e, t>>
        BY <2>1, <2>7
      <4> HIDE DEF d, e, s, t
      <4>2. s = t
        BY <4>1
      <4>. QED
        BY <4>2
    <3>2. u % 2 = v % 2
      BY <2>2, <3>1
    <3>3. u = v
      BY <2>2, <2>5, <3>2
    <3>. QED
      BY <2>2, <2>6, <3>3
  <2>. QED
    BY <2>6, <2>7
<1>. QED
  BY <1>1, <1>2

\* The packed words and scales are as many as the buffers are allocated for.
THEOREM CellsFit ==
  ASSUME NEW layout \in Layouts, NEW rows \in Nat, NEW cols \in Nat, Packable(layout, rows, cols),
         NEW j \in 0..(cols - 1), NEW k \in 0..(rows - 1)
  PROVE  /\ CellOf(layout, rows, cols, j, k)[1] \in 0..(WordCount(rows, cols) - 1)
         /\ ScaleCell(layout, cols, k \div QBlock, j)[1] \in 0..(ScaleCount(layout, rows, cols) - 1)
<1> DEFINE n == rows \div 32  h == cols \div 64  g == j \div 64  b == k \div 32
<1>1. /\ n \in Nat /\ rows = 32 * n /\ h \in Nat /\ cols = 64 * h
      /\ g \in 0..(h - 1) /\ b \in 0..(n - 1) /\ j \in Nat /\ k \in Nat
      /\ j % 64 \in 0..63 /\ k % 32 \in 0..31
  BY Shapes, Places DEF QBlock, Group
<1> HIDE DEF n, h, g, b
\* Rows of a matrix of y columns before the last one.
<1>2. \A x, y, i \in Nat : \A l \in 0..(y - 1) :
        i <= x - 1 => i * y + l \in 0..(x * y - 1)
  <2> SUFFICES ASSUME NEW x \in Nat, NEW y \in Nat, NEW i \in Nat, NEW l \in 0..(y - 1), i <= x - 1
               PROVE  i * y + l \in 0..(x * y - 1)
    OBVIOUS
  <2>1. x = i + 1 + (x - i - 1) /\ x - i - 1 \in Nat
    OBVIOUS
  <2>2. \A d \in Nat : (i + 1 + d) * y = i * y + y + d * y /\ d * y \in Nat
    OBVIOUS
  <2>3. x * y = i * y + y + (x - i - 1) * y /\ (x - i - 1) * y \in Nat /\ i * y \in Nat
    BY <2>1, <2>2
  <2>. QED
    BY <2>3
<1>3. WordCount(rows, cols) = 256 * (h * n) /\ h * n \in Nat
  <2>1. rows * cols = 2048 * (h * n) /\ h * n \in Nat
    BY <1>1
  <2>. QED
    BY <2>1 DEF WordCount
<1>4. CellOf(layout, rows, cols, j, k)[1] \in 0..(WordCount(rows, cols) - 1)
  <2>1. CASE layout = "ColumnNibble"
    <3> DEFINE w == cols \div 8
    <3>1. w \in Nat /\ cols = 8 * w /\ w = 8 * h
      BY <1>1
    <3>2. /\ CellOf(layout, rows, cols, j, k) = <<k * w + (j \div 8), 4 * (j % 8)>>
          /\ j \div 8 \in 0..(w - 1)
      BY <2>1, NibbleCell
    <3>3. k * w + (j \div 8) \in 0..(rows * w - 1)
      <4> HIDE DEF w
      <4>. QED
        BY <1>1, <1>2, <3>1, <3>2
    <3>4. rows * w = 256 * (h * n)
      BY <1>1, <3>1
    <3>. QED
      BY <1>3, <3>2, <3>3, <3>4
  <2>2. CASE layout # "ColumnNibble"
    <3> DEFINE x == g * n + b
    <3>1. x \in 0..(h * n - 1)
      BY <1>1, <1>2
    <3>2. CellOf(layout, rows, cols, j, k)[1] = (x * 64 + (j % 64)) * 4 + ((k % 32) \div 8)
      <4> DEFINE u == (x * 64 + (j % 64)) * 4 + ((k % 32) \div 8)  v == 4 * ((k % 32) % 8)
      <4>1. CellOf(layout, rows, cols, j, k) = <<u, v>>
        BY <2>2, Km4Cell DEF g, n, b
      <4> HIDE DEF u, v
      <4>2. CellOf(layout, rows, cols, j, k)[1] = u
        BY <4>1
      <4>. QED
        BY <4>2 DEF u
    <3> HIDE DEF x
    <3>3. (x * 64 + (j % 64)) * 4 + ((k % 32) \div 8) \in 0..(256 * (h * n) - 1)
      BY <1>1, <1>3, <3>1
    <3>. QED
      BY <1>3, <3>2, <3>3
  <2>. QED
    BY <2>1, <2>2
<1>5. ScaleCell(layout, cols, b, j)[1] \in 0..(ScaleCount(layout, rows, cols) - 1)
  <2>1. CASE layout = "Km4Bf16"
    <3>1. n % 4 = 0
      BY <2>1 DEF Packable, QBlock, n
    <3> DEFINE q == b \div 4  u == n \div 4
    <3>2. q \in Nat /\ u \in Nat /\ n = 4 * u /\ q <= u - 1 /\ b % 4 \in 0..3
      BY <1>1, <3>1
    <3>3. q * cols + j \in 0..(u * cols - 1)
      <4> HIDE DEF q, u
      <4>. QED
        BY <1>2, <3>2
    <3>4. ScaleCell(layout, cols, b, j) = <<(q * cols + j) * 2 + ((b % 4) \div 2), 16 * ((b % 4) % 2)>>
      BY <2>1 DEF ScaleCell
    <3>5. ScaleCount(layout, rows, cols) = u * cols * 2
      BY <2>1 DEF ScaleCount, QBlock, n
    <3> DEFINE y == q * cols + j  z == u * cols
    <3>6. ScaleCell(layout, cols, b, j)[1] = y * 2 + ((b % 4) \div 2)
      BY <3>4
    <3>7. z \in Int /\ y \in 0..(z - 1) /\ ScaleCount(layout, rows, cols) = z * 2
      BY <1>1, <3>2, <3>3, <3>5
    <3> HIDE DEF y, z
    <3>. QED
      BY <3>2, <3>6, <3>7
  <2>2. CASE layout # "Km4Bf16"
    <3>1. ScaleCell(layout, cols, b, j)[1] = b * cols + j
      BY <2>2 DEF ScaleCell
    <3>2. ScaleCount(layout, rows, cols) = n * cols
      BY <2>2 DEF ScaleCount, QBlock, n
    <3>. QED
      BY <1>1, <1>2, <3>1, <3>2
  <2>. QED
    BY <2>1, <2>2
<1>. QED
  BY <1>4, <1>5 DEF b, QBlock

\* Dividing among parts: what ceil(n / split) of each of the split parts hold
\* is at least n (mv_km4_bs_split's per).
LEMMA PartsCover ==
  ASSUME NEW n \in Nat, NEW split \in Nat \ {0}
  PROVE  LET per == (n + split - 1) \div split IN per \in Nat /\ n <= split * per
<1> DEFINE a == n + split - 1  per == a \div split
<1>1. a \in Nat /\ per \in Int /\ a % split \in 0..(split - 1)
  OBVIOUS
<1>2. a = split * per + (a % split)
  BY <1>1
<1>3. per >= 0
  <2>1. CASE per <= -1
    <3>1. split * per <= -split
      <4>1. \A d \in Nat : split * (-1 - d) = -split - split * d /\ split * d \in Nat
        OBVIOUS
      <4>2. -1 - per \in Nat /\ per = -1 - (-1 - per)
        BY <1>1, <2>1
      <4> HIDE DEF per
      <4>. QED
        BY <4>1, <4>2
    <3>. QED
      BY <1>1, <1>2, <3>1
  <2>. QED
    BY <1>1, <2>1
<1>4. n <= split * per
  <2>1. split * per \in Int
    BY <1>1
  <2>2. a < split * per + split
    BY <1>1, <1>2, <2>1
  <2>. QED
    BY <2>1, <2>2
<1>. QED
  BY <1>1, <1>3, <1>4

\* Every block of a tensor is summed by exactly one of the parts its matvec is
\* split into, however many there are: by the part its unit falls into.
THEOREM BlocksOnce ==
  ASSUME NEW layout \in Layouts, NEW rows \in Nat, NEW cols \in Nat, Packable(layout, rows, cols),
         NEW split \in Nat \ {0}, NEW b \in 0..(rows \div QBlock - 1)
  PROVE  \E p \in 0..(split - 1) :
           \A q \in 0..(split - 1) : b \in PartBlocks(layout, rows, split, q) <=> q = p
<1> DEFINE unit == IF layout = "Km4Bf16" THEN 4 ELSE 1
           n == (rows \div QBlock) \div unit
           per == (n + split - 1) \div split
           x == b \div unit
<1>1. /\ n \in Nat /\ rows \div QBlock = n * unit /\ unit \in {1, 4}
      /\ x \in 0..(n - 1) /\ b \in Nat
  <2>1. rows \div 32 \in Nat /\ (layout = "Km4Bf16" => (rows \div 32) % 4 = 0)
    BY DEF Packable, QBlock
  <2>. QED
    BY <2>1 DEF QBlock
<1>2. per \in Nat /\ n <= split * per
  <2> HIDE DEF n
  <2>. QED
    BY <1>1, PartsCover
<1>3. per > 0
  <2>1. split * 0 = 0
    OBVIOUS
  <2>2. per # 0
    <3> HIDE DEF per, n, x
    <3>. QED
      BY <1>1, <1>2, <2>1
  <2>. QED
    BY <1>2, <2>2
\* A part holds the block when the block's unit is among its per ones.
<1>4. ASSUME NEW q \in 0..(split - 1)
      PROVE  b \in PartBlocks(layout, rows, split, q) <=> q * per <= x /\ x < q * per + per
  <2> DEFINE first == q * per
             end == IF first + per < n THEN first + per ELSE n
  <2>1. first \in Nat
    <3> HIDE DEF per
    <3>. QED
      BY <1>2
  <2>2. b \in PartBlocks(layout, rows, split, q)
          <=> b \in 0..(rows \div QBlock) /\ first * unit <= b /\ b < end * unit
    BY DEF PartBlocks
  <2>3. b \in 0..(rows \div QBlock)
    BY <1>1
  <2>4. first * unit <= b <=> first <= x
    <3> HIDE DEF first
    <3>. QED
      BY <1>1, <2>1
  <2>5. end \in Nat
    <3> HIDE DEF first, per, n
    <3>. QED
      BY <1>1, <1>2, <2>1
  <2>6. b < end * unit <=> x < end
    <3> HIDE DEF end
    <3>. QED
      BY <1>1, <2>5
  <2>7. x < end <=> x < first + per
    <3> HIDE DEF first, per, n, x
    <3>. QED
      BY <1>1, <1>2, <2>1
  <2>. QED
    BY <2>2, <2>3, <2>4, <2>6, <2>7
<1>5. /\ x \div per \in 0..(split - 1)
      /\ \A q \in 0..(split - 1) : (q * per <= x /\ x < q * per + per) <=> q = x \div per
  <2> DEFINE p == x \div per
  <2>1. x \in Nat /\ per \in Nat \ {0} /\ split \in Nat /\ n \in Nat /\ x < n /\ n <= split * per
    BY <1>1, <1>2, <1>3
  <2> HIDE DEF x, per, n
  <2>2. p \in Int /\ x % per \in 0..(per - 1) /\ x = per * p + (x % per)
    BY <2>1
  <2>3. p * per <= x /\ x < p * per + per
    BY <2>1, <2>2
  <2> HIDE DEF p
  \* A smaller part ends at or before p's first unit.
  <2>4. \A c, d \in Int : c < d => c * per + per <= d * per
    <3> SUFFICES ASSUME NEW c \in Int, NEW d \in Int, c < d
                 PROVE  c * per + per <= d * per
      OBVIOUS
    <3>1. d - c - 1 \in Nat /\ d = c + 1 + (d - c - 1)
      OBVIOUS
    <3>2. \A e \in Nat : (c + 1 + e) * per = c * per + per + e * per /\ e * per \in Nat
      BY <2>1
    <3>3. d * per = c * per + per + (d - c - 1) * per /\ (d - c - 1) * per \in Nat /\ c * per \in Int
      BY <2>1, <3>1, <3>2
    <3>. QED
      BY <2>1, <3>3
  <2>5. p >= 0
    <3>1. CASE p < 0
      <4>1. p * per + per <= 0 * per /\ 0 * per = 0 /\ p * per \in Int
        BY <2>1, <2>2, <2>4, <3>1
      <4>. QED
        BY <2>1, <2>3, <4>1
    <3>. QED
      BY <2>2, <3>1, SMT
  <2>6. p < split
    <3>1. CASE split <= p
      <4>1. split * per <= p * per
        <5>1. CASE split = p
          BY <2>1, <2>2, <5>1
        <5>2. CASE split < p
          <6>1. split * per + per <= p * per /\ split * per \in Int /\ p * per \in Int
            BY <2>1, <2>2, <2>4, <5>2
          <6>. QED
            BY <2>1, <6>1
        <5>. QED
          BY <2>1, <2>2, <3>1, <5>1, <5>2
      <4>2. split * per \in Int /\ p * per \in Int
        BY <2>1, <2>2
      <4>. QED
        BY <2>1, <2>3, <4>1, <4>2
    <3>. QED
      BY <2>1, <2>2, <3>1
  <2>7. ASSUME NEW q \in 0..(split - 1)
        PROVE  (q * per <= x /\ x < q * per + per) <=> q = p
    <3>1. q * per \in Int /\ p * per \in Int
      BY <2>1, <2>2
    <3>2. CASE q < p
      <4>1. q * per + per <= p * per
        BY <2>2, <2>4, <3>2
      <4>. QED
        BY <2>1, <2>3, <3>1, <3>2, <4>1
    <3>3. CASE p < q
      <4>1. p * per + per <= q * per
        BY <2>2, <2>4, <3>3
      <4>. QED
        BY <2>1, <2>3, <3>1, <3>3, <4>1
    <3>4. CASE q = p
      BY <2>3, <3>4
    <3>. QED
      BY <2>2, <3>2, <3>3, <3>4
  <2>. QED
    BY <2>1, <2>2, <2>5, <2>6, <2>7 DEF p
<1>. QED
  BY <1>4, <1>5

\* The magnitude of a rounded quotient, of a dividend m of at most 7 a.
LEMMA RoundedMagnitude ==
  ASSUME NEW a \in Nat \ {0}, NEW m \in 0..(7 * a)
  PROVE  LET r == (2 * m + a) \div (2 * a)
         IN  r \in 0..7 /\ 2 * (r * a) <= 2 * m + a /\ 2 * m <= 2 * (r * a) + a
<1> DEFINE x == 2 * m + a  y == 2 * a  r == x \div y
<1>1. x \in Nat /\ y \in Nat \ {0} /\ x <= 15 * a /\ y = 2 * a
  OBVIOUS
<1> HIDE DEF x, y
<1>2. r \in Int /\ x = y * r + (x % y) /\ x % y \in 0..(y - 1)
  BY <1>1
<1> HIDE DEF r
<1>3. r * a \in Int /\ y * r = 2 * (r * a)
  BY <1>1, <1>2
<1>4. 2 * (r * a) <= x /\ x < 2 * (r * a) + 2 * a
  BY <1>1, <1>2, <1>3
<1>5. r >= 0
  <2>1. CASE r <= -1
    <3>1. \A d \in Nat : (-1 - d) * a = -a - d * a /\ d * a \in Nat
      OBVIOUS
    <3>2. -1 - r \in Nat /\ r = -1 - (-1 - r)
      BY <1>2, <2>1
    <3>3. r * a <= -a
      BY <3>1, <3>2
    <3>. QED
      BY <1>1, <1>3, <1>4, <3>3
  <2>. QED
    BY <1>2, <2>1
<1>6. r <= 7
  <2>1. CASE r >= 8
    <3>1. \A d \in Nat : (8 + d) * a = 8 * a + d * a /\ d * a \in Nat
      OBVIOUS
    <3>2. r - 8 \in Nat /\ r = 8 + (r - 8)
      BY <1>2, <2>1
    <3>3. r * a >= 8 * a
      BY <3>1, <3>2
    <3>. QED
      BY <1>1, <1>3, <1>4, <3>3
  <2>. QED
    BY <1>2, <2>1
<1>7. 2 * m <= 2 * (r * a) + a
  BY <1>3, <1>4 DEF x
<1>. QED
  BY <1>2, <1>4, <1>5, <1>6, <1>7 DEF r, x, y

\* A weight of a block whose largest magnitude is a is packed as a nibble, and
\* comes back within half a step of what it was (quantise, pack_group).
THEOREM QuantiseLosesHalfAStep ==
  ASSUME NEW a \in Nat, NEW v \in (-a)..a
  PROVE  QuantiseBounded(v, a)
<1>1. CASE a = 0
  <2>1. v = 0 /\ Quantise(v, a) = 8
    BY <1>1 DEF Quantise
  <2>. QED
    BY <1>1, <2>1 DEF QuantiseBounded
<1>2. CASE a # 0 /\ v >= 0
  <2> DEFINE m == 7 * v  r == (2 * m + a) \div (2 * a)
  <2>1. a \in Nat \ {0} /\ m \in 0..(7 * a)
    BY <1>2
  <2>2. r \in 0..7 /\ 2 * (r * a) <= 2 * m + a /\ 2 * m <= 2 * (r * a) + a
    <3> HIDE DEF m
    <3>. QED
      BY <2>1, RoundedMagnitude
  <2>3. Quantise(v, a) = Clamp(r + 8, 0, 15)
    BY <1>2, <2>1 DEF Quantise, Round
  <2>4. Quantise(v, a) = r + 8
    <3> HIDE DEF r
    <3>. QED
      BY <2>2, <2>3 DEF Clamp
  <2>. QED
    <3> HIDE DEF r
    <3>1. r * a \in Int /\ (Quantise(v, a) - 8) * a = r * a
      BY <2>2, <2>4
    <3>. QED
      BY <2>1, <2>2, <2>4, <3>1 DEF QuantiseBounded
<1>3. CASE a # 0 /\ v < 0
  <2> DEFINE m == 7 * (-v)  r == (2 * m + a) \div (2 * a)
  <2>1. a \in Nat \ {0} /\ m \in 0..(7 * a)
    BY <1>3
  <2>2. r \in 0..7 /\ 2 * (r * a) <= 2 * m + a /\ 2 * m <= 2 * (r * a) + a
    <3> HIDE DEF m
    <3>. QED
      BY <2>1, RoundedMagnitude
  <2>3. Quantise(v, a) = Clamp(-r + 8, 0, 15)
    <3>1. a - 2 * (7 * v) = 2 * m + a /\ ~(7 * v >= 0)
      BY <1>3
    <3>2. Round(7 * v, a) = -r
      BY <3>1 DEF Round
    <3>. QED
      BY <1>3, <3>2 DEF Quantise
  <2>4. Quantise(v, a) = -r + 8
    <3> HIDE DEF r
    <3>. QED
      BY <2>2, <2>3 DEF Clamp
  <2>. QED
    <3> HIDE DEF r
    <3>1. r * a \in Int /\ (Quantise(v, a) - 8) * a = -(r * a)
      BY <2>2, <2>4
    <3>. QED
      BY <2>1, <2>2, <2>4, <3>1 DEF QuantiseBounded
<1>. QED
  BY <1>1, <1>2, <1>3

-----------------------------------------------------------------------------
(* Packing and Quant: the whole of PackingAgrees and RepackAgrees.          *)

\* The repacker takes the same bits out of a block as the reference dequantiser,
\* for every element of a row (repack, GGUFFile::dequantize).
LEMMA SameBits ==
  ASSUME NEW type \in Types, NEW k \in Nat
  PROVE  LET x == Extract(type, k) d == Dequantize(type, k)
         IN  x.quant = d.quant /\ x.scale = d.scale /\ x.bias = d.bias
<1>1. CASE type = "Q8_0"
  BY <1>1 DEF Extract, Dequantize, ExtractQ8_0, DequantizeQ8_0
<1>2. CASE type = "Q5_0"
  <2> DEFINE b == k \div 32  j == k % 32  i == k % 16
  <2>1. b \in Nat /\ j \in 0..31 /\ i \in 0..15 /\ j % 16 = i /\ j = (IF j < 16 THEN i ELSE i + 16)
    OBVIOUS
  <2>2. /\ Extract(type, k) = ExtractQ5_0(b, j)
        /\ Dequantize(type, k) = DequantizeQ5_0(k)
    BY <1>2 DEF Extract, Dequantize
  <2>3. /\ ExtractQ5_0(b, j).quant
            = Bits(22 * b + 6 + i, IF j < 16 THEN 0 ELSE 4, 4) \o Bits(22 * b + 2, j, 1)
        /\ ExtractQ5_0(b, j).scale = <<Fp16(22 * b)>> /\ ExtractQ5_0(b, j).bias = <<>>
    BY <2>1 DEF ExtractQ5_0
  <2>4. /\ DequantizeQ5_0(k).quant
             = Bits(22 * b + 6 + i, IF j >= 16 THEN 4 ELSE 0, 4)
                 \o Bits(22 * b + 2, IF j >= 16 THEN i + 12 + 4 ELSE i, 1)
        /\ DequantizeQ5_0(k).scale = <<Fp16(22 * b)>> /\ DequantizeQ5_0(k).bias = <<>>
    BY DEF DequantizeQ5_0
  <2> HIDE DEF b, j, i
  <2>5. /\ (IF j >= 16 THEN 4 ELSE 0) = (IF j < 16 THEN 0 ELSE 4)
        /\ (IF j >= 16 THEN i + 12 + 4 ELSE i) = j
    BY <2>1
  <2>. QED
    BY <2>2, <2>3, <2>4, <2>5
<1>3. CASE type = "Q4_K"
  <2> DEFINE b == k \div 256  s == (k % 256) \div 32  l == k % 32
             turn == (k % 256) \div 64  high == (k % 64) \div 32
  <2>1. /\ b \in Nat /\ s \in 0..7 /\ l \in 0..31 /\ turn \in 0..3 /\ high \in 0..1
        /\ s = 2 * turn + high /\ s \div 2 = turn /\ s % 2 = high
    OBVIOUS
  <2>2. /\ Extract(type, k) = ExtractQ4_K(b, s, l)
        /\ Dequantize(type, k) = DequantizeQ4_K(k)
    BY <1>3 DEF Extract, Dequantize
  <2>3. /\ ExtractQ4_K(b, s, l).quant
             = Bits(144 * b + 16 + (s \div 2) * 32 + l, IF s % 2 = 1 THEN 4 ELSE 0, 4)
        /\ ExtractQ4_K(b, s, l).scale = <<Fp16(144 * b), Q4kScale(144 * b + 4, s)>>
        /\ ExtractQ4_K(b, s, l).bias = <<Fp16(144 * b + 2), Q4kMin(144 * b + 4, s)>>
    BY DEF ExtractQ4_K
  <2>4. /\ DequantizeQ4_K(k).quant = Bits(144 * b + 16 + 32 * turn + l, 4 * high, 4)
        /\ DequantizeQ4_K(k).scale = <<Fp16(144 * b), K4Scale(144 * b + 4, 2 * turn + high)>>
        /\ DequantizeQ4_K(k).bias = <<Fp16(144 * b + 2), K4Min(144 * b + 4, 2 * turn + high)>>
    BY DEF DequantizeQ4_K
  <2> HIDE DEF b, s, l, turn, high
  <2>5. /\ (IF s % 2 = 1 THEN 4 ELSE 0) = 4 * high
        /\ 144 * b + 16 + (s \div 2) * 32 + l = 144 * b + 16 + 32 * turn + l
    BY <2>1
  <2>6. \A q, i : Q4kScale(q, i) = K4Scale(q, i) /\ Q4kMin(q, i) = K4Min(q, i)
    BY DEF Q4kScale, K4Scale, Q4kMin, K4Min
  <2>. QED
    BY <2>1, <2>2, <2>3, <2>4, <2>5, <2>6
<1>4. CASE type = "Q6_K"
  <2> DEFINE b == k \div 256  h == (k % 256) \div 128  g == (k % 128) \div 32  l == k % 32
  <2>1. b \in Nat /\ h \in 0..1 /\ g \in 0..3 /\ l \in 0..31 /\ l \div 16 \in Nat
    OBVIOUS
  <2>2. /\ Extract(type, k) = ExtractQ6_K(b, h, g, l)
        /\ Dequantize(type, k) = DequantizeQ6_K(k)
    BY <1>4 DEF Extract, Dequantize
  <2>3. /\ ExtractQ6_K(b, h, g, l).quant
             = Bits(210 * b + h * 64 + l + (g % 2) * 32, IF g < 2 THEN 0 ELSE 4, 4)
                 \o Bits(210 * b + 128 + h * 32 + l, 2 * g, 2)
        /\ ExtractQ6_K(b, h, g, l).scale
             = <<Fp16(210 * b + 208), Bits(210 * b + 192 + h * 8 + l \div 16 + 2 * g, 0, 8)>>
        /\ ExtractQ6_K(b, h, g, l).bias = <<>>
    BY DEF ExtractQ6_K
  <2>4. /\ DequantizeQ6_K(k).quant
             = (CASE g = 0 -> Bits(210 * b + 64 * h + l, 0, 4)
                  [] g = 1 -> Bits(210 * b + 64 * h + l + 32, 0, 4)
                  [] g = 2 -> Bits(210 * b + 64 * h + l, 4, 4)
                  [] g = 3 -> Bits(210 * b + 64 * h + l + 32, 4, 4))
                 \o Bits(210 * b + 128 + 32 * h + l, 2 * g, 2)
        /\ DequantizeQ6_K(k).scale
             = <<Fp16(210 * b + 208), Bits(210 * b + 192 + 8 * h + l \div 16 + 2 * g, 0, 8)>>
        /\ DequantizeQ6_K(k).bias = <<>>
    BY DEF DequantizeQ6_K
  <2> HIDE DEF b, h, g, l
  <2>5. /\ h * 64 = 64 * h /\ h * 32 = 32 * h /\ h * 8 = 8 * h
        /\ 64 * h \in Nat /\ 210 * b \in Nat
    BY <2>1
  <2>6. Bits(210 * b + h * 64 + l + (g % 2) * 32, IF g < 2 THEN 0 ELSE 4, 4)
          = CASE g = 0 -> Bits(210 * b + 64 * h + l, 0, 4)
              [] g = 1 -> Bits(210 * b + 64 * h + l + 32, 0, 4)
              [] g = 2 -> Bits(210 * b + 64 * h + l, 4, 4)
              [] g = 3 -> Bits(210 * b + 64 * h + l + 32, 4, 4)
    <3> DEFINE x == 210 * b + 64 * h + l
    <3>1. x \in Nat /\ x + 0 = x
      BY <2>1, <2>5
    <3>2. 210 * b + h * 64 + l + (g % 2) * 32 = x + (g % 2) * 32
      BY <2>5
    <3> HIDE DEF x
    <3>3. /\ g = 0 \/ g = 2 => x + (g % 2) * 32 = x
          /\ g = 1 \/ g = 3 => x + (g % 2) * 32 = x + 32
          /\ g \in {0, 1, 2, 3}
      BY <2>1, <3>1
    <3>4. Bits(x + (g % 2) * 32, IF g < 2 THEN 0 ELSE 4, 4)
            = CASE g = 0 -> Bits(x, 0, 4) [] g = 1 -> Bits(x + 32, 0, 4)
                [] g = 2 -> Bits(x, 4, 4) [] g = 3 -> Bits(x + 32, 4, 4)
      <4>1. CASE g = 0
        BY <3>3, <4>1
      <4>2. CASE g = 1
        BY <3>3, <4>2
      <4>3. CASE g = 2
        BY <3>3, <4>3
      <4>4. CASE g = 3
        BY <3>3, <4>4
      <4>. QED
        BY <3>3, <4>1, <4>2, <4>3, <4>4
    <3>. QED
      BY <3>2, <3>4 DEF x
  <2>7. /\ 210 * b + 128 + h * 32 + l = 210 * b + 128 + 32 * h + l
        /\ 210 * b + 192 + h * 8 + l \div 16 + 2 * g = 210 * b + 192 + 8 * h + l \div 16 + 2 * g
    BY <2>5
  <2>8. /\ ExtractQ6_K(b, h, g, l).quant = DequantizeQ6_K(k).quant
        /\ ExtractQ6_K(b, h, g, l).scale = DequantizeQ6_K(k).scale
        /\ ExtractQ6_K(b, h, g, l).bias = DequantizeQ6_K(k).bias
    <3>1. ExtractQ6_K(b, h, g, l).quant = DequantizeQ6_K(k).quant
      <4> DEFINE low == Bits(210 * b + h * 64 + l + (g % 2) * 32, IF g < 2 THEN 0 ELSE 4, 4)
      <4>1. ExtractQ6_K(b, h, g, l).quant = low \o Bits(210 * b + 128 + 32 * h + l, 2 * g, 2)
        BY <2>3, <2>7
      <4>2. DequantizeQ6_K(k).quant = low \o Bits(210 * b + 128 + 32 * h + l, 2 * g, 2)
        BY <2>4, <2>6
      <4>. QED
        BY <4>1, <4>2
    <3>2. ExtractQ6_K(b, h, g, l).scale = DequantizeQ6_K(k).scale
      BY <2>3, <2>4, <2>7
    <3>. QED
      BY <2>3, <2>4, <3>1, <3>2
  <2>. QED
    BY <2>2, <2>8
<1>. QED
  BY <1>1, <1>2, <1>3, <1>4 DEF Types

\* The slot of a row's block, and where in it an element is.
Slot(cols, r, k) == ((r \div 64) * (cols \div 32) + k \div 32) * 64 + (r % 64)

\* Where an element is: row r of tile r \div 64, place k % 32 of block k \div 32.
LEMMA Place ==
  ASSUME NEW cols \in Nat, cols % 32 = 0, NEW r \in Nat, NEW k \in 0..(cols - 1)
  PROVE  /\ cols \div 32 \in Nat /\ cols = 32 * (cols \div 32)
         /\ k \in Nat /\ k \div 32 \in 0..(cols \div 32 - 1) /\ k % 32 \in 0..31
         /\ k = 32 * (k \div 32) + (k % 32)
         /\ r \div 64 \in Nat /\ r % 64 \in 0..63 /\ r = 64 * (r \div 64) + (r % 64)
         /\ (r \div 64) * (cols \div 32) + k \div 32 \in Nat
         /\ Slot(cols, r, k) \in Nat
<1>1. /\ cols \div 32 \in Nat /\ cols = 32 * (cols \div 32)
      /\ k \in Nat /\ k \div 32 \in Nat /\ k % 32 \in 0..31 /\ k = 32 * (k \div 32) + (k % 32)
      /\ r \div 64 \in Nat /\ r % 64 \in 0..63 /\ r = 64 * (r \div 64) + (r % 64)
  OBVIOUS
<1>2. k \div 32 \in 0..(cols \div 32 - 1)
  <2>1. \A n, q \in Nat, x \in 0..31 : 32 * q + x <= 32 * n - 1 => q \in 0..(n - 1)
    OBVIOUS
  <2>2. 32 * (k \div 32) + (k % 32) <= 32 * (cols \div 32) - 1
    BY <1>1
  <2>. QED
    BY <1>1, <2>1, <2>2
<1>3. \A x, y, z \in Nat : x * y + z \in Nat
  OBVIOUS
<1>4. (r \div 64) * (cols \div 32) + k \div 32 \in Nat
  BY <1>1, <1>3
<1>5. Slot(cols, r, k) \in Nat
  BY <1>1, <1>4 DEF Slot
<1>. QED
  BY <1>1, <1>2, <1>4, <1>5

\* Two elements with one slot are of one row, and of one block.
LEMMA SlotsApart ==
  ASSUME NEW cols \in Nat, cols % 32 = 0, NEW r \in Nat, NEW k \in 0..(cols - 1),
         NEW s \in Nat, NEW m \in 0..(cols - 1), Slot(cols, r, k) = Slot(cols, s, m)
  PROVE  r = s /\ k \div 32 = m \div 32
<1> DEFINE n == cols \div 32  a == (r \div 64) * n + k \div 32  b == (s \div 64) * n + m \div 32
<1>1. /\ n \in Nat /\ a \in Nat /\ b \in Nat /\ r % 64 \in 0..63 /\ s % 64 \in 0..63
      /\ k \div 32 \in 0..(n - 1) /\ m \div 32 \in 0..(n - 1)
      /\ r \div 64 \in Nat /\ s \div 64 \in Nat
      /\ r = 64 * (r \div 64) + (r % 64) /\ s = 64 * (s \div 64) + (s % 64)
  <2>1. /\ n \in Nat /\ a \in Nat /\ r % 64 \in 0..63 /\ k \div 32 \in 0..(n - 1)
        /\ r \div 64 \in Nat /\ r = 64 * (r \div 64) + (r % 64)
    BY Place
  <2>2. /\ b \in Nat /\ s % 64 \in 0..63 /\ m \div 32 \in 0..(n - 1)
        /\ s \div 64 \in Nat /\ s = 64 * (s \div 64) + (s % 64)
    BY Place
  <2>. QED
    BY <2>1, <2>2
<1>2. a * 64 + (r % 64) = b * 64 + (s % 64)
  BY DEF Slot
<1>3. a = b /\ r % 64 = s % 64
  <2> HIDE DEF a, b
  <2>. QED
    BY <1>1, <1>2, EuclidUnique
<1>4. r \div 64 = s \div 64 /\ k \div 32 = m \div 32
  <2>1. (r \div 64) * n + k \div 32 = (s \div 64) * n + m \div 32
    BY <1>3
  <2>2. r \div 64 \in Int /\ s \div 64 \in Int
    BY <1>1
  <2> HIDE DEF n, a, b
  <2>. QED
    BY <1>1, <2>1, <2>2, EuclidUnique
<1>. QED
  BY <1>1, <1>3, <1>4

\* A row of the tensor is in a slot there is.
LEMMA SlotsFit ==
  ASSUME NEW cols \in Nat, cols % 32 = 0, NEW rows \in Nat, NEW r \in 0..(rows - 1),
         NEW k \in 0..(cols - 1)
  PROVE  Slots(rows, cols) \in Nat /\ Slot(cols, r, k) < Slots(rows, cols)
<1> DEFINE n == cols \div 32  tiles == PaddedRows(rows) \div 64  t == r \div 64
<1>1. /\ n \in Nat /\ r \in Nat /\ t \in Nat /\ r % 64 \in 0..63 /\ k \div 32 \in 0..(n - 1)
  BY Place
<1>2. tiles \in Nat /\ t <= tiles - 1
  <2>1. tiles = (rows + 63) \div 64
    BY DEF PaddedRows
  <2>. QED
    BY <2>1
<1>3. Slots(rows, cols) = tiles * n * 64 /\ Slot(cols, r, k) = (t * n + k \div 32) * 64 + (r % 64)
  BY DEF Slots, Slot
<1> HIDE DEF n, tiles, t
<1>4. t * n \in Nat /\ tiles * n \in Nat /\ t * n + n <= tiles * n
  <2>1. \A x, y \in Nat : x * n \in Nat /\ (x + 1 + y) * n = x * n + n + y * n
    BY <1>1
  <2>2. PICK y \in Nat : tiles = t + 1 + y
    <3>1. tiles - 1 - t \in Nat /\ tiles = t + 1 + (tiles - 1 - t)
      BY <1>1, <1>2
    <3>. QED
      BY <3>1
  <2>3. tiles * n = t * n + n + y * n /\ t * n \in Nat /\ y * n \in Nat
    BY <1>1, <2>1, <2>2
  <2>. QED
    BY <1>1, <2>3
<1>5. t * n + k \div 32 + 1 <= tiles * n
  BY <1>1, <1>4
<1>6. \A x, y \in Nat, z \in 0..63 : x + 1 <= y => x * 64 + z < y * 64 /\ y * 64 \in Nat
  OBVIOUS
<1>. QED
  BY <1>1, <1>3, <1>4, <1>5, <1>6

\* Where repack puts an element, by its slot i and its place j in the block.
LEMMA RepackCells ==
  ASSUME NEW type \in Types, NEW cols, NEW r, NEW k, NEW i, i = Slot(cols, r, k), NEW j, j = k % 32
  PROVE  /\ type = "Q8_0" => RepackCell(type, cols, r, k)
              = [quant |-> <<i * 8 + j \div 4, 8 * (j % 4)>>, high |-> <<>>, scale |-> i]
         /\ type = "Q5_0" => RepackCell(type, cols, r, k)
              = [quant |-> <<i * 4 + j \div 8, 4 * (j % 8)>>, high |-> <<i, j>>, scale |-> i]
         /\ type = "Q4_K" => RepackCell(type, cols, r, k)
              = [quant |-> <<i * 4 + j \div 8, 4 * (j % 8)>>, high |-> <<>>, scale |-> i]
         /\ type = "Q6_K" => RepackCell(type, cols, r, k)
              = [quant |-> <<i * 4 + j \div 8, 4 * (j % 8)>>,
                 high |-> <<i * 2 + j \div 16, 2 * (j % 16)>>, scale |-> i * 2 + j \div 16]
<1>1. CASE type = "Q8_0"
  BY <1>1 DEF RepackCell, Shape, Slot
<1>2. CASE type = "Q5_0"
  BY <1>2 DEF RepackCell, Shape, Slot
<1>3. CASE type = "Q4_K"
  BY <1>3 DEF RepackCell, Shape, Slot
<1>4. CASE type = "Q6_K"
  BY <1>4 DEF RepackCell, Shape, Slot
<1>. QED
  BY <1>1, <1>2, <1>3, <1>4 DEF Types

\* Nibble n (byte n) of component c of a block is where repack put element
\* c * Per + n, in the plane of the quants, of the high bits and of the scales,
\* for every row and column (repack, matvec_r*).
THEOREM KernelReadsRepacked ==
  ASSUME NEW type \in Types, NEW cols \in Nat, cols % 32 = 0, NEW r \in Nat, NEW k \in 0..(cols - 1)
  PROVE  KernelCell(type, cols, r, k \div 32, (k % 32) \div Per(type), (k % 32) % Per(type))
           = RepackCell(type, cols, r, k)
<1> DEFINE i == Slot(cols, r, k)  j == k % 32
<1>1. i \in Nat /\ j \in 0..31
  BY Place
<1>2. CASE type = "Q8_0"
  <2>1. KernelCell(type, cols, r, k \div 32, j \div Per(type), j % Per(type))
          = [quant |-> <<4 * (i * 2 + (j \div 4) \div 4) + ((j \div 4) % 4), 8 * (j % 4)>>,
             high |-> <<>>, scale |-> i]
    BY <1>2 DEF KernelCell, Slot, Per
  <2>2. RepackCell(type, cols, r, k)
          = [quant |-> <<i * 8 + j \div 4, 8 * (j % 4)>>, high |-> <<>>, scale |-> i]
    BY <1>2, RepackCells
  <2> HIDE DEF i, j
  <2>3. 4 * (i * 2 + (j \div 4) \div 4) + ((j \div 4) % 4) = i * 8 + j \div 4
    BY <1>1
  <2>. QED
    BY <2>1, <2>2, <2>3 DEF j
<1>3. CASE type # "Q8_0"
  <2> DEFINE c == j \div 8  n == j % 8
  <2>0. c \in 0..3 /\ n \in 0..7 /\ j = 8 * c + n /\ j \div 16 = c \div 2
        /\ 16 * (c % 2) + 2 * n = 2 * (j % 16)
    <3> HIDE DEF j
    <3>. QED
      BY <1>1
  <2>1. Per(type) = 8
    BY <1>3 DEF Per
  <2>2. CASE type = "Q5_0"
    <3>1. KernelCell(type, cols, r, k \div 32, c, n)
            = [quant |-> <<4 * i + c, 4 * n>>, high |-> <<i, 8 * c + n>>, scale |-> i]
      BY <2>2 DEF KernelCell, Slot
    <3>2. RepackCell(type, cols, r, k)
            = [quant |-> <<i * 4 + c, 4 * n>>, high |-> <<i, j>>, scale |-> i]
      BY <2>2, RepackCells
    <3> HIDE DEF i, j, c, n
    <3>3. 4 * i + c = i * 4 + c
      BY <1>1, <2>0
    <3>. QED
      BY <2>0, <2>1, <3>1, <3>2, <3>3 DEF j, c, n
  <2>3. CASE type = "Q4_K"
    <3>1. KernelCell(type, cols, r, k \div 32, c, n)
            = [quant |-> <<4 * i + c, 4 * n>>, high |-> <<>>, scale |-> i]
      BY <2>3 DEF KernelCell, Slot
    <3>2. RepackCell(type, cols, r, k)
            = [quant |-> <<i * 4 + c, 4 * n>>, high |-> <<>>, scale |-> i]
      BY <2>3, RepackCells
    <3> HIDE DEF i, j, c, n
    <3>3. 4 * i + c = i * 4 + c
      BY <1>1, <2>0
    <3>. QED
      BY <2>0, <2>1, <3>1, <3>2, <3>3 DEF j, c, n
  <2>4. CASE type = "Q6_K"
    <3>1. KernelCell(type, cols, r, k \div 32, c, n)
            = [quant |-> <<4 * i + c, 4 * n>>, high |-> <<i * 2 + c \div 2, 16 * (c % 2) + 2 * n>>,
               scale |-> i * 2 + c \div 2]
      BY <2>4 DEF KernelCell, Slot
    <3>2. RepackCell(type, cols, r, k)
            = [quant |-> <<i * 4 + c, 4 * n>>, high |-> <<i * 2 + j \div 16, 2 * (j % 16)>>,
               scale |-> i * 2 + j \div 16]
      BY <2>4, RepackCells
    <3> HIDE DEF i, j, c, n
    <3>3. 4 * i + c = i * 4 + c
      BY <1>1, <2>0
    <3>. QED
      BY <2>0, <2>1, <3>1, <3>2, <3>3 DEF j, c, n
  <2>. QED
    BY <1>3, <2>2, <2>3, <2>4 DEF Types
<1>. QED
  BY <1>2, <1>3

\* Two elements that share a cell are one, in the plane of the quants and, for
\* a type that has one, in that of the high bits (repack).
THEOREM RepackedApart ==
  ASSUME NEW type \in Types, NEW cols \in Nat, cols % 32 = 0,
         NEW r \in Nat, NEW k \in 0..(cols - 1), NEW s \in Nat, NEW m \in 0..(cols - 1),
         \/ RepackCell(type, cols, r, k).quant = RepackCell(type, cols, s, m).quant
         \/ /\ Shape[type].high > 0
            /\ RepackCell(type, cols, r, k).high = RepackCell(type, cols, s, m).high
  PROVE  r = s /\ k = m
<1> DEFINE i == Slot(cols, r, k)  j == k % 32  h == Slot(cols, s, m)  l == m % 32
<1>1. i \in Nat /\ j \in 0..31 /\ k = 32 * (k \div 32) + j
  BY Place
<1>2. h \in Nat /\ l \in 0..31 /\ m = 32 * (m \div 32) + l
  BY Place
<1>3. /\ type = "Q8_0" => RepackCell(type, cols, r, k).quant = <<i * 8 + j \div 4, 8 * (j % 4)>>
      /\ type # "Q8_0" => RepackCell(type, cols, r, k).quant = <<i * 4 + j \div 8, 4 * (j % 8)>>
      /\ type = "Q5_0" => RepackCell(type, cols, r, k).high = <<i, j>>
      /\ type = "Q6_K" => RepackCell(type, cols, r, k).high = <<i * 2 + j \div 16, 2 * (j % 16)>>
  BY DEF RepackCell, Slot, Types
<1>4. /\ type = "Q8_0" => RepackCell(type, cols, s, m).quant = <<h * 8 + l \div 4, 8 * (l % 4)>>
      /\ type # "Q8_0" => RepackCell(type, cols, s, m).quant = <<h * 4 + l \div 8, 4 * (l % 8)>>
      /\ type = "Q5_0" => RepackCell(type, cols, s, m).high = <<h, l>>
      /\ type = "Q6_K" => RepackCell(type, cols, s, m).high = <<h * 2 + l \div 16, 2 * (l % 16)>>
  BY DEF RepackCell, Slot, Types
<1>5. Shape[type].high > 0 => type \in {"Q5_0", "Q6_K"}
  BY DEF Shape, Types
<1> HIDE DEF i, j, h, l
<1>6. i = h /\ j = l
  <2>1. CASE /\ type = "Q8_0" /\ i * 8 + j \div 4 = h * 8 + l \div 4 /\ 8 * (j % 4) = 8 * (l % 4)
    <3>1. j \div 4 \in 0..7 /\ l \div 4 \in 0..7
      BY <1>1, <1>2
    <3>2. i = h /\ j \div 4 = l \div 4
      BY <1>1, <1>2, <2>1, <3>1
    <3>. QED
      BY <1>1, <1>2, <2>1, <3>2
  <2>2. CASE /\ i * 4 + j \div 8 = h * 4 + l \div 8 /\ 4 * (j % 8) = 4 * (l % 8)
    <3>1. j \div 8 \in 0..3 /\ l \div 8 \in 0..3
      BY <1>1, <1>2
    <3>2. i = h /\ j \div 8 = l \div 8
      BY <1>1, <1>2, <2>2, <3>1
    <3>. QED
      BY <1>1, <1>2, <2>2, <3>2
  <2>3. CASE /\ i * 2 + j \div 16 = h * 2 + l \div 16 /\ 2 * (j % 16) = 2 * (l % 16)
    <3>1. j \div 16 \in 0..1 /\ l \div 16 \in 0..1
      BY <1>1, <1>2
    <3>2. i = h /\ j \div 16 = l \div 16
      BY <1>1, <1>2, <2>3, <3>1
    <3>. QED
      BY <1>1, <1>2, <2>3, <3>2
  <2>. QED
    BY <1>3, <1>4, <1>5, <2>1, <2>2, <2>3
<1>7. r = s /\ k \div 32 = m \div 32
  <2>1. Slot(cols, r, k) = Slot(cols, s, m)
    BY <1>6 DEF i, h
  <2>2. r = s
    BY <2>1, SlotsApart, SMTT(30)
  <2>3. k \div 32 = m \div 32
    BY <2>1, SlotsApart, SMTT(30)
  <2>. QED
    BY <2>2, <2>3
<1>. QED
  BY <1>1, <1>2, <1>6, <1>7

\* Every cell repack writes is inside the plane it is allocated for, the last
\* tile of padded rows included (repack).
THEOREM RepackedFits ==
  ASSUME NEW type \in Types, NEW cols \in Nat, cols % 32 = 0, NEW rows \in Nat,
         NEW r \in 0..(rows - 1), NEW k \in 0..(cols - 1)
  PROVE  LET cell == RepackCell(type, cols, r, k)
             slots == Slots(rows, cols)
         IN  /\ cell.quant[1] < slots * Shape[type].words /\ cell.quant[2] < 32
             /\ cell.high # <<>> =>
                  cell.high[1] < slots * Shape[type].high /\ cell.high[2] < 32
             /\ cell.scale < slots * (32 \div Shape[type].gran)
<1> DEFINE i == Slot(cols, r, k)  j == k % 32  slots == Slots(rows, cols)
           cell == RepackCell(type, cols, r, k)
<1>0. /\ type = "Q8_0" => cell
           = [quant |-> <<i * 8 + j \div 4, 8 * (j % 4)>>, high |-> <<>>, scale |-> i]
      /\ type = "Q5_0" => cell
           = [quant |-> <<i * 4 + j \div 8, 4 * (j % 8)>>, high |-> <<i, j>>, scale |-> i]
      /\ type = "Q4_K" => cell
           = [quant |-> <<i * 4 + j \div 8, 4 * (j % 8)>>, high |-> <<>>, scale |-> i]
      /\ type = "Q6_K" => cell
           = [quant |-> <<i * 4 + j \div 8, 4 * (j % 8)>>,
              high |-> <<i * 2 + j \div 16, 2 * (j % 16)>>, scale |-> i * 2 + j \div 16]
  <2>1. i = Slot(cols, r, k) /\ j = k % 32 /\ cell = RepackCell(type, cols, r, k)
    OBVIOUS
  <2> HIDE DEF i, j, cell
  <2>. QED
    BY <2>1, RepackCells
<1>1. i \in Nat /\ j \in 0..31 /\ slots \in Nat /\ i < slots
  <2>1. r \in Nat
    OBVIOUS
  <2>2. i \in Nat /\ j \in 0..31
    BY <2>1, Place
  <2>. QED
    BY <2>2, SlotsFit
<1>2. /\ j \div 4 \in 0..7 /\ j \div 8 \in 0..3 /\ j \div 16 \in 0..1
      /\ j % 4 \in 0..3 /\ j % 8 \in 0..7 /\ j % 16 \in 0..15
  BY <1>1
<1>3. CASE type = "Q8_0"
  <2>1. cell = [quant |-> <<i * 8 + j \div 4, 8 * (j % 4)>>, high |-> <<>>, scale |-> i]
        /\ Shape[type] = [words |-> 8, high |-> 0, gran |-> 32]
    BY <1>3, <1>0 DEF Shape
  <2> HIDE DEF i, j, slots, cell
  <2>2. cell.quant[1] < slots * 8 /\ cell.quant[2] < 32 /\ cell.high = <<>> /\ cell.scale < slots * 1
    BY <1>1, <1>2, <2>1
  <2>. QED
    BY <2>1, <2>2 DEF cell, slots
<1>4. CASE type = "Q5_0"
  <2>1. cell = [quant |-> <<i * 4 + j \div 8, 4 * (j % 8)>>, high |-> <<i, j>>, scale |-> i]
        /\ Shape[type] = [words |-> 4, high |-> 1, gran |-> 32]
    BY <1>4, <1>0 DEF Shape
  <2> HIDE DEF i, j, slots, cell
  <2>2. /\ cell.quant[1] < slots * 4 /\ cell.quant[2] < 32
        /\ cell.high[1] < slots * 1 /\ cell.high[2] < 32 /\ cell.scale < slots * 1
    BY <1>1, <1>2, <2>1
  <2>. QED
    BY <2>1, <2>2 DEF cell, slots
<1>5. CASE type = "Q4_K"
  <2>1. cell = [quant |-> <<i * 4 + j \div 8, 4 * (j % 8)>>, high |-> <<>>, scale |-> i]
        /\ Shape[type] = [words |-> 4, high |-> 0, gran |-> 32]
    BY <1>5, <1>0 DEF Shape
  <2> HIDE DEF i, j, slots, cell
  <2>2. cell.quant[1] < slots * 4 /\ cell.quant[2] < 32 /\ cell.high = <<>> /\ cell.scale < slots * 1
    BY <1>1, <1>2, <2>1
  <2>. QED
    BY <2>1, <2>2 DEF cell, slots
<1>6. CASE type = "Q6_K"
  <2>1. cell = [quant |-> <<i * 4 + j \div 8, 4 * (j % 8)>>,
                high |-> <<i * 2 + j \div 16, 2 * (j % 16)>>, scale |-> i * 2 + j \div 16]
    BY <1>0, <1>6
  <2>0. Shape[type] = [words |-> 4, high |-> 2, gran |-> 16]
    BY <1>6 DEF Shape
  <2> HIDE DEF i, j, slots, cell
  <2>2. /\ cell.quant[1] < slots * 4 /\ cell.quant[2] < 32
        /\ cell.high[1] < slots * 2 /\ cell.high[2] < 32 /\ cell.scale < slots * 2
    BY <1>1, <1>2, <2>1
  <2>. QED
    BY <2>0, <2>1, <2>2 DEF cell, slots
<1>. QED
  BY <1>3, <1>4, <1>5, <1>6 DEF Types

\* A weight a kernel multiplies is the one the reference gives for that
\* element, in every type and for every shape (repack, matvec_r*,
\* GGUFFile::dequantize).
THEOREM EveryRepackAgrees ==
  ASSUME NEW type \in Types, NEW rows \in Nat, NEW cols \in Nat, NEW rs \in SUBSET (0..(rows - 1))
  PROVE  RepackAgrees(type, rows, cols, rs)
<1> SUFFICES ASSUME Repackable(type, rows, cols) PROVE RepackAgrees(type, rows, cols, rs)
  BY DEF RepackAgrees
<1> DEFINE es == rs \X (0..(cols - 1))
           cell == [e \in es |-> RepackCell(type, cols, e[1], e[2])]
           slots == Slots(rows, cols)
           read(e) == KernelCell(type, cols, e[1], e[2] \div 32, (e[2] % 32) \div Per(type),
                                 e[2] % Per(type))
<1>1. cols % 32 = 0 /\ DOMAIN cell = es
  BY DEF Repackable
<1>2. \A e \in es : /\ cell[e] = RepackCell(type, cols, e[1], e[2]) /\ e = <<e[1], e[2]>>
                    /\ e[1] \in 0..(rows - 1) /\ e[1] \in Nat /\ e[2] \in 0..(cols - 1)
  <2>. SUFFICES ASSUME NEW e \in es
       PROVE  /\ cell[e] = RepackCell(type, cols, e[1], e[2]) /\ e = <<e[1], e[2]>>
              /\ e[1] \in 0..(rows - 1) /\ e[1] \in Nat /\ e[2] \in 0..(cols - 1)
    OBVIOUS
  <2>1. e = <<e[1], e[2]>> /\ e[1] \in rs /\ e[2] \in 0..(cols - 1)
    OBVIOUS
  <2>2. e[1] \in 0..(rows - 1) /\ e[1] \in Nat
    <3>1. \A x \in rs : x \in 0..(rows - 1) /\ x \in Nat
      OBVIOUS
    <3>. QED
      BY <2>1, <3>1
  <2>. QED
    BY <2>1, <2>2
<1>3. ASSUME NEW k \in 0..(cols - 1)
      PROVE  LET x == Extract(type, k) d == Dequantize(type, k)
             IN  x.quant = d.quant /\ x.scale = d.scale /\ x.bias = d.bias
  <2>1. k \in Nat
    OBVIOUS
  <2>. QED
    BY <2>1, SameBits
<1>4. ASSUME NEW e \in es
      PROVE  /\ read(e) = cell[e]
             /\ cell[e].quant[1] < slots * Shape[type].words /\ cell[e].quant[2] < 32
             /\ cell[e].high # <<>> =>
                  cell[e].high[1] < slots * Shape[type].high /\ cell[e].high[2] < 32
             /\ cell[e].scale < slots * (32 \div Shape[type].gran)
  <2>1. /\ cell[e] = RepackCell(type, cols, e[1], e[2])
        /\ e[1] \in 0..(rows - 1) /\ e[1] \in Nat /\ e[2] \in 0..(cols - 1)
    BY <1>2
  <2>2. (e[2] % 32) % Per(type) = e[2] % Per(type)
    BY <2>1 DEF Per
  <2>3. KernelCell(type, cols, e[1], e[2] \div 32, (e[2] % 32) \div Per(type), (e[2] % 32) % Per(type))
          = RepackCell(type, cols, e[1], e[2])
    BY <1>1, <2>1, KernelReadsRepacked
  <2> HIDE DEF cell
  <2>. QED
    BY <1>1, <2>1, <2>2, <2>3, RepackedFits
<1>5. IsFiniteSet(es)
  <2>1. IsFiniteSet(0..(rows - 1)) /\ IsFiniteSet(0..(cols - 1))
    BY FS_Interval
  <2>2. IsFiniteSet(rs)
    BY <2>1, FS_Subset
  <2>. QED
    BY <2>1, <2>2, FS_Product
<1> DEFINE quants == [e \in es |-> cell[e].quant]  highs == [e \in es |-> cell[e].high]
<1>6. ASSUME NEW e \in es, NEW f \in es,
             quants[e] = quants[f] \/ (Shape[type].high > 0 /\ highs[e] = highs[f])
      PROVE  e = f
  <2>1. /\ quants[e] = RepackCell(type, cols, e[1], e[2]).quant
        /\ highs[e] = RepackCell(type, cols, e[1], e[2]).high
        /\ quants[f] = RepackCell(type, cols, f[1], f[2]).quant
        /\ highs[f] = RepackCell(type, cols, f[1], f[2]).high
    BY <1>2
  <2>2. /\ e = <<e[1], e[2]>> /\ e[1] \in Nat /\ e[2] \in 0..(cols - 1)
        /\ f = <<f[1], f[2]>> /\ f[1] \in Nat /\ f[2] \in 0..(cols - 1)
    BY <1>2
  <2> HIDE DEF quants, highs
  <2>3. e[1] = f[1] /\ e[2] = f[2]
    BY <1>1, <1>6, <2>1, <2>2, RepackedApart
  <2>. QED
    BY <2>2, <2>3
<1>7. Cardinality({cell[e].quant : e \in es}) = Cardinality(es)
  <2>1. {cell[e].quant : e \in es} = {quants[e] : e \in es}
    OBVIOUS
  <2> HIDE DEF quants, es
  <2>2. Cardinality({quants[e] : e \in es}) = Cardinality(es)
    BY <1>5, <1>6, AsMany
  <2>. QED
    BY <2>1, <2>2
<1>8. Shape[type].high > 0 => Cardinality({cell[e].high : e \in es}) = Cardinality(es)
  <2>1. {cell[e].high : e \in es} = {highs[e] : e \in es}
    OBVIOUS
  <2> HIDE DEF highs, es
  <2>2. Shape[type].high > 0 => Cardinality({highs[e] : e \in es}) = Cardinality(es)
    BY <1>5, <1>6, AsMany
  <2>. QED
    BY <2>1, <2>2
<1> HIDE DEF quants, highs
<1>. QED
  BY <1>1, <1>3, <1>4, <1>7, <1>8 DEF RepackAgrees

\* A tensor the packer accepts is multiplied whole, in every layout, for every
\* shape and split (build_pack_tasks, pack_group, mv_*).
THEOREM EveryPackingAgrees ==
  ASSUME NEW layout \in Layouts, NEW rows \in Nat, NEW cols \in Nat, NEW split \in Nat \ {0}
  PROVE  PackingAgrees(layout, rows, cols, split)
<1> SUFFICES ASSUME Packable(layout, rows, cols) PROVE PackingAgrees(layout, rows, cols, split)
  BY DEF PackingAgrees
<1> DEFINE es == (0..(cols - 1)) \X (0..(rows - 1))
           blocks == 0..(rows \div QBlock - 1)
           ss == (0..(cols - 1)) \X blocks
           cell == [e \in es |-> WeightCell(layout, rows, cols, e[1] \div Group, e[1] % Group, e[2])]
           scales == [s \in ss |-> ScaleCell(layout, cols, s[2], s[1])]
           words(g) == {cell[e][1] : e \in {x \in es : x[1] \div Group = g}}
           scaleWords(g) == {scales[s][1] : s \in {x \in DOMAIN scales : x[1] \div Group = g}}
           groups == 0..(cols \div Group - 1)
<1>1. /\ rows \div QBlock \in Nat /\ rows = 32 * (rows \div QBlock) /\ DOMAIN scales = ss
  BY Shapes
<1>2. ASSUME NEW e \in es
      PROVE  /\ e = <<e[1], e[2]>> /\ e[1] \in 0..(cols - 1) /\ e[2] \in 0..(rows - 1)
             /\ cell[e] = CellOf(layout, rows, cols, e[1], e[2])
  <2>1. e = <<e[1], e[2]>> /\ e[1] \in 0..(cols - 1) /\ e[2] \in 0..(rows - 1)
    OBVIOUS
  <2>. QED
    BY <2>1 DEF CellOf
<1>3. ASSUME NEW s \in ss
      PROVE  /\ s = <<s[1], s[2]>> /\ s[1] \in 0..(cols - 1) /\ s[2] \in blocks /\ s[2] \in Nat
             /\ scales[s] = ScaleCell(layout, cols, s[2], s[1])
  <2>1. s = <<s[1], s[2]>> /\ s[1] \in 0..(cols - 1) /\ s[2] \in blocks
    OBVIOUS
  <2>2. \A b \in blocks : b \in Nat
    BY <1>1
  <2>. QED
    BY <2>1, <2>2
<1> HIDE DEF cell, scales
<1>4. ASSUME NEW e \in es
      PROVE  /\ ReadWeight(layout, rows, cols, e[1], e[2]) = cell[e]
             /\ ReadScale(layout, cols, e[1], e[2]) = scales[<<e[1], e[2] \div QBlock>>]
             /\ cell[e][1] < WordCount(rows, cols)
  <2> DEFINE j == e[1]  k == e[2]  b == k \div QBlock
  <2>1. j \in 0..(cols - 1) /\ k \in 0..(rows - 1) /\ cell[e] = CellOf(layout, rows, cols, j, k)
    BY <1>2
  <2>2. b \in blocks
    BY <1>1, <2>1, Places DEF QBlock
  <2>3. scales[<<j, b>>] = ScaleCell(layout, cols, b, j)
    <3> HIDE DEF j, b, blocks
    <3>. QED
      BY <2>1, <2>2 DEF scales
  <2> HIDE DEF j, k
  <2>4. /\ ReadWeight(layout, rows, cols, j, k)
             = WeightCell(layout, rows, cols, j \div Group, j % Group, k)
        /\ ReadScale(layout, cols, j, k) = ScaleCell(layout, cols, k \div QBlock, j)
    <3>1. ReadWeight(layout, rows, cols, j, k)
            = WeightCell(layout, rows, cols, j \div Group, j % Group, k)
      BY <2>1, KernelReadsTheCell, ZenonT(60)
    <3>2. ReadScale(layout, cols, j, k) = ScaleCell(layout, cols, k \div QBlock, j)
      BY <2>1, KernelReadsTheCell, ZenonT(60)
    <3>. QED
      BY <3>1, <3>2
  <2>5. CellOf(layout, rows, cols, j, k)[1] \in 0..(WordCount(rows, cols) - 1)
    BY <2>1, CellsFit
  <2>6. WordCount(rows, cols) \in Int
    BY DEF WordCount
  <2>7. CellOf(layout, rows, cols, j, k)[1] < WordCount(rows, cols)
    BY <2>5, <2>6
  <2>. QED
    BY <2>1, <2>3, <2>4, <2>7 DEF CellOf, j, k
<1>5. ASSUME NEW s \in ss PROVE scales[s][1] < ScaleCount(layout, rows, cols)
  <2> DEFINE k == 32 * s[2]
  <2>1. /\ s[1] \in 0..(cols - 1) /\ s[2] \in blocks /\ s[2] \in Nat
        /\ scales[s] = ScaleCell(layout, cols, s[2], s[1])
    BY <1>3
  <2>2. k \in 0..(rows - 1) /\ k \div QBlock = s[2]
    BY <1>1, <2>1 DEF QBlock
  <2>3. ScaleCell(layout, cols, s[2], s[1])[1] \in 0..(ScaleCount(layout, rows, cols) - 1)
    <3> HIDE DEF k
    <3>. QED
      BY <2>1, <2>2, CellsFit
  <2>4. ScaleCount(layout, rows, cols) \in Int
    BY <1>1 DEF ScaleCount
  <2>. QED
    BY <2>1, <2>3, <2>4
<1>6. IsFiniteSet(es) /\ IsFiniteSet(ss)
  <2>1. IsFiniteSet(0..(cols - 1)) /\ IsFiniteSet(0..(rows - 1)) /\ IsFiniteSet(blocks)
    <3>1. cols - 1 \in Int /\ rows - 1 \in Int /\ rows \div QBlock - 1 \in Int
      BY <1>1
    <3>2. \A b \in Int : IsFiniteSet(0..b)
      BY FS_Interval
    <3>. QED
      BY <3>1, <3>2
  <2>. QED
    BY <2>1, FS_Product
<1>7. Cardinality({cell[e] : e \in es}) = Cardinality(es)
  <2>1. ASSUME NEW e \in es, NEW f \in es, cell[e] = cell[f] PROVE e = f
    <3>1. /\ e = <<e[1], e[2]>> /\ e[1] \in 0..(cols - 1) /\ e[2] \in 0..(rows - 1)
          /\ f = <<f[1], f[2]>> /\ f[1] \in 0..(cols - 1) /\ f[2] \in 0..(rows - 1)
          /\ CellOf(layout, rows, cols, e[1], e[2]) = CellOf(layout, rows, cols, f[1], f[2])
      BY <1>2, <2>1
    <3>2. e[1] = f[1] /\ e[2] = f[2]
      BY <3>1, WeightsApart
    <3>. QED
      BY <3>1, <3>2
  <2> HIDE DEF es
  <2>. QED
    BY <1>6, <2>1, AsMany
<1>8. Cardinality({scales[s] : s \in ss}) = Cardinality(ss)
  <2>1. ASSUME NEW s \in ss, NEW t \in ss, scales[s] = scales[t] PROVE s = t
    <3>1. /\ s = <<s[1], s[2]>> /\ s[1] \in 0..(cols - 1) /\ s[2] \in Nat
          /\ t = <<t[1], t[2]>> /\ t[1] \in 0..(cols - 1) /\ t[2] \in Nat
          /\ ScaleCell(layout, cols, s[2], s[1]) = ScaleCell(layout, cols, t[2], t[1])
      BY <1>3, <2>1
    <3>2. s[1] = t[1] /\ s[2] = t[2]
      BY <3>1, ScalesApart
    <3>. QED
      BY <3>1, <3>2
  <2> HIDE DEF ss
  <2>. QED
    BY <1>6, <2>1, AsMany
<1>9. ASSUME NEW b \in blocks
      PROVE  Cardinality({p \in 0..(split - 1) : b \in PartBlocks(layout, rows, split, p)}) = 1
  <2>1. PICK p \in 0..(split - 1) :
          \A q \in 0..(split - 1) : b \in PartBlocks(layout, rows, split, q) <=> q = p
    BY BlocksOnce
  <2>2. {q \in 0..(split - 1) : b \in PartBlocks(layout, rows, split, q)} = {p}
    BY <2>1
  <2>. QED
    BY <2>2, FS_Singleton
<1>10. ASSUME NEW g \in groups, NEW h \in groups, g # h
       PROVE  words(g) \cap words(h) = {} /\ scaleWords(g) \cap scaleWords(h) = {}
  <2>1. ASSUME NEW e \in es, NEW f \in es, e[1] \div Group = g, f[1] \div Group = h,
               cell[e][1] = cell[f][1]
        PROVE  FALSE
    <3>1. /\ e[1] \in 0..(cols - 1) /\ e[2] \in 0..(rows - 1)
          /\ f[1] \in 0..(cols - 1) /\ f[2] \in 0..(rows - 1)
          /\ CellOf(layout, rows, cols, e[1], e[2])[1] = CellOf(layout, rows, cols, f[1], f[2])[1]
      BY <1>2, <2>1
    <3>2. e[1] \div Group = f[1] \div Group
      BY <3>1, GroupsApart
    <3>. QED
      BY <1>10, <2>1, <3>2
  <2>2. ASSUME NEW s \in ss, NEW t \in ss, s[1] \div Group = g, t[1] \div Group = h,
               scales[s][1] = scales[t][1]
        PROVE  FALSE
    <3>1. /\ s[1] \in 0..(cols - 1) /\ s[2] \in Nat /\ t[1] \in 0..(cols - 1) /\ t[2] \in Nat
          /\ ScaleCell(layout, cols, s[2], s[1])[1] = ScaleCell(layout, cols, t[2], t[1])[1]
      BY <1>3, <2>2
    <3>2. s[1] = t[1]
      BY <3>1, ScalesApart
    <3>. QED
      BY <1>10, <2>2, <3>2
  <2> HIDE DEF es, ss
  <2>3. words(g) \cap words(h) = {}
    BY <2>1
  <2>4. scaleWords(g) \cap scaleWords(h) = {}
    BY <1>1, <2>2
  <2>. QED
    BY <2>3, <2>4
<1> HIDE DEF words, scaleWords
<1>. QED
  BY <1>1, <1>4, <1>5, <1>7, <1>8, <1>9, <1>10 DEF PackingAgrees, cell, scales, words, scaleWords

-----------------------------------------------------------------------------
(* Sampling.                                                                *)

Candidates == [value : Int, id : Int]

\* Better is a strict order in which any two candidates are comparable.
LEMMA Ordered ==
  /\ \A a \in Candidates : ~Better(a, a)
  /\ \A a, b, c \in Candidates : Better(a, b) /\ Better(b, c) => Better(a, c)
  /\ \A a, b \in Candidates : a = b \/ Better(a, b) \/ Better(b, a)
<1>1. \A a \in Candidates : a = [value |-> a.value, id |-> a.id] /\ a.value \in Int /\ a.id \in Int
  BY DEF Candidates
<1>2. \A a \in Candidates : ~Better(a, a)
  BY <1>1 DEF Better
<1>3. ASSUME NEW a \in Candidates, NEW b \in Candidates, NEW c \in Candidates,
             Better(a, b), Better(b, c)
      PROVE  Better(a, c)
  BY <1>1, <1>3 DEF Better
<1>4. ASSUME NEW a \in Candidates, NEW b \in Candidates PROVE a = b \/ Better(a, b) \/ Better(b, a)
  <2>1. a.value = b.value /\ a.id = b.id => a = b
    BY <1>1
  <2>. QED
    BY <1>1, <2>1 DEF Better
<1>. QED
  BY <1>2, <1>3, <1>4

\* Of finitely many candidates one is better than all others.
LEMMA Champion ==
  ASSUME NEW S \in SUBSET Candidates, IsFiniteSet(S), S # {}
  PROVE  \E m \in S : \A d \in S : d = m \/ Better(m, d)
<1> DEFINE F == {A \in SUBSET S : A # {} => \E m \in A : \A d \in A : d = m \/ Better(m, d)}
<1>1. F \in SUBSET SUBSET S /\ {} \in F
  OBVIOUS
<1>2. ASSUME NEW A \in SUBSET S, A # {}, \A x \in A : A \ {x} \in F PROVE A \in F
  <2>1. PICK x \in A : TRUE
    BY <1>2
  <2>2. CASE A \ {x} = {}
    <3>1. \A d \in A : d = x
      BY <2>2
    <3>. QED
      BY <2>1, <3>1
  <2>3. CASE A \ {x} # {}
    <3>1. PICK m \in A \ {x} : \A d \in A \ {x} : d = m \/ Better(m, d)
      BY <1>2, <2>1, <2>3
    <3>2. A \in SUBSET Candidates /\ x \in Candidates /\ m \in Candidates /\ m \in A
      BY <2>1
    <3>3. CASE Better(m, x)
      <4>1. \A d \in A : d = m \/ Better(m, d)
        BY <3>1, <3>3
      <4>. QED
        BY <3>2, <4>1
    <3>4. CASE Better(x, m)
      <4>1. \A d \in A : d = x \/ Better(x, d)
        BY <3>1, <3>2, <3>4, Ordered
      <4>. QED
        BY <2>1, <4>1
    <3>. QED
      BY <3>1, <3>2, <3>3, <3>4, Ordered
  <2>. QED
    BY <2>2, <2>3
<1> HIDE DEF F
<1>3. F = SUBSET S
  BY <1>1, <1>2, EveryFiniteSet
<1>4. S \in F
  BY <1>3
<1>. QED
  BY <1>4 DEF F

\* It is what Winner and Best find.
LEMMA Found ==
  ASSUME NEW S \in SUBSET Candidates, IsFiniteSet(S),
         NEW m \in S, \A d \in S : d = m \/ Better(m, d)
  PROVE  Winner(S) = m /\ Best(S, 1) = {m}
<1>1. \A d \in S : ~Better(d, m)
  <2>1. \A d \in S : d \in Candidates
    OBVIOUS
  <2>. QED
    BY <2>1, Ordered
<1>2. \A c \in S : (\A d \in S : ~Better(d, c)) => c = m
  OBVIOUS
<1>3. Winner(S) = m
  BY <1>1, <1>2 DEF Winner
<1>4. {d \in S : Better(d, m)} = {}
  BY <1>1
<1>5. Cardinality({d \in S : Better(d, m)}) < 1
  BY <1>4, FS_EmptySet
<1>6. ASSUME NEW c \in S, c # m, Cardinality({d \in S : Better(d, c)}) < 1 PROVE FALSE
  <2> DEFINE above == {d \in S : Better(d, c)}
  <2>1. IsFiniteSet(above) /\ above # {}
    <3>1. above \in SUBSET S /\ m \in above
      BY <1>6
    <3>. QED
      BY <3>1, FS_Subset
  <2> HIDE DEF above
  <2>2. Cardinality(above) \in Nat /\ Cardinality(above) # 0
    BY <2>1, FS_EmptySet, FS_CardinalityType
  <2>. QED
    BY <1>6, <2>2 DEF above
<1>. QED
  BY <1>3, <1>5, <1>6 DEF Best

\* The candidates of some tokens: one for each, with its logit.
LEMMA Entered ==
  ASSUME NEW xs \in Seq(Nat), NEW ids \in SUBSET TokenIds(xs)
  PROVE  LET E == Entries(xs, ids)
         IN  /\ E \in SUBSET Candidates /\ IsFiniteSet(E)
             /\ \A c \in E : /\ c.id \in ids /\ c.id \in Nat /\ c.value = xs[c.id + 1]
                             /\ c.value \in Nat /\ c = [value |-> c.value, id |-> c.id]
             /\ \A t \in ids : [value |-> xs[t + 1], id |-> t] \in E
<1> DEFINE E == Entries(xs, ids)  entry == [t \in ids |-> [value |-> xs[t + 1], id |-> t]]
<1>1. \A t \in ids : t \in Nat /\ xs[t + 1] \in Nat
  BY DEF TokenIds
<1>2. \A c \in E : \E t \in ids : c = [value |-> xs[t + 1], id |-> t]
  BY DEF Entries
<1>3. \A t \in ids : [value |-> xs[t + 1], id |-> t] \in E
  BY DEF Entries
<1>4. ASSUME NEW c \in E
      PROVE  /\ c.id \in ids /\ c.id \in Nat /\ c.value = xs[c.id + 1]
             /\ c.value \in Nat /\ c = [value |-> c.value, id |-> c.id]
  BY <1>1, <1>2
<1>5. E \in SUBSET Candidates
  BY <1>4 DEF Candidates
<1>6. IsFiniteSet(E)
  <2>1. IsFiniteSet(ids)
    <3>1. Len(xs) - 1 \in Int /\ 0 \in Int
      OBVIOUS
    <3>2. IsFiniteSet(TokenIds(xs))
      BY <3>1, FS_Interval DEF TokenIds
    <3>. QED
      BY <3>2, FS_Subset
  <2>2. E = {entry[t] : t \in ids}
    BY DEF Entries
  <2> HIDE DEF E, entry
  <2>. QED
    BY <2>1, <2>2, FiniteImage
<1> HIDE DEF E
<1>. QED
  BY <1>3, <1>4, <1>5, <1>6 DEF E

\* The entry of no token and of an empty chain.
Nothing == [value |-> Lowest, id |-> NoToken]
EmptyChain == [value |-> Lowest, id |-> 0]

\* The serial scan and the tree of dispatches find the first of the largest
\* logits, for any number of tokens and any two widths of the tree (argmax,
\* argmax_partial, argmax_reduce, argmax_final).
THEOREM TreeFindsTheArgmax ==
  ASSUME NEW xs \in Seq(Nat), xs # <<>>, NEW parts \in Nat \ {0}, NEW parts2 \in Nat \ {0}
  PROVE  ArgmaxTree(xs, parts, parts2) = Argmax(xs)
<1> DEFINE E == Entries(xs, TokenIds(xs))  T == E \cup {Nothing, EmptyChain}
<1>1. /\ E \in SUBSET Candidates /\ IsFiniteSet(E)
      /\ \A c \in E : /\ c.id \in TokenIds(xs) /\ c.id \in Nat /\ c.value = xs[c.id + 1]
                      /\ c.value \in Nat /\ c = [value |-> c.value, id |-> c.id]
      /\ \A t \in TokenIds(xs) : [value |-> xs[t + 1], id |-> t] \in E
  BY Entered
<1>2. E # {}
  <2>1. 0 \in TokenIds(xs)
    BY DEF TokenIds
  <2>. QED
    BY <1>1, <2>1
<1> HIDE DEF E
<1>3. PICK g \in E : \A d \in E : d = g \/ Better(g, d)
  BY <1>1, <1>2, Champion
<1>4. Argmax(xs) = g.id
  <2> DEFINE First(t) == \A u \in TokenIds(xs) :
                           xs[t + 1] > xs[u + 1] \/ (xs[t + 1] = xs[u + 1] /\ t <= u)
  <2>1. ASSUME NEW u \in TokenIds(xs)
        PROVE  xs[g.id + 1] > xs[u + 1] \/ (xs[g.id + 1] = xs[u + 1] /\ g.id <= u)
    <3> DEFINE d == [value |-> xs[u + 1], id |-> u]
    <3>1. d \in E /\ g.value = xs[g.id + 1] /\ g.id \in Nat /\ d.value = xs[u + 1] /\ d.id = u
      BY <1>1
    <3>2. d = g \/ Better(g, d)
      BY <1>3, <3>1
    <3> HIDE DEF d
    <3>. QED
      BY <1>1, <3>1, <3>2 DEF Better
  <2>2. g.id \in TokenIds(xs) /\ First(g.id)
    BY <1>1, <2>1
  <2>3. ASSUME NEW t \in TokenIds(xs), First(t) PROVE t = g.id
    <3>1. /\ xs[t + 1] > xs[g.id + 1] \/ (xs[t + 1] = xs[g.id + 1] /\ t <= g.id)
          /\ xs[g.id + 1] > xs[t + 1] \/ (xs[g.id + 1] = xs[t + 1] /\ g.id <= t)
      BY <2>1, <2>2, <2>3
    <3>2. xs[t + 1] \in Nat /\ xs[g.id + 1] \in Nat /\ t \in Nat /\ g.id \in Nat
      BY <1>1 DEF TokenIds
    <3>. QED
      BY <3>1, <3>2
  <2>4. Argmax(xs) = CHOOSE t \in TokenIds(xs) : First(t)
    BY DEF Argmax
  <2> HIDE DEF First
  <2>. QED
    BY <2>2, <2>3, <2>4
<1>5. T \in SUBSET Candidates /\ \A d \in T : d = g \/ Better(g, d)
  <2>1. Nothing \in Candidates /\ EmptyChain \in Candidates
    BY DEF Nothing, EmptyChain, Candidates, Lowest, NoToken
  <2>2. Better(g, Nothing) /\ Better(g, EmptyChain)
    BY <1>1 DEF Better, Nothing, EmptyChain, Lowest
  <2>. QED
    BY <1>1, <1>3, <2>1, <2>2
<1>6. ASSUME NEW S \in SUBSET T, IsFiniteSet(S)
      PROVE  Winner(S) \in T /\ (g \in S => Winner(S) = g)
  <2>1. CASE S = {}
    BY <2>1 DEF Winner, Nothing
  <2>2. CASE S # {}
    <3>0. S \in SUBSET Candidates
      BY <1>5
    <3>1. PICK m \in S : \A d \in S : d = m \/ Better(m, d)
      BY <2>2, <1>6, <3>0, Champion
    <3>2. Winner(S) = m
      BY <3>0, <3>1, <1>6, Found
    <3>3. g \in S => Winner(S) = g
      <4>1. \A d \in S : d = g \/ Better(g, d)
        BY <1>5
      <4>. QED
        BY <1>6, <3>0, <4>1, Found
    <3>. QED
      BY <3>2, <3>3
  <2>. QED
    BY <2>1, <2>2
<1> DEFINE first == ArgmaxPartials(xs, parts)
           seen(p) == {first[q] : q \in {r \in 0..(parts - 1) : r % parts2 = p}}
           second == [p \in 0..(parts2 - 1) |-> Winner(seen(p))]
<1>7. ASSUME NEW p \in 0..(parts - 1)
      PROVE  first[p] \in T /\ (p = g.id % parts => first[p] = g)
  <2> DEFINE ids == Chain(xs, p, parts)  C == Entries(xs, ids)
  <2>1. /\ ids \in SUBSET TokenIds(xs) /\ C \in SUBSET E
        /\ first[p] = IF ids = {} THEN EmptyChain ELSE CHOOSE c \in Best(C, 1) : TRUE
    BY DEF Chain, Entries, E, ArgmaxPartials, EmptyChain
  <2>2. /\ C \in SUBSET Candidates /\ IsFiniteSet(C)
        /\ \A t \in ids : [value |-> xs[t + 1], id |-> t] \in C
    BY <2>1, Entered
  <2>3. p = g.id % parts => g.id \in ids /\ g \in C
    <3>1. p = g.id % parts => g.id \in ids
      BY <1>1 DEF Chain
    <3>2. g = [value |-> xs[g.id + 1], id |-> g.id]
      BY <1>1
    <3>. QED
      BY <2>2, <3>1, <3>2
  <2> HIDE DEF first, C
  <2>4. CASE ids = {}
    BY <2>1, <2>3, <2>4
  <2>5. CASE ids # {}
    <3>1. C # {}
      BY <2>2, <2>5
    <3>2. PICK m \in C : \A d \in C : d = m \/ Better(m, d)
      BY <2>2, <3>1, Champion
    <3>3. Best(C, 1) = {m}
      BY <2>2, <3>2, Found
    <3>4. first[p] = m
      BY <2>1, <2>5, <3>3
    <3>5. g \in C => m = g
      <4>1. ASSUME g \in C, m # g PROVE FALSE
        <5>1. Better(m, g) /\ Better(g, m) /\ m \in Candidates /\ g \in Candidates
          BY <1>1, <1>3, <2>1, <3>2, <4>1
        <5>. QED
          BY <5>1, Ordered
      <4>. QED
        BY <4>1
    <3>. QED
      BY <2>1, <2>3, <3>4, <3>5
  <2>. QED
    BY <2>4, <2>5
<1> HIDE DEF first, T
<1>8. ASSUME NEW p \in 0..(parts2 - 1)
      PROVE  second[p] \in T /\ (p = (g.id % parts) % parts2 => second[p] = g)
  <2> DEFINE Q == {r \in 0..(parts - 1) : r % parts2 = p}
  <2>1. IsFiniteSet(0..(parts - 1)) /\ Q \in SUBSET (0..(parts - 1))
    <3>1. 0 \in Int /\ parts - 1 \in Int
      OBVIOUS
    <3>. QED
      BY <3>1, FS_Interval
  <2>2. IsFiniteSet(Q)
    BY <2>1, FS_Subset
  <2>3. IsFiniteSet(seen(p))
    <3> HIDE DEF Q
    <3>1. IsFiniteSet({first[q] : q \in Q})
      BY <2>2, FiniteImage
    <3>. QED
      BY <3>1 DEF Q
  <2>4. seen(p) \in SUBSET T
    BY <1>7
  <2>5. p = (g.id % parts) % parts2 => g \in seen(p)
    <3>1. g.id % parts \in 0..(parts - 1)
      BY <1>1
    <3>. QED
      BY <1>7, <3>1
  <2>6. second[p] = Winner(seen(p))
    OBVIOUS
  <2> HIDE DEF seen, second
  <2>. QED
    BY <1>6, <2>3, <2>4, <2>5, <2>6
<1> DEFINE last == {second[p] : p \in 0..(parts2 - 1)}
<1>9. Winner(last) = g
  <2> HIDE DEF second
  <2>1. IsFiniteSet(0..(parts2 - 1))
    <3>1. 0 \in Int /\ parts2 - 1 \in Int
      OBVIOUS
    <3>. QED
      BY <3>1, FS_Interval
  <2>2. IsFiniteSet(last)
    BY <2>1, FiniteImage
  <2>3. last \in SUBSET T
    BY <1>8
  <2>4. (g.id % parts) % parts2 \in 0..(parts2 - 1)
    BY <1>1
  <2>5. g \in last
    BY <1>8, <2>4
  <2>. QED
    BY <1>6, <2>2, <2>3, <2>5
<1>10. ArgmaxTree(xs, parts, parts2) = Winner(last).id
  BY DEF ArgmaxTree, first
<1>. QED
  BY <1>4, <1>9, <1>10

\* What is better than one of the k best is one of them.
LEMMA Upwards ==
  ASSUME NEW S \in SUBSET Candidates, IsFiniteSet(S), NEW k \in Nat,
         NEW c \in Best(S, k), NEW d \in S, Better(d, c)
  PROVE  d \in Best(S, k)
<1> DEFINE above(x) == {e \in S : Better(e, x)}
<1>1. c \in S /\ Cardinality(above(c)) < k
  BY DEF Best
<1>2. above(d) \in SUBSET above(c)
  <2>1. ASSUME NEW e \in above(d) PROVE e \in above(c)
    <3>1. e \in S /\ Better(e, d) /\ e \in Candidates /\ d \in Candidates /\ c \in Candidates
      BY <1>1
    <3>. QED
      BY <3>1, Ordered
  <2>. QED
    BY <2>1
<1>3. IsFiniteSet(above(c)) /\ above(c) \in SUBSET S
  <2>1. above(c) \in SUBSET S
    OBVIOUS
  <2> HIDE DEF above
  <2>. QED
    BY <2>1, FS_Subset
<1> HIDE DEF above
<1>4. /\ Cardinality(above(d)) <= Cardinality(above(c)) /\ IsFiniteSet(above(d))
  BY <1>2, <1>3, FS_Subset
<1>5. Cardinality(above(d)) \in Nat /\ Cardinality(above(c)) \in Nat
  BY <1>3, <1>4, FS_CardinalityType
<1>6. Cardinality(above(d)) < k
  BY <1>1, <1>4, <1>5
<1>. QED
  BY <1>6 DEF Best, above

\* Unless five of the k best share a chain, the four best of every chain have
\* them all, and no other among their own k best (topk4_partial against draw).
THEOREM HarvestKeepsTheBest ==
  ASSUME NEW xs \in Seq(Nat), NEW parts \in Nat \ {0}, NEW k \in Nat, ~Crowded(xs, parts, k)
  PROVE  Kept(Harvest(xs, parts), k) = Kept(Entries(xs, TokenIds(xs)), k)
<1> DEFINE all == Entries(xs, TokenIds(xs))  H == Harvest(xs, parts)  K == Kept(all, k)
           chain(p) == Entries(xs, Chain(xs, p, parts))
<1>1. /\ all \in SUBSET Candidates /\ IsFiniteSet(all)
      /\ \A c \in all : /\ c.id \in TokenIds(xs) /\ c.id \in Nat /\ c.value = xs[c.id + 1]
                        /\ c = [value |-> c.value, id |-> c.id]
  BY Entered
<1>2. \A p : chain(p) = {c \in all : c.id % parts = p}
  <2>. SUFFICES ASSUME NEW p PROVE chain(p) = {c \in all : c.id % parts = p}
    OBVIOUS
  <2>1. chain(p) \in SUBSET all
    BY DEF Entries, Chain
  <2>2. ASSUME NEW c \in chain(p) PROVE c.id % parts = p
    BY DEF Entries, Chain
  <2>3. ASSUME NEW c \in all, c.id % parts = p PROVE c \in chain(p)
    <3>1. c.id \in Chain(xs, p, parts) /\ c = [value |-> xs[c.id + 1], id |-> c.id]
      BY <1>1, <2>3 DEF Chain
    <3>. QED
      BY <3>1 DEF Entries
  <2>. QED
    BY <2>1, <2>2, <2>3
<1>3. H = UNION {Best(chain(p), 4) : p \in 0..(parts - 1)}
  BY DEF Harvest
<1> HIDE DEF all, H, chain
<1>4. H \in SUBSET all
  <2>1. \A p : Best(chain(p), 4) \in SUBSET chain(p)
    BY DEF Best
  <2>. QED
    BY <1>2, <1>3, <2>1
<1>5. K \in SUBSET all /\ \A c \in K, d \in all : Better(d, c) => d \in K
  <2>1. CASE k = 0
    BY <2>1 DEF Kept
  <2>2. CASE k # 0
    <3>1. K = Best(all, k)
      BY <2>2 DEF Kept
    <3>2. Best(all, k) \in SUBSET all
      BY DEF Best
    <3> HIDE DEF K
    <3>. QED
      BY <1>1, <3>1, <3>2, Upwards
  <2>. QED
    BY <2>1, <2>2
<1>6. \A p \in 0..(parts - 1) : ~(Cardinality({c \in K : c.id % parts = p}) > 4)
  BY DEF Crowded, all
<1> HIDE DEF K
<1>7. ASSUME NEW c \in K PROVE c \in H
  <2> DEFINE p == c.id % parts  A == {d \in chain(p) : Better(d, c)}  B == {d \in K : d.id % parts = p}
  <2>1. c \in all /\ c.id \in Nat /\ p \in 0..(parts - 1) /\ c \in chain(p) /\ c \in Candidates
    BY <1>1, <1>2, <1>5
  <2> HIDE DEF p
  <2>2. A \in SUBSET B /\ c \notin A /\ c \in B
    <3>1. A \in SUBSET B
      BY <1>2, <1>5
    <3>2. c \notin A
      BY <2>1, Ordered
    <3>. QED
      BY <3>1, <3>2, <2>1 DEF p
  <2>3. IsFiniteSet(B) /\ B \in SUBSET all
    <3>1. B \in SUBSET all
      BY <1>5
    <3> HIDE DEF B
    <3>. QED
      BY <1>1, <3>1, FS_Subset
  <2> HIDE DEF A, B
  <2>4. IsFiniteSet(A) /\ A \cup {c} \in SUBSET B
    BY <2>2, <2>3, FS_Subset
  <2>5. Cardinality(A \cup {c}) = Cardinality(A) + 1 /\ Cardinality(A \cup {c}) <= Cardinality(B)
    <3>1. Cardinality(A \cup {c}) = Cardinality(A) + 1
      BY <2>2, <2>4, FS_AddElement
    <3>2. Cardinality(A \cup {c}) <= Cardinality(B)
      BY <2>3, <2>4, FS_Subset
    <3>. QED
      BY <3>1, <3>2
  <2>6. Cardinality(A) \in Nat /\ Cardinality(B) \in Nat
    BY <2>3, <2>4, FS_CardinalityType
  <2>7. ~(Cardinality(B) > 4)
    BY <1>6, <2>1 DEF B
  <2>8. Cardinality(A) < 4
    BY <2>5, <2>6, <2>7
  <2>9. c \in Best(chain(p), 4)
    BY <2>1, <2>8 DEF Best, A
  <2>. QED
    BY <1>3, <2>1, <2>9
<1>8. CASE k = 0
  <2>1. K = all /\ Kept(H, k) = H
    BY <1>8 DEF Kept, K
  <2>2. H = all
    BY <1>4, <1>7, <2>1
  <2>. QED
    BY <2>1, <2>2 DEF K, H, all
<1>9. CASE k # 0
  <2> DEFINE above(S, x) == {e \in S : Better(e, x)}
  <2>1. /\ K = Best(all, k) /\ Kept(H, k) = Best(H, k)
    BY <1>9 DEF Kept, K
  <2>2. \A S, x : x \in Best(S, k) <=> x \in S /\ Cardinality(above(S, x)) < k
    BY DEF Best
  <2>3. \A x : above(H, x) \in SUBSET above(all, x) /\ above(all, x) \in SUBSET all
    BY <1>4
  <2> HIDE DEF above
  <2>4. \A x : /\ IsFiniteSet(above(all, x)) /\ IsFiniteSet(above(H, x))
               /\ Cardinality(above(all, x)) \in Nat /\ Cardinality(above(H, x)) \in Nat
               /\ Cardinality(above(H, x)) <= Cardinality(above(all, x))
    <3>. SUFFICES ASSUME NEW x
         PROVE  /\ IsFiniteSet(above(all, x)) /\ IsFiniteSet(above(H, x))
                /\ Cardinality(above(all, x)) \in Nat /\ Cardinality(above(H, x)) \in Nat
                /\ Cardinality(above(H, x)) <= Cardinality(above(all, x))
      OBVIOUS
    <3>1. IsFiniteSet(above(all, x))
      BY <1>1, <2>3, FS_Subset
    <3>2. IsFiniteSet(above(H, x)) /\ Cardinality(above(H, x)) <= Cardinality(above(all, x))
      BY <2>3, <3>1, FS_Subset
    <3>. QED
      BY <3>1, <3>2, FS_CardinalityType
  <2>5. ASSUME NEW c \in K PROVE c \in Best(H, k)
    <3>1. c \in H /\ Cardinality(above(all, c)) < k
      BY <1>7, <2>1, <2>2
    <3>2. Cardinality(above(H, c)) < k
      BY <2>4, <3>1
    <3>. QED
      BY <2>2, <3>1, <3>2
  \* Someone better than an intruder is missing from the harvest; the best of
  \* those has only harvested ones above, too few, and is itself one of the best.
  <2>6. ASSUME NEW c \in Best(H, k), c \notin K PROVE FALSE
    <3> DEFINE missing == above(all, c) \ above(H, c)
    <3>1. c \in H /\ c \in all /\ Cardinality(above(H, c)) < k /\ ~(Cardinality(above(all, c)) < k)
      BY <1>4, <2>1, <2>2, <2>6
    <3>2. missing # {}
      <4>1. ASSUME missing = {} PROVE FALSE
        <5>1. above(all, c) = above(H, c)
          BY <2>3, <4>1
        <5>. QED
          BY <3>1, <5>1
      <4>. QED
        BY <4>1
    <3>3. missing \in SUBSET above(all, c) /\ missing \in SUBSET Candidates /\ missing \in SUBSET all
      BY <1>1, <2>3
    <3>4. \A d \in missing : d \notin H
      BY DEF above
    <3> HIDE DEF missing
    <3>5. IsFiniteSet(missing)
      BY <2>4, <3>3, FS_Subset
    <3>6. PICK m \in missing : \A d \in missing : d = m \/ Better(m, d)
      BY <3>2, <3>3, <3>5, Champion
    <3>7. Better(m, c) /\ m \in all
      BY <3>3 DEF above
    <3>8. above(all, m) \in SUBSET above(H, c)
      <4>1. ASSUME NEW d \in above(all, m) PROVE d \in above(H, c)
        <5>1. d \in all /\ Better(d, m) /\ d \in Candidates /\ m \in Candidates /\ c \in Candidates
          BY <1>1, <3>1, <3>7 DEF above
        <5>2. Better(d, c) /\ ~(d = m) /\ ~Better(m, d)
          BY <3>7, <5>1, Ordered
        <5>3. d \notin missing
          BY <3>6, <5>2
        <5>. QED
          BY <5>1, <5>2, <5>3 DEF missing, above
      <4>. QED
        BY <4>1
    <3>9. Cardinality(above(all, m)) <= Cardinality(above(H, c))
      BY <2>4, <3>8, FS_Subset
    <3>10. Cardinality(above(all, m)) < k
      BY <2>4, <3>1, <3>9
    <3>11. m \in K
      BY <2>1, <2>2, <3>7, <3>10
    <3>. QED
      BY <1>7, <3>4, <3>11
  <2>7. \A c \in Best(H, k) : c \in K
    BY <2>6
  <2>. QED
    BY <2>1, <2>5, <2>7 DEF K, H, all
<1>. QED
  BY <1>8, <1>9

\* The k best are k, as long as there are so many.
LEMMA BestCounted ==
  ASSUME NEW S \in SUBSET Candidates, IsFiniteSet(S), NEW k \in 0..Cardinality(S)
  PROVE  Cardinality(Best(S, k)) = k
<1> DEFINE F == {A \in SUBSET S : \A n \in 0..Cardinality(A) : Cardinality(Best(A, n)) = n}
<1>0. \A A \in SUBSET S : /\ IsFiniteSet(A) /\ Cardinality(A) \in Nat /\ A \in SUBSET Candidates
  BY FS_Subset, FS_CardinalityType
<1>1. \A A \in SUBSET S : Best(A, 0) = {}
  <2>. SUFFICES ASSUME NEW A \in SUBSET S, NEW c \in Best(A, 0) PROVE FALSE
    OBVIOUS
  <2> DEFINE above == {d \in A : Better(d, c)}
  <2>1. above \in SUBSET S /\ Cardinality(above) < 0
    BY DEF Best
  <2> HIDE DEF above
  <2>2. Cardinality(above) \in Nat
    BY <1>0, <2>1
  <2>. QED
    BY <2>1, <2>2
<1>2. F \in SUBSET SUBSET S /\ {} \in F
  <2>1. \A n \in 0..Cardinality({}) : n = 0
    BY FS_EmptySet
  <2>. QED
    BY <1>1, <2>1, FS_EmptySet
<1>3. ASSUME NEW A \in SUBSET S, A # {}, \A x \in A : A \ {x} \in F PROVE A \in F
  <2>1. PICK m \in A : \A d \in A : d = m \/ Better(m, d)
    BY <1>0, <1>3, Champion
  <2> DEFINE B == A \ {m}
  <2>2. /\ IsFiniteSet(B) /\ Cardinality(A) = Cardinality(B) + 1 /\ Cardinality(B) \in Nat
        /\ B \in SUBSET S /\ m \notin B /\ A = B \cup {m}
    <3>1. B \in SUBSET S /\ m \notin B /\ A = B \cup {m}
      OBVIOUS
    <3> HIDE DEF B
    <3>2. IsFiniteSet(B) /\ Cardinality(B) \in Nat
      BY <1>0, <3>1
    <3>3. Cardinality(B \cup {m}) = Cardinality(B) + 1
      BY <3>1, <3>2, FS_AddElement
    <3>. QED
      BY <3>1, <3>2, <3>3
  <2>3. \A n \in 0..Cardinality(B) : Cardinality(Best(B, n)) = n
    BY <1>3
  <2> HIDE DEF B
  <2>4. ASSUME NEW n \in 0..Cardinality(A) PROVE Cardinality(Best(A, n)) = n
    <3>1. CASE n = 0
      BY <1>1, <3>1, FS_EmptySet
    <3>2. CASE n # 0
      <4>1. n - 1 \in 0..Cardinality(B)
        BY <2>2, <3>2
      <4>2. ASSUME NEW c \in B
            PROVE  c \in Best(A, n) <=> c \in Best(B, n - 1)
        <5> DEFINE aboveA == {d \in A : Better(d, c)}  aboveB == {d \in B : Better(d, c)}
        <5>1. Better(m, c)
          BY <2>1, <2>2
        <5>2. aboveA = aboveB \cup {m} /\ m \notin aboveB /\ aboveB \in SUBSET S
          BY <2>2, <5>1
        <5> HIDE DEF aboveA, aboveB
        <5>3. IsFiniteSet(aboveB) /\ Cardinality(aboveB) \in Nat
          BY <1>0, <5>2
        <5>4. Cardinality(aboveA) = Cardinality(aboveB) + 1
          BY <5>2, <5>3, FS_AddElement
        <5>5. Cardinality(aboveA) < n <=> Cardinality(aboveB) < n - 1
          BY <5>3, <5>4
        <5>6. c \in A
          BY <2>2
        <5>. QED
          BY <5>5, <5>6 DEF Best, aboveA, aboveB
      <4>3. m \in Best(A, n)
        <5>1. \A d \in A : ~Better(d, m)
          <6>1. ASSUME NEW d \in A, Better(d, m) PROVE FALSE
            <7>1. d \in Candidates /\ m \in Candidates
              BY <1>0
            <7>. QED
              BY <2>1, <6>1, <7>1, Ordered
          <6>. QED
            BY <6>1
        <5>2. {d \in A : Better(d, m)} = {}
          BY <5>1
        <5>3. Cardinality({d \in A : Better(d, m)}) < n
          BY <5>2, <3>2, FS_EmptySet
        <5>. QED
          BY <5>3 DEF Best
      <4>4. Best(A, n) \in SUBSET A /\ Best(B, n - 1) \in SUBSET B
        BY DEF Best
      <4>5. Best(A, n) = Best(B, n - 1) \cup {m} /\ m \notin Best(B, n - 1)
        BY <2>2, <4>2, <4>3, <4>4
      <4>6. IsFiniteSet(Best(B, n - 1))
        BY <2>2, <4>4, FS_Subset
      <4>7. Cardinality(Best(A, n)) = Cardinality(Best(B, n - 1)) + 1
        BY <4>5, <4>6, FS_AddElement
      <4>8. Cardinality(Best(B, n - 1)) = n - 1
        BY <2>3, <4>1
      <4>. QED
        BY <4>7, <4>8
    <3>. QED
      BY <3>1, <3>2
  <2>. QED
    BY <2>4
<1> HIDE DEF F
<1>4. F = SUBSET S
  BY <1>2, <1>3, EveryFiniteSet
<1>5. S \in F
  BY <1>4
<1>. QED
  BY <1>5 DEF F

\* The recursive function of Mass.
Picked(s) == CHOOSE x \in s : TRUE
SumUpTo(f, s) == IF s = {} THEN 0 ELSE Weight(Picked(s)) + f[s \ {Picked(s)}]
Sums(f, S) == f = [s \in SUBSET S |-> SumUpTo(f, s)]

LEMMA SumsExist ==
  ASSUME NEW S, IsFiniteSet(S)
  PROVE  \E f : Sums(f, S)
<1> DEFINE UpTo(f, n) == /\ f = [s \in SUBSET S |-> f[s]]
                         /\ \A s \in SUBSET S : Cardinality(s) <= n => f[s] = SumUpTo(f, s)
           N == {n \in Nat : \E f : UpTo(f, n)}
<1>1. \A s \in SUBSET S : IsFiniteSet(s) /\ Cardinality(s) \in Nat /\ (Cardinality(s) = 0 <=> s = {})
  BY FS_Subset, FS_CardinalityType, FS_EmptySet
<1>2. ASSUME NEW s \in SUBSET S, s # {}
      PROVE  s \ {Picked(s)} \in SUBSET S /\ Cardinality(s \ {Picked(s)}) = Cardinality(s) - 1
  <2>1. Picked(s) \in s
    BY <1>2 DEF Picked
  <2>2. Cardinality(s \ {Picked(s)}) = Cardinality(s) - 1
    BY <1>1, <2>1, FS_RemoveElement
  <2>. QED
    BY <2>2
<1>3. 0 \in N
  <2> DEFINE f == [s \in SUBSET S |-> 0]
  <2>1. f = [s \in SUBSET S |-> f[s]]
    OBVIOUS
  <2>2. ASSUME NEW s \in SUBSET S, Cardinality(s) <= 0 PROVE f[s] = SumUpTo(f, s)
    <3>1. s = {}
      BY <1>1, <2>2
    <3>. QED
      BY <3>1 DEF SumUpTo
  <2> HIDE DEF f
  <2>3. UpTo(f, 0)
    BY <2>1, <2>2
  <2>. QED
    BY <2>3
<1>4. ASSUME NEW n \in N PROVE n + 1 \in N
  <2>1. PICK f : UpTo(f, n)
    OBVIOUS
  <2> DEFINE g == [s \in SUBSET S |-> IF Cardinality(s) = n + 1 THEN SumUpTo(f, s) ELSE f[s]]
  <2>2. n \in Nat /\ n + 1 \in Nat
    OBVIOUS
  <2>3. g = [s \in SUBSET S |-> g[s]]
    OBVIOUS
  <2>4. \A s \in SUBSET S : g[s] = IF Cardinality(s) = n + 1 THEN SumUpTo(f, s) ELSE f[s]
    OBVIOUS
  <2> HIDE DEF g
  <2>5. ASSUME NEW s \in SUBSET S, Cardinality(s) <= n + 1 PROVE g[s] = SumUpTo(g, s)
    <3>1. g[s] = SumUpTo(f, s)
      <4>1. Cardinality(s) = n + 1 \/ Cardinality(s) <= n
        BY <1>1, <2>2, <2>5
      <4>2. CASE Cardinality(s) = n + 1
        BY <2>4, <4>2
      <4>3. CASE Cardinality(s) <= n
        <5>1. Cardinality(s) # n + 1
          BY <1>1, <2>2, <4>3
        <5>2. g[s] = f[s]
          BY <2>4, <5>1
        <5>. QED
          BY <2>1, <4>3, <5>2
      <4>. QED
        BY <4>1, <4>2, <4>3
    <3>2. CASE s = {}
      BY <3>1, <3>2 DEF SumUpTo
    <3>3. CASE s # {}
      <4> DEFINE r == s \ {Picked(s)}
      <4>1. r \in SUBSET S /\ Cardinality(r) = Cardinality(s) - 1
        BY <1>2, <3>3
      <4>2. Cardinality(r) # n + 1
        BY <1>1, <2>2, <2>5, <4>1
      <4>3. g[r] = f[r]
        BY <2>4, <4>1, <4>2
      <4>. QED
        BY <3>1, <3>3, <4>3 DEF SumUpTo
    <3>. QED
      BY <3>2, <3>3
  <2>6. UpTo(g, n + 1)
    BY <2>3, <2>5
  <2>. QED
    BY <2>2, <2>6
<1>5. N \in SUBSET Nat
  OBVIOUS
<1> HIDE DEF N, UpTo
<1>6. N = Nat
  BY <1>3, <1>4, <1>5, EveryNumber
<1>7. PICK f : UpTo(f, Cardinality(S))
  <2>1. S \in SUBSET S
    OBVIOUS
  <2>2. Cardinality(S) \in N
    BY <1>1, <1>6, <2>1
  <2>. QED
    BY <2>2 DEF N
<1>8. \A s \in SUBSET S : f[s] = SumUpTo(f, s)
  <2>. SUFFICES ASSUME NEW s \in SUBSET S PROVE f[s] = SumUpTo(f, s)
    OBVIOUS
  <2>1. Cardinality(s) <= Cardinality(S)
    BY FS_Subset
  <2>. QED
    BY <1>7, <2>1 DEF UpTo
<1>9. f = [s \in SUBSET S |-> f[s]]
  BY <1>7 DEF UpTo
<1>10. f = [s \in SUBSET S |-> SumUpTo(f, s)]
  <2> DEFINE g == [s \in SUBSET S |-> SumUpTo(f, s)]
  <2>1. g = [s \in SUBSET S |-> f[s]]
    BY <1>8
  <2>. QED
    BY <1>9, <2>1
<1>. QED
  BY <1>10 DEF Sums

LEMMA SumsAgree ==
  ASSUME NEW f, NEW g, NEW A, NEW B, Sums(f, A), Sums(g, B),
         NEW s, IsFiniteSet(s), s \subseteq A, s \subseteq B
  PROVE  f[s] = g[s]
<1> DEFINE F == {t \in SUBSET s : f[t] = g[t]}
<1>1. \A t \in SUBSET s : f[t] = SumUpTo(f, t) /\ g[t] = SumUpTo(g, t)
  <2>. SUFFICES ASSUME NEW t \in SUBSET s PROVE f[t] = SumUpTo(f, t) /\ g[t] = SumUpTo(g, t)
    OBVIOUS
  <2>1. t \in SUBSET A /\ t \in SUBSET B
    OBVIOUS
  <2>. QED
    BY <2>1 DEF Sums
<1>2. F \in SUBSET SUBSET s /\ {} \in F
  BY <1>1 DEF SumUpTo
<1>3. ASSUME NEW t \in SUBSET s, t # {}, \A x \in t : t \ {x} \in F PROVE t \in F
  <2>1. Picked(t) \in t
    BY <1>3 DEF Picked
  <2>2. f[t \ {Picked(t)}] = g[t \ {Picked(t)}]
    BY <1>3, <2>1
  <2>3. f[t] = g[t]
    BY <1>1, <1>3, <2>2 DEF SumUpTo
  <2>. QED
    BY <2>3
<1> HIDE DEF F
<1>4. F = SUBSET s
  <2>1. \A t \in SUBSET s : t # {} /\ (\A x \in t : t \ {x} \in F) => t \in F
    BY <1>3
  <2>2. IsFiniteSet(s) /\ F \in SUBSET SUBSET s /\ {} \in F
    BY <1>2
  <2>. QED
    BY <2>1, <2>2, EveryFiniteSet, Zenon
<1>5. s \in F
  BY <1>4
<1>. QED
  BY <1>5 DEF F

\* Mass takes one of a set and adds the mass of the rest.
LEMMA MassPicks ==
  ASSUME NEW S, IsFiniteSet(S)
  PROVE  Mass(S) = IF S = {} THEN 0 ELSE Weight(Picked(S)) + Mass(S \ {Picked(S)})
<1> DEFINE sum(A) == CHOOSE f : Sums(f, A)
<1>1. \A A : Mass(A) = sum(A)[A]
  BY DEF Mass, MapThenSumSet, MapThenFoldSet, Sums, SumUpTo, Picked
<1>2. \A A : IsFiniteSet(A) => Sums(sum(A), A)
  BY SumsExist
<1> HIDE DEF sum
<1>3. sum(S)[S] = SumUpTo(sum(S), S)
  <2>1. S \in SUBSET S
    OBVIOUS
  <2>. QED
    BY <1>2, <2>1 DEF Sums
<1>4. CASE S = {}
  BY <1>1, <1>3, <1>4 DEF SumUpTo
<1>5. CASE S # {}
  <2> DEFINE R == S \ {Picked(S)}
  <2>1. IsFiniteSet(R) /\ R \subseteq R /\ R \subseteq S
    BY FS_RemoveElement
  <2>2. Sums(sum(S), S) /\ Sums(sum(R), R)
    BY <1>2, <2>1
  <2> HIDE DEF R
  <2>3. sum(S)[R] = sum(R)[R]
    BY <2>1, <2>2, SumsAgree
  <2>4. sum(S)[S] = Weight(Picked(S)) + sum(S)[R]
    BY <1>3, <1>5 DEF SumUpTo, R
  <2>5. Mass(S) = Weight(Picked(S)) + Mass(R)
    BY <1>1, <2>3, <2>4
  <2>. QED
    BY <1>5, <2>5 DEF R
<1>. QED
  BY <1>4, <1>5

\* Candidates whose logits have a weight.
Weighed(S) == IsFiniteSet(S) /\ \A c \in S : c.value \in Logits

LEMMA MassIsNat ==
  ASSUME NEW S, Weighed(S)
  PROVE  Mass(S) \in Nat /\ (S # {} => Mass(S) > 0)
<1> DEFINE F == {A \in SUBSET S : Mass(A) \in Nat /\ (A # {} => Mass(A) > 0)}
<1>1. \A A \in SUBSET S : IsFiniteSet(A)
  BY FS_Subset DEF Weighed
<1>2. F \in SUBSET SUBSET S /\ {} \in F
  <2>1. Mass({}) = 0
    BY <1>1, MassPicks
  <2>. QED
    BY <2>1
<1>3. ASSUME NEW A \in SUBSET S, A # {}, \A x \in A : A \ {x} \in F PROVE A \in F
  <2> DEFINE p == Picked(A)
  <2>1. p \in A
    BY <1>3 DEF Picked
  <2>2. Mass(A) = Weight(p) + Mass(A \ {p})
    BY <1>1, <1>3, MassPicks
  <2>3. Weight(p) \in Nat \ {0}
    BY <2>1, ExpAssumption DEF Weighed, Weight
  <2>4. Mass(A \ {p}) \in Nat
    BY <1>3, <2>1
  <2>5. Mass(A) \in Nat /\ Mass(A) > 0
    BY <2>2, <2>3, <2>4
  <2>. QED
    BY <2>5
<1> HIDE DEF F
<1>4. F = SUBSET S
  <2>1. IsFiniteSet(S)
    BY DEF Weighed
  <2>. QED
    BY <1>2, <1>3, <2>1, EveryFiniteSet
<1>5. S \in F
  BY <1>4
<1>. QED
  BY <1>5 DEF F

\* ... and it does not matter which.
LEMMA MassAdds ==
  ASSUME NEW S, Weighed(S), NEW c \in S
  PROVE  Mass(S) = Weight(c) + Mass(S \ {c})
<1> DEFINE F == {A \in SUBSET S : \A x \in A : Mass(A) = Weight(x) + Mass(A \ {x})}
<1>1. \A A \in SUBSET S : Weighed(A) /\ IsFiniteSet(A) /\ Mass(A) \in Nat
  <2>. SUFFICES ASSUME NEW A \in SUBSET S PROVE Weighed(A) /\ IsFiniteSet(A) /\ Mass(A) \in Nat
    OBVIOUS
  <2>1. IsFiniteSet(A)
    BY FS_Subset DEF Weighed
  <2>2. Weighed(A)
    BY <2>1 DEF Weighed
  <2>. QED
    BY <2>1, <2>2, MassIsNat
<1>2. F \in SUBSET SUBSET S /\ {} \in F
  OBVIOUS
<1>3. ASSUME NEW A \in SUBSET S, A # {}, \A x \in A : A \ {x} \in F PROVE A \in F
  <2> DEFINE p == Picked(A)
  <2>1. p \in A
    BY <1>3 DEF Picked
  <2>2. Mass(A) = Weight(p) + Mass(A \ {p})
    BY <1>1, <1>3, MassPicks
  <2>3. ASSUME NEW x \in A, x # p PROVE Mass(A) = Weight(x) + Mass(A \ {x})
    <3>1. /\ A \ {p} \in F /\ x \in A \ {p}
          /\ A \ {x} \in F /\ p \in A \ {x}
      BY <1>3, <2>1, <2>3
    <3>2. /\ Mass(A \ {p}) = Weight(x) + Mass((A \ {p}) \ {x})
          /\ Mass(A \ {x}) = Weight(p) + Mass((A \ {x}) \ {p})
      BY <3>1
    <3>3. (A \ {p}) \ {x} = (A \ {x}) \ {p} /\ (A \ {x}) \ {p} \in SUBSET S
      OBVIOUS
    <3>4. Weight(x) \in Nat /\ Weight(p) \in Nat /\ Mass((A \ {x}) \ {p}) \in Nat
      <4>1. x.value \in Logits /\ p.value \in Logits
        BY <2>1 DEF Weighed
      <4>2. Mass((A \ {x}) \ {p}) \in Nat
        BY <1>1, <3>3
      <4>. QED
        BY <4>1, <4>2, ExpAssumption DEF Weight
    <3> HIDE DEF p
    <3>. QED
      BY <2>2, <3>2, <3>3, <3>4
  <2>4. \A x \in A : Mass(A) = Weight(x) + Mass(A \ {x})
    BY <2>2, <2>3
  <2>. QED
    BY <2>4
<1> HIDE DEF F
<1>4. F = SUBSET S
  <2>1. IsFiniteSet(S)
    BY DEF Weighed
  <2>. QED
    BY <1>2, <1>3, <2>1, EveryFiniteSet
<1>5. S \in F
  BY <1>4
<1>. QED
  BY <1>5 DEF F

LEMMA MassGrows ==
  ASSUME NEW S, Weighed(S), NEW A \in SUBSET S
  PROVE  Mass(A) <= Mass(S)
<1> DEFINE F == {B \in SUBSET S : \A C \in SUBSET B : Mass(C) <= Mass(B)}
<1>1. \A B \in SUBSET S : Weighed(B) /\ Mass(B) \in Nat
  <2>. SUFFICES ASSUME NEW B \in SUBSET S PROVE Weighed(B) /\ Mass(B) \in Nat
    OBVIOUS
  <2>1. IsFiniteSet(B)
    BY FS_Subset DEF Weighed
  <2>2. Weighed(B)
    BY <2>1 DEF Weighed
  <2>. QED
    BY <2>2, MassIsNat
<1>2. F \in SUBSET SUBSET S /\ {} \in F
  <2>1. \A C \in SUBSET {} : C = {}
    OBVIOUS
  <2>2. Mass({}) \in Nat
    BY <1>1
  <2>. QED
    BY <2>1, <2>2
<1>3. ASSUME NEW B \in SUBSET S, B # {}, \A x \in B : B \ {x} \in F PROVE B \in F
  <2>1. ASSUME NEW C \in SUBSET B PROVE Mass(C) <= Mass(B)
    <3>1. CASE C = B
      BY <1>1, <3>1
    <3>2. CASE C # B
      <4>1. PICK y \in B : y \notin C
        BY <3>2
      <4>2. Mass(C) <= Mass(B \ {y})
        BY <1>3, <4>1
      <4>3. Mass(B) = Weight(y) + Mass(B \ {y})
        BY <1>1, MassAdds
      <4>4. Weight(y) \in Nat
        BY ExpAssumption DEF Weighed, Weight
      <4>5. Mass(C) \in Nat /\ Mass(B \ {y}) \in Nat
        BY <1>1
      <4>. QED
        BY <4>2, <4>3, <4>4, <4>5
    <3>. QED
      BY <3>1, <3>2
  <2>. QED
    BY <2>1
<1> HIDE DEF F
<1>4. F = SUBSET S
  <2>1. IsFiniteSet(S)
    BY DEF Weighed
  <2>. QED
    BY <1>2, <1>3, <2>1, EveryFiniteSet
<1>5. S \in F
  BY <1>4
<1>. QED
  BY <1>5 DEF F

\* A nucleus is never empty and has the share of the mass it was asked for.
LEMMA NucleusSuffices ==
  ASSUME NEW S \in SUBSET Candidates, Weighed(S), S # {},
         NEW topP, topP[1] \in Nat \ {0}, topP[2] \in Nat, topP[1] <= topP[2]
  PROVE  Nucleus(S, topP) # {} /\ Mass(Nucleus(S, topP)) * topP[2] >= topP[1] * Mass(S)
<1> DEFINE a == topP[1]  b == topP[2]  N == Nucleus(S, topP)
           above(c) == {d \in S : Better(d, c)}
<1>1. a \in Nat \ {0} /\ b \in Nat /\ a <= b
  OBVIOUS
<1>2. /\ IsFiniteSet(S) /\ Mass(S) \in Nat /\ Mass(S) > 0
      /\ \A A \in SUBSET S : Weighed(A) /\ Mass(A) \in Nat
  <2>1. IsFiniteSet(S) /\ Mass(S) \in Nat /\ Mass(S) > 0
    BY MassIsNat DEF Weighed
  <2>2. ASSUME NEW A \in SUBSET S PROVE Weighed(A) /\ Mass(A) \in Nat
    <3>1. IsFiniteSet(A)
      BY <2>1, FS_Subset
    <3>2. Weighed(A)
      BY <3>1 DEF Weighed
    <3>. QED
      BY <3>2, MassIsNat
  <2>. QED
    BY <2>1, <2>2
<1>3. N = IF a = b THEN S ELSE {c \in S : Mass(above(c)) * b < a * Mass(S)}
  BY DEF Nucleus
<1> HIDE DEF N, a, b
<1>4. N \in SUBSET S /\ Mass(N) \in Nat
  <2>1. N \in SUBSET S
    BY <1>3
  <2>. QED
    BY <1>2, <2>1
<1>5. \A x, y \in Nat : x >= y => x * b >= y * b
  BY <1>1
<1>6. CASE N = S
  <2>1. \A x \in Nat : x * b >= a * x
    <3>1. ASSUME NEW x \in Nat PROVE x * b >= a * x
      <4>1. PICK d \in Nat : b = a + d
        <5>1. b - a \in Nat /\ b = a + (b - a)
          BY <1>1
        <5>. QED
          BY <5>1
      <4>2. x * (a + d) = a * x + x * d /\ x * d \in Nat /\ a * x \in Nat
        BY <1>1
      <4>. QED
        BY <4>1, <4>2
    <3>. QED
      BY <3>1
  <2>. QED
    BY <1>2, <1>6, <2>1 DEF N, a, b
<1>7. CASE N # S
  <2>1. N = {c \in S : Mass(above(c)) * b < a * Mass(S)}
    BY <1>3, <1>7
  <2>2. N # {}
    <3>1. PICK m \in S : \A d \in S : d = m \/ Better(m, d)
      BY <1>2, Champion
    <3>2. \A d \in S : ~Better(d, m)
      <4>1. \A d \in S : d \in Candidates /\ m \in Candidates
        OBVIOUS
      <4>. QED
        BY <3>1, <4>1, Ordered
    <3>3. above(m) = {}
      BY <3>2
    <3> HIDE DEF above
    <3>4. Mass({}) = 0
      BY <1>2, FS_EmptySet, MassPicks
    <3>5. \A x \in Nat : x > 0 => 0 * b < a * x
      BY <1>1
    <3>6. Mass(above(m)) * b < a * Mass(S)
      BY <1>2, <3>3, <3>4, <3>5
    <3>. QED
      BY <2>1, <3>6
  <2>3. PICK c \in S \ N : \A d \in S \ N : d = c \/ Better(c, d)
    <3>1. S \ N # {} /\ S \ N \in SUBSET S
      BY <1>4, <1>7
    <3>2. IsFiniteSet(S \ N) /\ S \ N \in SUBSET Candidates
      BY <1>2, <3>1, FS_Subset
    <3>. QED
      BY <3>1, <3>2, Champion
  <2>4. above(c) \in SUBSET N
    <3>1. ASSUME NEW d \in above(c), d \notin N PROVE FALSE
      <4>1. d \in S \ N /\ Better(d, c) /\ d \in Candidates /\ c \in Candidates
        BY <3>1
      <4>2. d = c \/ Better(c, d)
        BY <2>3, <4>1
      <4>. QED
        BY <4>1, <4>2, Ordered
    <3>. QED
      BY <3>1
  <2>5. ~(Mass(above(c)) * b < a * Mass(S)) /\ above(c) \in SUBSET S
    BY <2>1, <2>3
  <2> HIDE DEF above
  <2>6. Mass(above(c)) \in Nat /\ Mass(above(c)) <= Mass(N)
    <3>1. Weighed(N)
      BY <1>2, <1>4
    <3>. QED
      BY <1>2, <2>4, <2>5, <3>1, MassGrows
  <2>7. Mass(N) * b >= Mass(above(c)) * b
    BY <1>4, <1>5, <2>6
  <2>8. \A x, y, z \in Int : x >= y /\ ~(y < z) => x >= z
    OBVIOUS
  <2>9. Mass(N) * b \in Int /\ Mass(above(c)) * b \in Int /\ a * Mass(S) \in Int
    BY <1>1, <1>2, <1>4, <2>6
  <2>10. Mass(N) * b >= a * Mass(S)
    BY <2>5, <2>7, <2>8, <2>9
  <2>. QED
    BY <2>2, <2>10 DEF N, a, b
<1>. QED
  BY <1>6, <1>7

\* There is a best of some candidates, and it is kept.
LEMMA KeepsSome ==
  ASSUME NEW S \in SUBSET Candidates, IsFiniteSet(S), S # {}, NEW k \in Nat
  PROVE  Kept(S, k) # {} /\ Kept(S, k) \in SUBSET S
<1>1. PICK m \in S : \A d \in S : d = m \/ Better(m, d)
  BY Champion
<1>2. CASE k = 0
  BY <1>2 DEF Kept
<1>3. CASE k # 0
  <2>1. \A d \in S : ~Better(d, m)
    <3>1. \A d \in S : d \in Candidates /\ m \in Candidates
      OBVIOUS
    <3>. QED
      BY <1>1, <3>1, Ordered
  <2>2. {d \in S : Better(d, m)} = {}
    BY <2>1
  <2>3. Cardinality({d \in S : Better(d, m)}) < k
    BY <1>3, <2>2, FS_EmptySet
  <2>4. m \in Best(S, k) /\ Best(S, k) \in SUBSET S
    BY <2>3 DEF Best
  <2>. QED
    BY <1>3, <2>4 DEF Kept
<1>. QED
  BY <1>2, <1>3

\* Every logit is of a token, so there are as many candidates as logits.
LEMMA OneEach ==
  ASSUME NEW xs \in Seq(Nat), NEW A \in SUBSET Entries(xs, TokenIds(xs))
  PROVE  /\ IsFiniteSet(A) /\ Cardinality({c.id : c \in A}) = Cardinality(A)
         /\ {c.id : c \in A} \in SUBSET TokenIds(xs)
         /\ Cardinality(Entries(xs, TokenIds(xs))) = Len(xs)
<1> DEFINE all == Entries(xs, TokenIds(xs))
           id == [c \in all |-> c.id]
           entry == [t \in TokenIds(xs) |-> [value |-> xs[t + 1], id |-> t]]
<1>1. /\ all \in SUBSET Candidates /\ IsFiniteSet(all)
      /\ \A c \in all : /\ c.id \in TokenIds(xs) /\ c.value = xs[c.id + 1]
                        /\ c = [value |-> c.value, id |-> c.id]
      /\ \A t \in TokenIds(xs) : [value |-> xs[t + 1], id |-> t] \in all
  BY Entered
<1>2. IsFiniteSet(A) /\ A \in SUBSET all
  BY <1>1, FS_Subset
<1>3. Cardinality({c.id : c \in A}) = Cardinality(A)
  <2>1. \A x, y \in A : id[x] = id[y] => x = y
    <3>1. \A x \in A : id[x] = x.id /\ x = [value |-> xs[x.id + 1], id |-> x.id]
      BY <1>1, <1>2
    <3> HIDE DEF id
    <3>. QED
      BY <3>1
  <2>2. {id[x] : x \in A} = {c.id : c \in A}
    BY <1>2
  <2> HIDE DEF id
  <2>3. Cardinality({id[x] : x \in A}) = Cardinality(A)
    BY <1>2, <2>1, AsMany
  <2>. QED
    BY <2>2, <2>3
<1>4. {c.id : c \in A} \in SUBSET TokenIds(xs)
  BY <1>1, <1>2
<1>5. Cardinality(all) = Len(xs)
  <2>1. Len(xs) \in Nat /\ 0 \in Int /\ Len(xs) - 1 \in Int
    OBVIOUS
  <2>2. IsFiniteSet(TokenIds(xs)) /\ Cardinality(TokenIds(xs)) = Len(xs)
    <3>1. CASE Len(xs) = 0
      <4>1. TokenIds(xs) = {}
        BY <3>1 DEF TokenIds
      <4>. QED
        BY <3>1, <4>1, FS_EmptySet
    <3>2. CASE Len(xs) # 0
      <4>1. ~(0 > Len(xs) - 1) /\ (Len(xs) - 1) - 0 + 1 = Len(xs)
        BY <2>1, <3>2
      <4>2. /\ IsFiniteSet(0..(Len(xs) - 1))
            /\ Cardinality(0..(Len(xs) - 1)) = (Len(xs) - 1) - 0 + 1
        BY <2>1, <4>1, FS_Interval
      <4>. QED
        BY <4>1, <4>2 DEF TokenIds
    <3>. QED
      BY <3>1, <3>2
  <2>3. \A x, y \in TokenIds(xs) : entry[x] = entry[y] => x = y
    OBVIOUS
  <2>4. {entry[x] : x \in TokenIds(xs)} = all
    BY DEF Entries
  <2> HIDE DEF entry, all
  <2>5. Cardinality({entry[x] : x \in TokenIds(xs)}) = Cardinality(TokenIds(xs))
    BY <2>2, <2>3, AsMany
  <2>. QED
    BY <2>2, <2>4, <2>5
<1>. QED
  BY <1>2, <1>3, <1>4, <1>5

\* The k best of the whole vocabulary are tokens sample_cpu may keep.
LEMMA HostKeepsTheSame ==
  ASSUME NEW xs \in Seq(Nat), NEW k \in Nat
  PROVE  {c.id : c \in Kept(Entries(xs, TokenIds(xs)), k)} \in SampleCpu(xs, k)
<1> DEFINE all == Entries(xs, TokenIds(xs))  K == Kept(all, k)  ids == {c.id : c \in K}
           above(c) == {d \in all : Better(d, c)}
<1>1. /\ all \in SUBSET Candidates /\ IsFiniteSet(all)
      /\ \A c \in all : /\ c.id \in TokenIds(xs) /\ c.id \in Nat /\ c.value = xs[c.id + 1]
                        /\ c.value \in Nat /\ c = [value |-> c.value, id |-> c.id]
      /\ \A t \in TokenIds(xs) : [value |-> xs[t + 1], id |-> t] \in all
  BY Entered
<1>2. Cardinality(all) = Len(xs) /\ Len(xs) \in Nat
  <2>1. all \in SUBSET Entries(xs, TokenIds(xs)) /\ Len(xs) \in Nat
    OBVIOUS
  <2>2. Cardinality(all) = Len(xs)
    BY <2>1, OneEach, Zenon
  <2>. QED
    BY <2>1, <2>2
<1>3. Best(all, k) = {c \in all : Cardinality(above(c)) < k}
  BY DEF Best
<1> HIDE DEF all
<1>4. CASE k = 0 \/ k >= Len(xs)
  <2>1. K = all
    <3>1. CASE k = 0
      BY <3>1 DEF Kept
    <3>2. CASE k # 0 /\ k >= Len(xs)
      <4>1. ASSUME NEW c \in all PROVE Cardinality(above(c)) < k
        <5>1. above(c) \in SUBSET (all \ {c})
          BY <1>1, Ordered
        <5> HIDE DEF above
        <5>2. IsFiniteSet(all \ {c}) /\ Cardinality(all \ {c}) = Len(xs) - 1
          BY <1>1, <1>2, FS_RemoveElement
        <5>3. Cardinality(above(c)) <= Cardinality(all \ {c}) /\ Cardinality(above(c)) \in Nat
          BY <5>1, <5>2, FS_Subset, FS_CardinalityType
        <5>. QED
          BY <1>2, <3>2, <5>2, <5>3
      <4>. QED
        BY <1>3, <3>2, <4>1 DEF Kept
    <3>. QED
      BY <1>4, <3>1, <3>2
  <2>2. ids = TokenIds(xs)
    <3>1. ASSUME NEW t \in TokenIds(xs) PROVE t \in ids
      <4>1. [value |-> xs[t + 1], id |-> t] \in K /\ [value |-> xs[t + 1], id |-> t].id = t
        BY <1>1, <2>1
      <4>. QED
        BY <4>1
    <3>2. ids \in SUBSET TokenIds(xs)
      BY <1>1, <2>1
    <3>. QED
      BY <3>1, <3>2
  <2>3. SampleCpu(xs, k) = {TokenIds(xs)}
    BY <1>4 DEF SampleCpu
  <2> HIDE DEF ids
  <2>. QED
    BY <2>2, <2>3 DEF ids, all
<1>5. CASE k # 0 /\ k < Len(xs)
  <2>1. K = Best(all, k) /\ K \in SUBSET all
    BY <1>3, <1>5 DEF Kept
  <2>2. Cardinality(K) = k
    <3>1. k \in 0..Cardinality(all)
      BY <1>2, <1>5
    <3>. QED
      BY <1>1, <2>1, <3>1, BestCounted
  <2> HIDE DEF K
  <2>3. Cardinality(ids) = k /\ ids \in SUBSET TokenIds(xs)
    BY <2>1, <2>2, OneEach DEF all
  <2>4. ASSUME NEW t \in ids, NEW u \in TokenIds(xs) \ ids PROVE xs[t + 1] >= xs[u + 1]
    <3>1. PICK c \in K : t = c.id
      OBVIOUS
    <3> DEFINE d == [value |-> xs[u + 1], id |-> u]
    <3>2. d \in all /\ d \notin K /\ c \in all /\ c.value = xs[t + 1] /\ d.value = xs[u + 1]
      BY <1>1, <2>1, <3>1
    <3>3. d.value \in Nat /\ c.value \in Nat
      BY <1>1, <3>2
    <3> HIDE DEF d
    <3>4. ~Better(d, c)
      BY <1>1, <2>1, <3>2, Upwards
    <3>. QED
      BY <3>2, <3>3, <3>4 DEF Better
  <2> HIDE DEF ids
  <2>5. ids \in kSubset(k, TokenIds(xs))
    BY <2>3 DEF kSubset
  <2>6. ids \in {s \in kSubset(k, TokenIds(xs)) :
                   \A t \in s, u \in TokenIds(xs) \ s : xs[t + 1] >= xs[u + 1]}
    BY <2>4, <2>5
  <2>7. SampleCpu(xs, k) = {s \in kSubset(k, TokenIds(xs)) :
                              \A t \in s, u \in TokenIds(xs) \ s : xs[t + 1] >= xs[u + 1]}
    BY <1>2, <1>5 DEF SampleCpu
  <2>8. ids \in SampleCpu(xs, k)
    BY <2>6, <2>7
  <2>. QED
    BY <2>8 DEF ids, K, all
<1>. QED
  BY <1>2, <1>4, <1>5

\* The fast paths of argmax and sampling choose like the exact ones: for every
\* sequence of logits, every shape of the tree, every top_k and every share
\* that top_p can ask for (argmax_* and topk4_partial, sample_candidates, draw,
\* sample_cpu).
THEOREM EverySampleExact ==
  ASSUME NEW xs \in Seq(Logits), xs # <<>>, NEW parts \in Nat \ {0}, NEW parts2 \in Nat \ {0},
         NEW k \in Nat, NEW a \in Nat \ {0}, NEW b \in Nat, a <= b
  PROVE  FastPathsExact(xs, parts, parts2, k, <<a, b>>)
<1> DEFINE topP == <<a, b>>  all == Entries(xs, TokenIds(xs))  H == Harvest(xs, parts)
           K == Kept(H, k)
<1>1. xs \in Seq(Nat)
  BY ExpAssumption
<1>2. ArgmaxTree(xs, parts, parts2) = Argmax(xs)
  BY <1>1, TreeFindsTheArgmax
<1>3. /\ all \in SUBSET Candidates /\ IsFiniteSet(all)
      /\ \A c \in all : c.value \in Logits
  <2>1. /\ all \in SUBSET Candidates /\ IsFiniteSet(all)
        /\ \A c \in all : c.id \in TokenIds(xs) /\ c.value = xs[c.id + 1]
    BY <1>1, Entered
  <2>2. \A t \in TokenIds(xs) : xs[t + 1] \in Logits
    BY DEF TokenIds
  <2> HIDE DEF all
  <2>. QED
    BY <2>1, <2>2
<1>4. H \in SUBSET all /\ H # {}
  <2> DEFINE chain(p) == Entries(xs, Chain(xs, p, parts))
  <2>1. /\ \A p : chain(p) \in SUBSET all
        /\ \A p : Best(chain(p), 4) \in SUBSET chain(p)
    BY DEF Entries, Chain, Best
  <2>2. H = UNION {Best(chain(p), 4) : p \in 0..(parts - 1)}
    BY DEF Harvest
  <2>3. 0 \in TokenIds(xs) /\ 0 % parts = 0 /\ 0 \in 0..(parts - 1)
    BY DEF TokenIds
  <2>4. [value |-> xs[0 + 1], id |-> 0] \in chain(0)
    BY <2>3 DEF Entries, Chain
  <2> HIDE DEF chain, all, H
  <2>5. Best(chain(0), 4) # {}
    <3>1. chain(0) \in SUBSET Candidates /\ IsFiniteSet(chain(0)) /\ chain(0) # {}
      BY <1>3, <2>1, <2>4, FS_Subset
    <3>2. Kept(chain(0), 4) # {}
      BY <3>1, KeepsSome
    <3>. QED
      BY <3>2 DEF Kept
  <2>. QED
    BY <2>1, <2>2, <2>3, <2>5
<1> HIDE DEF all, H
<1>5. K # {} /\ K \in SUBSET H
  <2>1. H \in SUBSET Candidates /\ IsFiniteSet(H)
    BY <1>3, <1>4, FS_Subset
  <2>. QED
    BY <1>4, <2>1, KeepsSome
<1> HIDE DEF K
<1>6. K \in SUBSET Candidates /\ Weighed(K)
  <2>1. K \in SUBSET all
    BY <1>4, <1>5
  <2>. QED
    BY <1>3, <2>1, FS_Subset DEF Weighed
<1>7. topP[1] \in Nat \ {0} /\ topP[2] \in Nat /\ topP[1] <= topP[2]
  OBVIOUS
<1> HIDE DEF topP
<1>8. Nucleus(K, topP) # {} /\ Mass(Nucleus(K, topP)) * topP[2] >= topP[1] * Mass(K)
  BY <1>5, <1>6, <1>7, NucleusSuffices
<1>9. ASSUME ~Crowded(xs, parts, k)
      PROVE  /\ Draw(H, k, topP) = Draw(all, k, topP)
             /\ topP = <<1, 1>> => Draw(H, k, topP) \in SampleCpu(xs, k)
  <2>1. Kept(H, k) = Kept(all, k)
    BY <1>1, <1>9, HarvestKeepsTheBest DEF H, all
  <2>2. Draw(H, k, topP) = Draw(all, k, topP)
    BY <2>1 DEF Draw
  <2>3. ASSUME topP = <<1, 1>> PROVE Draw(H, k, topP) \in SampleCpu(xs, k)
    <3>1. Draw(all, k, topP) = {c.id : c \in Kept(all, k)}
      BY <2>3 DEF Draw, Nucleus
    <3>2. {c.id : c \in Kept(all, k)} \in SampleCpu(xs, k)
      BY <1>1, HostKeepsTheSame DEF all
    <3>. QED
      BY <2>2, <3>1, <3>2
  <2>. QED
    BY <2>2, <2>3
<1>. QED
  BY <1>2, <1>8, <1>9 DEF FastPathsExact, all, H, K, topP

-----------------------------------------------------------------------------
(* Sequences one after the other, by the sequences of their beginnings.     *)

\* The recursive function of FlattenSeq.
FlatUpTo(f, s, i) == IF i = 1 THEN s[i] ELSE f[i - 1] \o s[i]
Flat(f, s, n) == f = [i \in 1..n |-> FlatUpTo(f, s, i)]

\* There is one for every sequence.
LEMMA FlatExists ==
  ASSUME NEW s, NEW n \in Nat
  PROVE  \E f : Flat(f, s, n)
<1> DEFINE S == {k \in Nat : \E f : Flat(f, s, k)}
<1>1. 0 \in S
  <2> DEFINE f == [i \in 1..0 |-> <<>>]
  <2>1. f = [i \in 1..0 |-> FlatUpTo(f, s, i)]
    OBVIOUS
  <2>. QED
    BY <2>1 DEF Flat
<1>2. ASSUME NEW k \in S PROVE k + 1 \in S
  <2>1. PICK f : Flat(f, s, k)
    OBVIOUS
  <2> DEFINE g == [i \in 1..(k + 1) |-> IF i = k + 1 THEN FlatUpTo(f, s, i) ELSE f[i]]
  <2>2. k \in Nat /\ k + 1 \in Nat
    OBVIOUS
  <2>3. \A i \in 1..k : f[i] = FlatUpTo(f, s, i)
    BY <2>1 DEF Flat
  <2>4. /\ \A i \in 1..k : g[i] = f[i]
        /\ g[k + 1] = FlatUpTo(f, s, k + 1)
    BY <2>2
  <2>5. ASSUME NEW i \in 1..(k + 1) PROVE g[i] = FlatUpTo(g, s, i)
    <3>1. i # 1 => i - 1 \in 1..k /\ g[i - 1] = f[i - 1]
      BY <2>2, <2>4
    <3>2. g[i] = FlatUpTo(f, s, i)
      BY <2>2, <2>3, <2>4
    <3> HIDE DEF g
    <3>. QED
      BY <3>1, <3>2 DEF FlatUpTo
  <2>6. g = [i \in 1..(k + 1) |-> g[i]]
    OBVIOUS
  <2> HIDE DEF g
  <2>7. Flat(g, s, k + 1)
    BY <2>5, <2>6 DEF Flat
  <2>. QED
    BY <2>2, <2>7
<1>3. S \in SUBSET Nat
  OBVIOUS
<1> HIDE DEF S
<1>4. S = Nat
  BY <1>1, <1>2, <1>3, EveryNumber
<1>. QED
  BY <1>4 DEF S

\* FlattenSeq is its last value.
LEMMA Flattened ==
  ASSUME NEW s, Len(s) \in Nat, Len(s) # 0
  PROVE  \E f : /\ FlattenSeq(s) = f[Len(s)]
                /\ \A i \in 1..Len(s) : f[i] = IF i = 1 THEN s[i] ELSE f[i - 1] \o s[i]
<1> DEFINE flatten == CHOOSE f : Flat(f, s, Len(s))
<1>1. Flat(flatten, s, Len(s))
  BY FlatExists
<1>2. FlattenSeq(s) = flatten[Len(s)]
  BY DEF FlattenSeq, Flat, FlatUpTo
<1> HIDE DEF flatten
<1>3. \A i \in 1..Len(s) : flatten[i] = IF i = 1 THEN s[i] ELSE flatten[i - 1] \o s[i]
  BY <1>1 DEF Flat, FlatUpTo
<1>. QED
  BY <1>2, <1>3

\* What FlattenSeq computes, by the prefixes of its argument.
LEMMA FlattenIs ==
  ASSUME NEW U, NEW s \in Seq(Seq(U)), NEW f, f[0] = <<>>,
         \A i \in 1..Len(s) : f[i] = f[i - 1] \o s[i]
  PROVE  FlattenSeq(s) = f[Len(s)] /\ \A i \in 0..Len(s) : f[i] \in Seq(U)
<1> DEFINE n == Len(s)
           T == {k \in Nat : k \in 0..n => f[k] \in Seq(U)}
<1>1. n \in Nat /\ \A i \in 1..n : s[i] \in Seq(U)
  OBVIOUS
<1>2. 0 \in T
  <2>1. <<>> \in Seq(U)
    OBVIOUS
  <2>. QED
    BY <2>1
<1> HIDE DEF n
<1>3. ASSUME NEW k \in T PROVE k + 1 \in T
  <2>1. k \in Nat /\ k + 1 \in Nat /\ (k \in 0..n => f[k] \in Seq(U))
    OBVIOUS
  <2>2. ASSUME k + 1 \in 0..n PROVE f[k + 1] \in Seq(U)
    <3>1. k \in 0..n /\ k + 1 \in 1..n /\ (k + 1) - 1 = k
      BY <1>1, <2>1, <2>2
    <3>2. f[k + 1] = f[k] \o s[k + 1]
      BY <3>1 DEF n
    <3>. QED
      BY <1>1, <2>1, <3>1, <3>2
  <2>. QED
    BY <2>1, <2>2
<1>4. T = Nat
  <2>1. T \in SUBSET Nat
    OBVIOUS
  <2> HIDE DEF T
  <2>. QED
    BY <1>2, <1>3, <2>1, EveryNumber
<1>5. \A i \in 0..n : f[i] \in Seq(U)
  BY <1>4
<1>6. CASE n = 0
  <2>1. s = <<>> /\ FlattenSeq(s) = s
    BY <1>6 DEF FlattenSeq, n
  <2>. QED
    BY <1>5, <1>6, <2>1 DEF n
<1>7. CASE n # 0
  <2>1. PICK g : /\ FlattenSeq(s) = g[n]
                 /\ \A i \in 1..n : g[i] = IF i = 1 THEN s[i] ELSE g[i - 1] \o s[i]
    BY <1>1, <1>7, Flattened, Zenon DEF n
  <2> DEFINE K == {k \in Nat : k + 1 \in 1..n => g[k + 1] = f[k + 1]}
  <2>2. 0 \in K
    <3>1. ASSUME 1 \in 1..n PROVE g[1] = f[1]
      <4>1. f[1] = f[0] \o s[1] /\ s[1] \in Seq(U)
        <5>1. \A i \in 1..n : f[i] = f[i - 1] \o s[i]
          BY DEF n
        <5>2. 1 - 1 = 0
          OBVIOUS
        <5>3. f[1] = f[0] \o s[1]
          BY <3>1, <5>1, <5>2
        <5>4. s[1] \in Seq(U)
          BY <1>1, <3>1
        <5>. QED
          BY <5>3, <5>4
      <4>2. f[1] = s[1]
        BY <4>1
      <4>. QED
        BY <2>1, <3>1, <4>2
    <3>. QED
      BY <3>1
  <2>3. ASSUME NEW k \in K PROVE k + 1 \in K
    <3>1. k \in Nat /\ k + 1 \in Nat /\ (k + 1 \in 1..n => g[k + 1] = f[k + 1])
      OBVIOUS
    <3>2. ASSUME (k + 1) + 1 \in 1..n PROVE g[(k + 1) + 1] = f[(k + 1) + 1]
      <4> DEFINE e == (k + 1) + 1
      <4>1. k + 1 \in 1..n /\ e - 1 = k + 1 /\ e # 1 /\ e \in 1..n
        BY <1>1, <3>1, <3>2
      <4> HIDE DEF e
      <4>2. g[e] = g[e - 1] \o s[e] /\ f[e] = f[e - 1] \o s[e]
        BY <2>1, <4>1 DEF n
      <4>. QED
        BY <3>1, <4>1, <4>2 DEF e
    <3>. QED
      BY <3>1, <3>2
  <2>4. K = Nat
    <3>1. K \in SUBSET Nat
      OBVIOUS
    <3> HIDE DEF K
    <3>. QED
      BY <2>2, <2>3, <3>1, EveryNumber
  <2>5. n - 1 \in Nat /\ (n - 1) + 1 = n /\ n \in 1..n
    BY <1>1, <1>7
  <2>6. g[n] = f[n]
    BY <2>4, <2>5
  <2>. QED
    BY <1>5, <2>1, <2>6 DEF n
<1>. QED
  BY <1>6, <1>7

\* The prefixes are there, each a sequence.
LEMMA Flattens ==
  ASSUME NEW U, NEW s \in Seq(Seq(U))
  PROVE  \E f : /\ f[0] = <<>> /\ \A i \in 1..Len(s) : f[i] = f[i - 1] \o s[i]
                /\ FlattenSeq(s) = f[Len(s)] /\ \A i \in 0..Len(s) : f[i] \in Seq(U)
<1> DEFINE n == Len(s)
<1>1. n \in Nat /\ \A i \in 1..n : s[i] \in Seq(U)
  OBVIOUS
<1>2. \E g : \A i \in 1..n : g[i] = IF i = 1 THEN s[i] ELSE g[i - 1] \o s[i]
  <2>1. PICK g : Flat(g, s, n)
    BY <1>1, FlatExists
  <2>2. g = [i \in 1..n |-> FlatUpTo(g, s, i)]
    BY <2>1 DEF Flat
  <2>3. \A i \in 1..n : g[i] = FlatUpTo(g, s, i)
    BY <2>2
  <2>. QED
    BY <2>3, Zenon DEF FlatUpTo
<1>3. PICK g : \A i \in 1..n : g[i] = IF i = 1 THEN s[i] ELSE g[i - 1] \o s[i]
  BY <1>2
<1> DEFINE f == [i \in 0..n |-> IF i = 0 THEN <<>> ELSE g[i]]
<1> HIDE DEF n
<1>4. f[0] = <<>> /\ \A i \in 1..n : f[i] = g[i]
  BY <1>1
<1> HIDE DEF f
<1>5. ASSUME NEW i \in 1..n PROVE f[i] = f[i - 1] \o s[i]
  <2>1. CASE i = 1
    <3>1. f[i - 1] = <<>> /\ f[i] = s[i] /\ s[i] \in Seq(U)
      BY <1>1, <1>3, <1>4, <2>1
    <3>. QED
      BY <3>1
  <2>2. CASE i # 1
    <3>1. i - 1 \in 1..n
      BY <1>1, <2>2
    <3>. QED
      BY <1>3, <1>4, <2>2, <3>1
  <2>. QED
    BY <2>1, <2>2
<1>6. FlattenSeq(s) = f[n] /\ \A i \in 0..n : f[i] \in Seq(U)
  BY <1>4, <1>5, FlattenIs DEF n
<1>. QED
  BY <1>4, <1>5, <1>6 DEF n

\* One part flattens to itself.
LEMMA FlattenOne ==
  ASSUME NEW U, NEW p \in Seq(U)
  PROVE  FlattenSeq(<<p>>) = p
<1> DEFINE s == <<p>>  f == [i \in 0..1 |-> IF i = 0 THEN <<>> ELSE p]
<1>1. s \in Seq(Seq(U)) /\ Len(s) = 1 /\ s[1] = p
  OBVIOUS
<1>2. f[0] = <<>> /\ f[1] = p
  OBVIOUS
<1> HIDE DEF s, f
<1>3. \A i \in 1..Len(s) : f[i] = f[i - 1] \o s[i]
  <2>1. \A i \in 1..Len(s) : i = 1
    BY <1>1
  <2>2. f[1] = f[1 - 1] \o s[1]
    BY <1>1, <1>2
  <2>. QED
    BY <2>1, <2>2
<1>4. FlattenSeq(s) = f[Len(s)]
  BY <1>1, <1>2, <1>3, FlattenIs
<1>. QED
  BY <1>1, <1>2, <1>4 DEF s

\* Parts of one letter each flatten to the letters.
LEMMA FlattenSingles ==
  ASSUME NEW U, NEW n \in Nat, NEW g \in [1..n -> U]
  PROVE  FlattenSeq([j \in 1..n |-> <<g[j]>>]) = g
<1> DEFINE s == [j \in 1..n |-> <<g[j]>>]
           f == [i \in 0..n |-> [j \in 1..i |-> g[j]]]
<1>1. s \in Seq(Seq(U)) /\ Len(s) = n /\ \A i \in 1..n : s[i] = <<g[i]>>
  OBVIOUS
<1>2. \A i \in 0..n : f[i] = [j \in 1..i |-> g[j]] /\ f[i] \in Seq(U) /\ Len(f[i]) = i
  OBVIOUS
<1> HIDE DEF s, f
<1>3. f[0] = <<>>
  <2>1. f[0] \in Seq(U) /\ Len(f[0]) = 0
    <3>1. 0 \in 0..n
      OBVIOUS
    <3>. QED
      BY <1>2, <3>1
  <2>. QED
    BY <2>1
<1>4. ASSUME NEW i \in 1..n PROVE f[i] = f[i - 1] \o s[i]
  <2>1. i - 1 \in 0..n /\ i \in 0..n /\ g[i] \in U
    OBVIOUS
  <2>2. /\ f[i] = [j \in 1..i |-> g[j]] /\ f[i - 1] = [j \in 1..(i - 1) |-> g[j]]
        /\ f[i] \in Seq(U) /\ Len(f[i]) = i /\ f[i - 1] \in Seq(U) /\ Len(f[i - 1]) = i - 1
    BY <1>2, <2>1
  <2>3. s[i] = <<g[i]>>
    BY <1>1
  <2>. QED
    BY <2>1, <2>2, <2>3
<1>5. FlattenSeq(s) = f[Len(s)]
  BY <1>1, <1>3, <1>4, FlattenIs
<1>6. f[n] = g
  <2>1. f[n] = [j \in 1..n |-> g[j]]
    BY <1>2
  <2>. QED
    BY <2>1
<1>. QED
  BY <1>1, <1>5, <1>6 DEF s

\* The letters of two sequences in one.
LEMMA OneAfterOther ==
  ASSUME NEW S, NEW p \in Seq(S), NEW q \in Seq(S), NEW x, x = p \o q
  PROVE  /\ x \in Seq(S) /\ Len(x) = Len(p) + Len(q) /\ Len(p) \in Nat /\ Len(q) \in Nat
         /\ \A i \in 1..Len(p) : x[i] = p[i]
         /\ \A i \in 1..Len(q) : x[Len(p) + i] = q[i]
         /\ \A i \in 1..Len(x) : i \in 1..Len(p)
                                 \/ (i - Len(p) \in 1..Len(q) /\ i = Len(p) + (i - Len(p)))
<1>1. /\ x \in Seq(S) /\ Len(x) = Len(p) + Len(q)
      /\ \A i \in 1..Len(p) : x[i] = p[i]
      /\ \A i \in 1..Len(q) : x[Len(p) + i] = q[i]
  OBVIOUS
<1>2. Len(p) \in Nat /\ Len(q) \in Nat
  OBVIOUS
<1> DEFINE a == Len(p)  b == Len(q)  c == Len(x)
<1>3. a \in Nat /\ b \in Nat /\ c = a + b
  BY <1>1, <1>2
<1> HIDE DEF a, b, c
<1>4. \A i \in 1..c : i \in 1..a \/ (i - a \in 1..b /\ i = a + (i - a))
  BY <1>3
<1>. QED
  BY <1>1, <1>2, <1>4 DEF a, b, c

\* Parts one after the other flatten one after the other.
LEMMA FlattenConcat ==
  ASSUME NEW U, NEW s \in Seq(Seq(U)), NEW t \in Seq(Seq(U))
  PROVE  FlattenSeq(s \o t) = FlattenSeq(s) \o FlattenSeq(t)
<1>1. PICK f : /\ f[0] = <<>> /\ \A i \in 1..Len(s) : f[i] = f[i - 1] \o s[i]
               /\ FlattenSeq(s) = f[Len(s)] /\ \A i \in 0..Len(s) : f[i] \in Seq(U)
  BY Flattens
<1>2. PICK g : /\ g[0] = <<>> /\ \A i \in 1..Len(t) : g[i] = g[i - 1] \o t[i]
               /\ FlattenSeq(t) = g[Len(t)] /\ \A i \in 0..Len(t) : g[i] \in Seq(U)
  BY Flattens
<1> DEFINE a == Len(s)  b == Len(t)  w == s \o t
           h == [i \in 0..(a + b) |-> IF i <= a THEN f[i] ELSE f[a] \o g[i - a]]
<1>3. /\ a \in Nat /\ b \in Nat /\ w \in Seq(Seq(U)) /\ Len(w) = a + b
      /\ \A i \in 1..a : w[i] = s[i] /\ s[i] \in Seq(U)
      /\ \A i \in 1..b : w[a + i] = t[i] /\ t[i] \in Seq(U)
  OBVIOUS
<1>4. /\ f[0] = <<>> /\ \A i \in 1..a : f[i] = f[i - 1] \o s[i]
      /\ \A i \in 0..a : f[i] \in Seq(U)
      /\ g[0] = <<>> /\ \A i \in 1..b : g[i] = g[i - 1] \o t[i]
      /\ \A i \in 0..b : g[i] \in Seq(U)
  BY <1>1, <1>2
<1> HIDE DEF a, b, w
<1>5. \A i \in 0..(a + b) : h[i] = IF i <= a THEN f[i] ELSE f[a] \o g[i - a]
  OBVIOUS
<1> HIDE DEF h
<1>6. h[0] = <<>>
  BY <1>3, <1>4, <1>5
<1>7. ASSUME NEW i \in 1..(a + b) PROVE h[i] = h[i - 1] \o w[i]
  <2>1. CASE i <= a
    <3>1. i \in 1..a /\ i \in 0..(a + b) /\ i - 1 \in 0..(a + b) /\ i - 1 <= a
      BY <1>3, <2>1
    <3>2. h[i] = f[i] /\ h[i - 1] = f[i - 1]
      BY <1>5, <3>1
    <3>. QED
      BY <1>3, <1>4, <3>1, <3>2
  <2>2. CASE i > a
    <3> DEFINE e == i - a
    <3>1. /\ e \in 1..b /\ e - 1 \in 0..b /\ a + e = i /\ i \in 0..(a + b) /\ i - 1 \in 0..(a + b)
          /\ ~(i <= a) /\ (i - 1 <= a => e = 1 /\ i - 1 = a) /\ (i - 1) - a = e - 1
      BY <1>3, <2>2
    <3> HIDE DEF e
    <3>2. h[i] = f[a] \o g[e]
      BY <1>5, <3>1 DEF e
    <3>3. f[a] \in Seq(U)
      BY <1>3, <1>4
    <3>4. h[i - 1] = f[a] \o g[e - 1]
      <4>1. CASE i - 1 <= a
        <5>1. h[i - 1] = f[a] /\ g[e - 1] = <<>>
          BY <1>4, <1>5, <3>1, <4>1
        <5>. QED
          BY <3>3, <5>1
      <4>2. CASE ~(i - 1 <= a)
        BY <1>5, <3>1, <4>2
      <4>. QED
        BY <4>1, <4>2
    <3>5. g[e] = g[e - 1] \o t[e] /\ w[i] = t[e]
      BY <1>3, <1>4, <3>1
    <3>6. g[e - 1] \in Seq(U) /\ t[e] \in Seq(U)
      BY <1>3, <1>4, <3>1
    <3>7. f[a] \o (g[e - 1] \o t[e]) = (f[a] \o g[e - 1]) \o t[e]
      <4> DEFINE p == f[a]  q == g[e - 1]  r == t[e]
      <4>1. p \in Seq(U) /\ q \in Seq(U) /\ r \in Seq(U)
        BY <3>3, <3>6
      <4> HIDE DEF p, q, r
      <4>2. (p \o q) \o r = p \o (q \o r)
        BY <4>1, ConcatAssociative, SMTT(30)
      <4>. QED
        BY <4>2 DEF p, q, r
    <3>. QED
      BY <3>2, <3>4, <3>5, <3>7
  <2>. QED
    BY <1>3, <2>1, <2>2
<1>8. FlattenSeq(w) = h[Len(w)]
  BY <1>3, <1>6, <1>7, FlattenIs
<1>9. h[a + b] = f[a] \o g[b]
  <2>1. CASE b = 0
    <3>1. h[a + b] = f[a] /\ g[b] = <<>> /\ f[a] \in Seq(U)
      BY <1>3, <1>4, <1>5, <2>1
    <3>. QED
      BY <3>1
  <2>2. CASE b # 0
    <3>1. a + b \in 0..(a + b) /\ ~(a + b <= a) /\ (a + b) - a = b
      BY <1>3, <2>2
    <3>. QED
      BY <1>5, <3>1
  <2>. QED
    BY <2>1, <2>2
<1>. QED
  BY <1>1, <1>2, <1>3, <1>8, <1>9 DEF a, b, w

\* Sequences one after the other are a sequence.
LEMMA FlattenedSeq ==
  ASSUME NEW U, NEW s \in Seq(Seq(U))
  PROVE  FlattenSeq(s) \in Seq(U)
<1>1. CASE s = <<>>
  <2>1. FlattenSeq(s) = <<>>
    BY <1>1 DEF FlattenSeq
  <2>. QED
    BY <2>1
<1>2. CASE Len(s) # 0
  <2>1. PICK f : /\ FlattenSeq(s) = f[Len(s)]
                 /\ \A i \in 1..Len(s) : f[i] = IF i = 1 THEN s[i] ELSE f[i - 1] \o s[i]
    <3>1. Len(s) \in Nat
      OBVIOUS
    <3>. QED
      BY <1>2, <3>1, Flattened, Zenon
  <2> DEFINE K == {k \in Nat : k + 1 \in 1..Len(s) => f[k + 1] \in Seq(U)}
  <2>2. \A i \in 1..Len(s) : s[i] \in Seq(U)
    OBVIOUS
  <2>3. 0 \in K
    BY <2>1, <2>2
  <2>4. ASSUME NEW k \in K PROVE k + 1 \in K
    <3>1. k \in Nat /\ k + 1 \in Nat
      OBVIOUS
    <3>2. ASSUME k + 2 \in 1..Len(s) PROVE f[k + 2] \in Seq(U)
      <4>1. k + 1 \in 1..Len(s) /\ k + 2 # 1 /\ (k + 2) - 1 = k + 1
        BY <3>1, <3>2
      <4>2. f[k + 1] \in Seq(U)
        BY <4>1
      <4>3. f[k + 2] = f[k + 1] \o s[k + 2]
        BY <2>1, <3>2, <4>1
      <4>. QED
        BY <2>2, <3>2, <4>2, <4>3
    <3>3. (k + 1) + 1 = k + 2
      BY <3>1
    <3>. QED
      BY <3>1, <3>2, <3>3
  <2>5. K \in SUBSET Nat
    OBVIOUS
  <2> HIDE DEF K
  <2>6. K = Nat
    BY <2>3, <2>4, <2>5, EveryNumber
  <2>7. Len(s) - 1 \in Nat /\ (Len(s) - 1) + 1 = Len(s) /\ Len(s) \in 1..Len(s)
    BY <1>2
  <2>8. f[Len(s)] \in Seq(U)
    BY <2>6, <2>7 DEF K
  <2>. QED
    BY <2>1, <2>8
<1>. QED
  BY <1>1, <1>2

-----------------------------------------------------------------------------
(* Gguf: what stands in a file, and the reads of fields and strings.        *)

\* A sequence, of whatever.
IsSequence(ds) == \E D : ds \in Seq(D)

\* As far as the file goes, w stands behind its first p bytes.
Has(file, p, w) ==
  p \in Nat /\ \A i \in 1..Len(w) : p + i <= Len(file) => file[p + i] = w[i]

\* A read that returns v and goes on at q, or fails if the file ends before.
Yields(file, x, v, q) ==
  IF q <= Len(file) THEN x = [v |-> v, p |-> q] ELSE x.p = Bad

\* One sequence after another.
LEMMA Joins ==
  ASSUME NEW u, NEW w, IsSequence(u), IsSequence(w)
  PROVE  /\ IsSequence(u \o w) /\ Len(u) \in Nat /\ Len(w) \in Nat
         /\ Len(u \o w) = Len(u) + Len(w)
         /\ \A i \in 1..Len(u) : (u \o w)[i] = u[i]
         /\ \A i \in 1..Len(w) : (u \o w)[Len(u) + i] = w[i]
<1>1. PICK S : u \in Seq(S)
  BY DEF IsSequence
<1>2. PICK T : w \in Seq(T)
  BY DEF IsSequence
<1> DEFINE U == S \cup T
<1>3. u \in Seq(U) /\ w \in Seq(U)
  BY <1>1, <1>2
<1> HIDE DEF U
<1>. QED
  BY <1>3, OneAfterOther DEF IsSequence

\* What stands there in two parts.
LEMMA HasJoined ==
  ASSUME NEW file, NEW p, NEW u, NEW w, IsSequence(u), IsSequence(w), Has(file, p, u \o w)
  PROVE  /\ p \in Nat /\ Has(file, p, u) /\ Len(u) \in Nat
         /\ p + Len(u) \in Nat /\ Has(file, p + Len(u), w) /\ Len(w) \in Nat
         /\ p + Len(u \o w) = (p + Len(u)) + Len(w)
<1> DEFINE a == Len(u)  b == Len(w)  x == u \o w  c == Len(x)
<1>1. /\ a \in Nat /\ b \in Nat /\ c = a + b
      /\ \A i \in 1..a : x[i] = u[i]
      /\ \A i \in 1..b : x[a + i] = w[i]
  BY Joins
<1>2. p \in Nat /\ \A i \in 1..c : p + i <= Len(file) => file[p + i] = x[i]
  BY DEF Has
<1> HIDE DEF a, b, c, x
<1>3. \A i \in 1..a : i \in 1..c
  BY <1>1
<1>4. ASSUME NEW i \in 1..b PROVE a + i \in 1..c /\ p + (a + i) = (p + a) + i
  BY <1>1, <1>2
<1>5. \A i \in 1..a : p + i <= Len(file) => file[p + i] = u[i]
  BY <1>1, <1>2, <1>3
<1>6. ASSUME NEW i \in 1..b, (p + a) + i <= Len(file) PROVE file[(p + a) + i] = w[i]
  <2>1. file[p + (a + i)] = x[a + i] /\ x[a + i] = w[i]
    BY <1>1, <1>2, <1>4, <1>6
  <2>. QED
    BY <1>4, <2>1
<1>7. p + a \in Nat /\ p + c = (p + a) + b
  BY <1>1, <1>2
<1>. QED
  BY <1>1, <1>2, <1>5, <1>6, <1>7 DEF Has, a, b, c, x

\* y is w after u; q is how far w reaches that stands at p.
Both(y, u, w) == y = u \o w
Past(p, w, q) == p \in Nat /\ Len(w) \in Nat /\ q = p + Len(w)

\* The same, of two parts by name.
LEMMA BothSeq ==
  ASSUME NEW u, NEW w, IsSequence(u), IsSequence(w), NEW y, Both(y, u, w)
  PROVE  /\ IsSequence(y) /\ Len(y) \in Nat /\ Len(u) \in Nat /\ Len(w) \in Nat
         /\ Len(y) = Len(u) + Len(w)
BY Joins DEF Both

LEMMA HasBoth ==
  ASSUME NEW file, NEW p, NEW u, NEW w, IsSequence(u), IsSequence(w),
         NEW y, Both(y, u, w), Has(file, p, y), NEW a, Past(p, u, a), NEW q, Past(a, w, q)
  PROVE  Has(file, p, u) /\ Has(file, a, w) /\ Past(p, y, q)
<1>1. IsSequence(y) /\ Len(y) \in Nat
  BY BothSeq
<1>2. y = u \o w
  BY DEF Both
<1>3. /\ p \in Nat /\ Has(file, p, u) /\ Len(u) \in Nat
      /\ p + Len(u) \in Nat /\ Has(file, p + Len(u), w) /\ Len(w) \in Nat
      /\ p + Len(u \o w) = (p + Len(u)) + Len(w)
  BY <1>2, HasJoined
<1>. QED
  BY <1>1, <1>2, <1>3 DEF Past

\* A field is as long as it says, its value in the first byte.
LEMMA Fields ==
  ASSUME NEW n \in Nat, NEW v
  PROVE  /\ IsSequence(Field(n, v)) /\ Len(Field(n, v)) = n
         /\ n # 0 => Field(n, v)[1] = [n |-> n, v |-> v]
<1> DEFINE S == {[n |-> n, v |-> v], [n |-> 0]}
           C(i) == IF i = 1 THEN [n |-> n, v |-> v] ELSE [n |-> 0]
<1>1. \A i \in 1..n : C(i) \in S
  OBVIOUS
<1>2. Field(n, v) = [i \in 1..n |-> C(i)]
  BY DEF Field
<1>3. C(1) = [n |-> n, v |-> v]
  OBVIOUS
<1> HIDE DEF C, S
<1>4. Field(n, v) \in Seq(S) /\ Len(Field(n, v)) = n
  BY <1>1, <1>2
<1>5. n # 0 => Field(n, v)[1] = [n |-> n, v |-> v]
  BY <1>2, <1>3
<1>. QED
  BY <1>4, <1>5 DEF IsSequence

\* A field is read whole or not at all.
LEMMA FieldRead ==
  ASSUME NEW file, Len(file) \in Nat, NEW n \in Nat \ {0}, NEW v, NEW p, Has(file, p, Field(n, v))
  PROVE  p \in Nat /\ p + n \in Nat /\ Yields(file, Read(file, p, n), v, p + n)
<1>1. Len(Field(n, v)) = n /\ Field(n, v)[1] = [n |-> n, v |-> v]
  BY Fields
<1>2. p \in Nat /\ p # Bad
  BY DEF Has, Bad
<1>3. CASE p + n <= Len(file)
  <2>1. 1 \in 1..n /\ p + 1 <= Len(file) /\ n <= Len(file) - p
    BY <1>2, <1>3
  <2>2. file[p + 1] = [n |-> n, v |-> v]
    BY <1>1, <2>1 DEF Has
  <2>3. Read(file, p, n) = [v |-> file[p + 1].v, p |-> p + n]
    BY <1>2, <2>1, <2>2 DEF Read
  <2>. QED
    BY <1>2, <1>3, <2>2, <2>3 DEF Yields
<1>4. CASE ~(p + n <= Len(file))
  <2>1. ~(n <= Len(file) - p)
    BY <1>2, <1>4
  <2>. QED
    BY <1>2, <1>4, <2>1 DEF Yields, Read
<1>. QED
  BY <1>3, <1>4

\* After a read that failed none succeeds.
LEMMA ReadsNothing ==
  ASSUME NEW file, NEW n
  PROVE  Read(file, Bad, n) = [v |-> 0, p |-> Bad]
BY DEF Read

\* A string's bytes.
LEMMA StringSeq ==
  ASSUME NEW s, IsString(s)
  PROVE  /\ IsSequence(WriteString(s)) /\ Len(WriteString(s)) = 8 + s.len
         /\ s.len \in Nat /\ IsSequence(Field(8, s.len)) /\ IsSequence(Field(s.len, s.text))
         /\ Len(Field(8, s.len)) = 8 /\ Len(Field(s.len, s.text)) = s.len
<1>1. s.len \in Nat
  BY DEF IsString
<1>2. /\ IsSequence(Field(8, s.len)) /\ IsSequence(Field(s.len, s.text))
      /\ Len(Field(8, s.len)) = 8 /\ Len(Field(s.len, s.text)) = s.len
  BY <1>1, Fields
<1> DEFINE u == Field(8, s.len)  w == Field(s.len, s.text)
<1>3. IsSequence(u \o w) /\ Len(u \o w) = Len(u) + Len(w)
  BY <1>2, Joins
<1>4. WriteString(s) = u \o w
  BY DEF WriteString
<1> HIDE DEF u, w
<1>5. IsSequence(WriteString(s)) /\ Len(WriteString(s)) = 8 + s.len
  BY <1>2, <1>3, <1>4 DEF u, w
<1>. QED
  BY <1>1, <1>2, <1>5

\* A string is read whole or not at all.
LEMMA StringRead ==
  ASSUME NEW file, Len(file) \in Nat, NEW s, IsString(s), NEW p, Has(file, p, WriteString(s))
  PROVE  /\ p \in Nat /\ p + Len(WriteString(s)) \in Nat
         /\ Yields(file, ReadString(file, p), s.text, p + Len(WriteString(s)))
<1> DEFINE l == s.len  q == p + 8  len == Read(file, p, 8)
<1>1. /\ l \in Nat /\ Len(WriteString(s)) = 8 + l /\ (l = 0 => s.text = "")
  BY StringSeq DEF IsString
<1>2. p \in Nat /\ Has(file, p, Field(8, l)) /\ Has(file, q, Field(l, s.text))
  BY StringSeq, HasJoined DEF WriteString
<1>3. q \in Nat /\ Yields(file, len, l, q)
  BY <1>2, FieldRead
<1>4. ReadString(file, p) = IF len.p # Bad /\ len.v = 0 THEN [v |-> "", p |-> len.p]
                            ELSE Read(file, len.p, len.v)
  BY DEF ReadString
<1> HIDE DEF l, len
<1>5. p + (8 + l) = q + l /\ q + l \in Nat /\ q # Bad
  <2>1. l \in Nat /\ p \in Nat
    BY <1>1, <1>2
  <2>. QED
    BY <2>1 DEF Bad
<1> HIDE DEF q
<1>6. CASE q <= Len(file)
  <2>1. len = [v |-> l, p |-> q]
    BY <1>3, <1>6 DEF Yields
  <2>2. CASE l = 0
    <3>1. ReadString(file, p) = [v |-> s.text, p |-> q]
      BY <1>1, <1>4, <1>5, <2>1, <2>2
    <3>2. q + l = q /\ q + l \in Nat
      BY <1>3, <2>2
    <3>. QED
      BY <1>1, <1>2, <1>5, <1>6, <3>1, <3>2 DEF Yields
  <2>3. CASE l # 0
    <3>1. Yields(file, Read(file, q, l), s.text, q + l)
      BY <1>1, <1>2, <2>3, FieldRead
    <3>2. ReadString(file, p) = Read(file, q, l)
      BY <1>4, <1>5, <2>1, <2>3
    <3>. QED
      BY <1>1, <1>2, <1>5, <3>1, <3>2
  <2>. QED
    BY <2>2, <2>3
<1>7. CASE ~(q <= Len(file))
  <2>1. len.p = Bad
    BY <1>3, <1>7 DEF Yields
  <2>2. ReadString(file, p).p = Bad
    BY <1>4, <2>1, ReadsNothing
  <2>3. ~(q + l <= Len(file))
    <3>1. l \in Nat /\ q \in Nat
      BY <1>1, <1>3
    <3>. QED
      BY <1>7, <3>1
  <2>. QED
    BY <1>1, <1>2, <1>5, <2>2, <2>3 DEF Yields
<1>. QED
  BY <1>6, <1>7

\* After a read that failed none succeeds.
LEMMA NoString ==
  ASSUME NEW file
  PROVE  ReadString(file, Bad).p = Bad
<1> DEFINE len == Read(file, Bad, 8)
<1>1. len.p = Bad
  BY ReadsNothing
<1>2. ReadString(file, Bad) = IF len.p # Bad /\ len.v = 0 THEN [v |-> "", p |-> len.p]
                              ELSE Read(file, len.p, len.v)
  BY DEF ReadString
<1> HIDE DEF len
<1>3. ReadString(file, Bad) = Read(file, Bad, len.v)
  BY <1>1, <1>2
<1>. QED
  BY <1>3, ReadsNothing

-----------------------------------------------------------------------------
(* Parts of a file one after the other.                                     *)

\* n sequences.
IsParts(s, n) == s = [i \in 1..n |-> s[i]] /\ \A i \in 1..n : IsSequence(s[i])

\* Parts of any kind, and their beginnings, one after the other.
LEMMA PartsInRow ==
  ASSUME NEW n \in Nat, NEW s, IsParts(s, n)
  PROVE  \E f : /\ f[0] = <<>> /\ \A i \in 1..n : f[i] = f[i - 1] \o s[i]
                /\ \A i \in 0..n : IsSequence(f[i])
                /\ \A i \in 0..n : FlattenSeq([j \in 1..i |-> s[j]]) = f[i]
                /\ FlattenSeq(s) = f[n]
<1> DEFINE Letters(i) == {s[i][j] : j \in DOMAIN s[i]}
           U == UNION {Letters(i) : i \in 1..n}
<1>1. ASSUME NEW i \in 1..n PROVE s[i] \in Seq(U)
  <2>1. PICK D : s[i] \in Seq(D)
    BY DEF IsSequence, IsParts
  <2>2. s[i] \in Seq(Letters(i))
    BY <2>1
  <2>3. Letters(i) \subseteq U
    OBVIOUS
  <2> HIDE DEF Letters, U
  <2>. QED
    BY <2>2, <2>3
<1> HIDE DEF U
<1>2. s \in Seq(Seq(U)) /\ Len(s) = n
  <2>1. s = [i \in 1..n |-> s[i]]
    BY DEF IsParts
  <2>. QED
    BY <1>1, <2>1
<1>3. PICK f : /\ f[0] = <<>> /\ \A i \in 1..n : f[i] = f[i - 1] \o s[i]
               /\ FlattenSeq(s) = f[n] /\ \A i \in 0..n : f[i] \in Seq(U)
  BY <1>2, Flattens
<1>4. ASSUME NEW k \in 0..n PROVE FlattenSeq([j \in 1..k |-> s[j]]) = f[k]
  <2> DEFINE t == [j \in 1..k |-> s[j]]
  <2>1. t \in Seq(Seq(U)) /\ Len(t) = k
    BY <1>1
  <2>2. \A i \in 1..k : i \in 1..n /\ t[i] = s[i]
    OBVIOUS
  <2> HIDE DEF t
  <2>3. \A i \in 1..Len(t) : f[i] = f[i - 1] \o t[i]
    BY <1>3, <2>1, <2>2
  <2>4. FlattenSeq(t) = f[Len(t)]
    BY <1>3, <2>1, <2>3, FlattenIs
  <2>. QED
    BY <2>1, <2>4 DEF t
<1>5. \A i \in 0..n : IsSequence(f[i])
  BY <1>3 DEF IsSequence
<1>. QED
  BY <1>3, <1>4, <1>5

\* The parts of s stand one after the other from p on, part i up to P[i], as
\* far as the file goes.
Laid(P, file, p, s, n) ==
  /\ P[0] = p /\ P[n] = p + Len(FlattenSeq(s)) /\ \A i \in 0..n : P[i] \in Nat
  /\ \A i \in 0..n : P[i] = p + Len(FlattenSeq([j \in 1..i |-> s[j]]))
  /\ \A i \in 1..n : /\ P[i] = P[i - 1] + Len(s[i]) /\ Len(s[i]) \in Nat
                     /\ Has(file, P[i - 1], s[i])

\* Parts that stand in a row stand at the sums of their lengths.
LEMMA HasParts ==
  ASSUME NEW file, NEW p, NEW n \in Nat, NEW s, IsParts(s, n), Has(file, p, FlattenSeq(s))
  PROVE  \E P : Laid(P, file, p, s, n)
<1>1. PICK f : /\ f[0] = <<>> /\ \A i \in 1..n : f[i] = f[i - 1] \o s[i]
               /\ \A i \in 0..n : IsSequence(f[i])
               /\ \A i \in 0..n : FlattenSeq([j \in 1..i |-> s[j]]) = f[i]
               /\ FlattenSeq(s) = f[n]
  BY PartsInRow
<1>0. \A i \in 1..n : IsSequence(s[i])
  BY DEF IsParts
<1> DEFINE K == {k \in Nat : k <= n => Has(file, p, f[n - k])}
<1>2. 0 \in K
  BY <1>1
<1>3. ASSUME NEW i \in 1..n, Has(file, p, f[i])
      PROVE  Has(file, p, f[i - 1]) /\ Has(file, p + Len(f[i - 1]), s[i])
  <2>0. i - 1 \in 0..n
    OBVIOUS
  <2>1. IsSequence(f[i - 1]) /\ IsSequence(s[i]) /\ f[i] = f[i - 1] \o s[i]
    BY <1>0, <1>1, <2>0
  <2>. QED
    BY <1>3, <2>1, HasJoined
<1>4. ASSUME NEW k \in K PROVE k + 1 \in K
  <2>1. ASSUME k + 1 <= n PROVE Has(file, p, f[n - (k + 1)])
    <3>1. n - k \in 1..n /\ (n - k) - 1 = n - (k + 1) /\ k <= n
      BY <2>1
    <3>. QED
      BY <1>3, <3>1
  <2>. QED
    BY <2>1
<1>5. K = Nat
  <2>1. K \in SUBSET Nat
    OBVIOUS
  <2> HIDE DEF K
  <2>. QED
    BY <1>2, <1>4, <2>1, EveryNumber
<1>6. ASSUME NEW i \in 0..n PROVE Has(file, p, f[i])
  <2>1. n - i \in Nat /\ n - i <= n /\ n - (n - i) = i
    OBVIOUS
  <2>2. n - i \in K
    BY <1>5, <2>1
  <2>. QED
    BY <2>1, <2>2
<1> DEFINE P == [i \in 0..n |-> p + Len(f[i])]
<1>7. \A i \in 0..n : P[i] = p + Len(f[i])
  OBVIOUS
<1>8. p \in Nat
  BY DEF Has
<1> HIDE DEF K, P
<1>9. ASSUME NEW i \in 0..n PROVE Len(f[i]) \in Nat
  BY <1>1, Joins
<1>10. Len(f[0]) = 0
  BY <1>1
<1>11. ASSUME NEW i \in 1..n
       PROVE  /\ P[i] = P[i - 1] + Len(s[i]) /\ Len(s[i]) \in Nat /\ Has(file, P[i - 1], s[i])
  <2>1. i - 1 \in 0..n /\ i \in 0..n
    OBVIOUS
  <2>2. Len(f[i]) = Len(f[i - 1]) + Len(s[i]) /\ Len(s[i]) \in Nat /\ Len(f[i - 1]) \in Nat
    <3>1. IsSequence(f[i - 1]) /\ IsSequence(s[i]) /\ f[i] = f[i - 1] \o s[i]
      BY <1>0, <1>1, <2>1
    <3>. QED
      BY <3>1, Joins
  <2>3. Has(file, p + Len(f[i - 1]), s[i])
    BY <1>3, <1>6, <2>1
  <2>4. P[i] = p + Len(f[i]) /\ P[i - 1] = p + Len(f[i - 1])
    BY <1>7, <2>1
  <2> DEFINE a == Len(f[i - 1])  b == Len(f[i])  c == Len(s[i])
  <2> HIDE DEF a, b, c
  <2>5. b = a + c /\ a \in Nat /\ c \in Nat
    BY <2>2 DEF a, b, c
  <2>6. P[i] = p + b /\ P[i - 1] = p + a
    BY <2>4 DEF a, b
  <2>7. P[i] = P[i - 1] + c
    BY <1>8, <2>5, <2>6
  <2>. QED
    BY <2>2, <2>3, <2>4, <2>7 DEF c
<1>12. \A i \in 0..n : P[i] \in Nat /\ P[i] = p + Len(FlattenSeq([j \in 1..i |-> s[j]]))
  <2>1. \A i \in 0..n : P[i] \in Nat /\ P[i] = p + Len(f[i])
    BY <1>7, <1>8, <1>9
  <2>. QED
    BY <1>1, <2>1
<1>13. P[0] = p /\ P[n] = p + Len(FlattenSeq(s))
  BY <1>1, <1>7, <1>8, <1>10
<1>. QED
  BY <1>11, <1>12, <1>13 DEF Laid

\* Parts in a row are a sequence.
LEMMA PartsSeq ==
  ASSUME NEW n \in Nat, NEW s, IsParts(s, n)
  PROVE  IsSequence(FlattenSeq(s)) /\ Len(FlattenSeq(s)) \in Nat
<1>1. PICK f : /\ f[0] = <<>> /\ \A i \in 1..n : f[i] = f[i - 1] \o s[i]
               /\ \A i \in 0..n : IsSequence(f[i])
               /\ \A i \in 0..n : FlattenSeq([j \in 1..i |-> s[j]]) = f[i]
               /\ FlattenSeq(s) = f[n]
  BY PartsInRow
<1>2. IsSequence(f[n])
  BY <1>1
<1>. QED
  BY <1>1, <1>2, Joins

\* Parts that each read at least d bytes, and what was read before each.
LEMMA PartsGrow ==
  ASSUME NEW n \in Nat, NEW P, NEW d \in Nat,
         \A i \in 0..n : P[i] \in Nat, \A i \in 1..n : P[i] >= P[i - 1] + d
  PROVE  /\ \A i \in 0..n : P[i] >= P[0] + i * d
         /\ \A i \in 0..n : P[i] <= P[n]
<1> DEFINE A == {k \in Nat : k <= n => P[k] >= P[0] + k * d}
           B == {k \in Nat : k <= n => P[n - k] <= P[n]}
<1>1. 0 \in A /\ 0 \in B
  OBVIOUS
<1>2. ASSUME NEW k \in A PROVE k + 1 \in A
  <2>1. ASSUME k + 1 <= n PROVE P[k + 1] >= P[0] + (k + 1) * d
    <3>1. k \in 0..n /\ k + 1 \in 1..n /\ (k + 1) - 1 = k /\ k + 1 \in 0..n /\ 0 \in 0..n
      BY <2>1
    <3>2. /\ P[k] \in Nat /\ P[k + 1] \in Nat /\ P[0] \in Nat
          /\ P[k + 1] >= P[k] + d /\ P[k] >= P[0] + k * d
      BY <3>1
    <3>3. (k + 1) * d = k * d + d /\ k * d \in Nat
      BY <3>1
    <3>. QED
      BY <3>2, <3>3
  <2>. QED
    BY <2>1
<1>3. ASSUME NEW k \in B PROVE k + 1 \in B
  <2>1. ASSUME k + 1 <= n PROVE P[n - (k + 1)] <= P[n]
    <3> DEFINE a == n - (k + 1)
    <3>1. /\ n - k \in 1..n /\ n - k = a + 1 /\ a \in 0..n /\ k <= n /\ n \in 0..n /\ a + 1 \in 1..n
          /\ a + 1 \in 0..n /\ (a + 1) - 1 = a
      BY <2>1
    <3> HIDE DEF a
    <3>2. P[a + 1] <= P[n] /\ P[a + 1] >= P[a] + d
      BY <3>1
    <3>3. P[a] \in Nat /\ P[a + 1] \in Nat /\ P[n] \in Nat
      BY <3>1
    <3>. QED
      BY <3>2, <3>3 DEF a
  <2>. QED
    BY <2>1
<1>4. A = Nat /\ B = Nat
  <2>1. A \in SUBSET Nat /\ B \in SUBSET Nat
    OBVIOUS
  <2> HIDE DEF A, B
  <2>. QED
    BY <1>1, <1>2, <1>3, <2>1, EveryNumber
<1>5. \A i \in 0..n : P[i] >= P[0] + i * d
  <2>1. \A i \in 0..n : i \in A
    BY <1>4
  <2>. QED
    BY <2>1
<1>6. ASSUME NEW i \in 0..n PROVE P[i] <= P[n]
  <2>1. n - i \in Nat /\ n - i <= n /\ n - (n - i) = i
    OBVIOUS
  <2>2. n - i \in B
    BY <1>4, <2>1
  <2>. QED
    BY <2>1, <2>2
<1>. QED
  BY <1>5, <1>6

-----------------------------------------------------------------------------
(* Reads one after the other.                                               *)

\* Reads one after the other: item i is y[i], and G[i] is where it ended.
Row(y, G, n) == [k \in 0..n |-> [v |-> [i \in 1..k |-> y[i].v], p |-> G[k]]]

\* Each item appends its value.
LEMMA RowGrows ==
  ASSUME NEW n \in Nat, NEW y, NEW G, \A i \in 1..n : y[i].p = G[i]
  PROVE  /\ Row(y, G, n)[0] = [v |-> <<>>, p |-> G[0]]
         /\ \A k \in 1..n :
              /\ Row(y, G, n)[k - 1].p = G[k - 1]
              /\ Row(y, G, n)[k] = [v |-> Append(Row(y, G, n)[k - 1].v, y[k].v), p |-> y[k].p]
<1> DEFINE g == Row(y, G, n)
<1> DEFINE V(k) == [i \in 1..k |-> y[i].v]  S == {y[i].v : i \in 1..n}
<1>1. \A k \in 0..n : g[k] = [v |-> V(k), p |-> G[k]]
  BY DEF Row
<1> HIDE DEF g
<1>2. ASSUME NEW k \in 1..n PROVE V(k) = Append(V(k - 1), y[k].v)
  <2>1. \A i \in 1..n : y[i].v \in S
    OBVIOUS
  <2> HIDE DEF S
  <2>2. V(k - 1) \in Seq(S) /\ Len(V(k - 1)) = k - 1 /\ V(k) \in Seq(S) /\ Len(V(k)) = k
    BY <2>1
  <2>3. y[k].v \in S
    BY <2>1
  <2> DEFINE a == V(k - 1)  b == V(k)  z == y[k].v
  <2>4. \A i \in 1..(k - 1) : a[i] = b[i]
    OBVIOUS
  <2>5. b[k] = z
    OBVIOUS
  <2> HIDE DEF V, a, b, z
  <2>6. b = Append(a, z)
    BY <2>2, <2>3, <2>4, <2>5 DEF a, b, z
  <2>. QED
    BY <2>6 DEF a, b, z
<1>3. V(0) = <<>>
  OBVIOUS
<1> HIDE DEF V, S
<1>5. \A k \in 1..n : k \in 0..n /\ k - 1 \in 0..n
  OBVIOUS
<1>6. ASSUME NEW k \in 1..n
      PROVE  g[k - 1].p = G[k - 1] /\ g[k] = [v |-> Append(g[k - 1].v, y[k].v), p |-> y[k].p]
  <2>1. g[k] = [v |-> V(k), p |-> G[k]] /\ g[k - 1] = [v |-> V(k - 1), p |-> G[k - 1]]
    BY <1>1, <1>5
  <2> DEFINE a == V(k - 1)  b == V(k)  before == g[k - 1]  now == g[k]  z == y[k]
  <2>2. b = Append(a, z.v) /\ z.p = G[k]
    BY <1>2
  <2>3. now = [v |-> b, p |-> G[k]] /\ before = [v |-> a, p |-> G[k - 1]]
    BY <2>1
  <2> HIDE DEF a, b, before, now, z
  <2>4. before.p = G[k - 1] /\ now = [v |-> Append(before.v, z.v), p |-> z.p]
    BY <2>2, <2>3
  <2>. QED
    BY <2>4 DEF before, now, z
<1>7. 0 \in 0..n
  OBVIOUS
<1>. QED
  BY <1>1, <1>3, <1>6, <1>7 DEF g

\* Functions that agree at 0 and in every step agree.
LEMMA SameSteps ==
  ASSUME NEW n \in Nat, NEW c, NEW g, c[0] = g[0],
         \A k \in 1..n : c[k - 1] = g[k - 1] => c[k] = g[k]
  PROVE  c[n] = g[n]
<1> DEFINE K == {k \in Nat : k <= n => c[k] = g[k]}
<1>1. 0 \in K
  OBVIOUS
<1>2. ASSUME NEW k \in K PROVE k + 1 \in K
  <2>1. ASSUME k + 1 <= n PROVE c[k + 1] = g[k + 1]
    <3>1. k + 1 \in 1..n /\ (k + 1) - 1 = k /\ k <= n
      BY <2>1
    <3>. QED
      BY <3>1
  <2>. QED
    BY <2>1
<1>3. K = Nat
  <2>1. K \in SUBSET Nat
    OBVIOUS
  <2> HIDE DEF K
  <2>. QED
    BY <1>1, <1>2, <2>1, EveryNumber
<1>4. n \in K
  BY <1>3
<1>. QED
  BY <1>4

\* The function of ReadAll, for each of the reads it is used with.
PairUpTo(f, file, p, k) ==
  IF k = 0 THEN [v |-> <<>>, p |-> p]
  ELSE [v |-> Append(f[k - 1].v, ReadPair(file, f[k - 1].p).v), p |-> ReadPair(file, f[k - 1].p).p]
PairsUpTo(f, file, p, n) == f = [k \in 0..n |-> PairUpTo(f, file, p, k)]

PairsEnd(file, G, p, n) ==
  G[0] = p /\ \A i \in 1..n : ReadPair(file, G[i - 1]).p = G[i]
PairsAt(file, G, n) == [i \in 1..n |-> ReadPair(file, G[i - 1]).v]

\* What n reads of keys give.
LEMMA PairsInARow ==
  ASSUME NEW file, NEW n \in Nat, NEW p, NEW G, PairsEnd(file, G, p, n)
  PROVE  ReadAll(file, p, n, ReadPair)
           = [v |-> PairsAt(file, G, n), p |-> G[n]]
<1> DEFINE y == [i \in 1..n |-> ReadPair(file, G[i - 1])]
           g == Row(y, G, n)
           c == CHOOSE f : PairsUpTo(f, file, p, n)
<1>1. ReadAll(file, p, n, ReadPair) = c[n]
  BY DEF ReadAll, PairsUpTo, PairUpTo
<1>2. \A i \in 1..n : y[i] = ReadPair(file, G[i - 1])
  OBVIOUS
<1>3. g[n] = [v |-> [i \in 1..n |-> ReadPair(file, G[i - 1]).v], p |-> G[n]]
  <2>1. n \in 0..n
    OBVIOUS
  <2>2. [i \in 1..n |-> y[i].v] = [i \in 1..n |-> ReadPair(file, G[i - 1]).v]
    BY <1>2
  <2> HIDE DEF y
  <2>3. g[n] = [v |-> [i \in 1..n |-> y[i].v], p |-> G[n]]
    BY <2>1 DEF Row
  <2>. QED
    BY <2>2, <2>3
<1> HIDE DEF y, g, c
<1>4. /\ g[0] = [v |-> <<>>, p |-> G[0]]
      /\ \A k \in 1..n : /\ g[k - 1].p = G[k - 1]
                         /\ g[k] = [v |-> Append(g[k - 1].v, y[k].v), p |-> y[k].p]
  <2>1. \A i \in 1..n : y[i].p = G[i]
    BY <1>2 DEF PairsEnd
  <2>. QED
    BY <2>1, RowGrows DEF g
<1>0. g = [k \in 0..n |-> g[k]]
  BY DEF g, Row
<1>5. \A k \in 0..n : k = 0 \/ k \in 1..n
  OBVIOUS
<1>6. ASSUME NEW k \in 0..n PROVE g[k] = PairUpTo(g, file, p, k)
  <2>1. CASE k = 0
    BY <1>4, <2>1 DEF PairsEnd, PairUpTo
  <2>2. CASE k \in 1..n
    <3>0. k # 0 /\ y[k] = ReadPair(file, G[k - 1])
      BY <1>2, <2>2
    <3>2. g[k - 1].p = G[k - 1]
      BY <1>4, <2>2
    <3>1. k # 0 /\ y[k] = ReadPair(file, g[k - 1].p)
      BY <3>0, <3>2
    <3>. QED
      BY <1>4, <2>2, <3>1 DEF PairUpTo
  <2>. QED
    BY <1>5, <2>1, <2>2
<1>7. PairsUpTo(g, file, p, n)
  BY <1>0, <1>6 DEF PairsUpTo
<1>8. PairsUpTo(c, file, p, n)
  BY <1>7 DEF c
<1>9. /\ \A k \in 0..n : c[k] = PairUpTo(c, file, p, k)
      /\ 0 \in 0..n /\ \A k \in 1..n : k \in 0..n /\ k # 0
  BY <1>8 DEF PairsUpTo
<1>10. ASSUME NEW k \in 1..n, c[k - 1] = g[k - 1] PROVE c[k] = g[k]
  BY <1>6, <1>9, <1>10 DEF PairUpTo
<1>11. c[0] = g[0]
  BY <1>6, <1>9 DEF PairUpTo
<1>12. c[n] = g[n]
  BY <1>10, <1>11, SameSteps
<1>. QED
  BY <1>1, <1>3, <1>12 DEF PairsAt

\* The same of scalars of one type.
ReadScalars(file, p, n, type) ==
  LET One(f, q) == ReadScalar(f, q, type) IN ReadAll(file, p, n, One)

ScalarUpTo(f, file, p, type, k) ==
  IF k = 0 THEN [v |-> <<>>, p |-> p]
  ELSE [v |-> Append(f[k - 1].v, ReadScalar(file, f[k - 1].p, type).v), p |-> ReadScalar(file, f[k - 1].p, type).p]
ScalarsUpTo(f, file, p, type, n) == f = [k \in 0..n |-> ScalarUpTo(f, file, p, type, k)]

ScalarsEnd(file, G, p, type, n) ==
  G[0] = p /\ \A i \in 1..n : ReadScalar(file, G[i - 1], type).p = G[i]
ScalarsAt(file, G, type, n) == [i \in 1..n |-> ReadScalar(file, G[i - 1], type).v]

\* What n reads of scalars give.
LEMMA ScalarsInARow ==
  ASSUME NEW file, NEW type, NEW n \in Nat, NEW p, NEW G, ScalarsEnd(file, G, p, type, n)
  PROVE  ReadScalars(file, p, n, type)
           = [v |-> ScalarsAt(file, G, type, n), p |-> G[n]]
<1> DEFINE y == [i \in 1..n |-> ReadScalar(file, G[i - 1], type)]
           g == Row(y, G, n)
           c == CHOOSE f : ScalarsUpTo(f, file, p, type, n)
<1>1. ReadScalars(file, p, n, type) = c[n]
  BY DEF ReadAll, ReadScalars, ScalarsUpTo, ScalarUpTo
<1>2. \A i \in 1..n : y[i] = ReadScalar(file, G[i - 1], type)
  OBVIOUS
<1>3. g[n] = [v |-> [i \in 1..n |-> ReadScalar(file, G[i - 1], type).v], p |-> G[n]]
  <2>1. n \in 0..n
    OBVIOUS
  <2>2. [i \in 1..n |-> y[i].v] = [i \in 1..n |-> ReadScalar(file, G[i - 1], type).v]
    BY <1>2
  <2> HIDE DEF y
  <2>3. g[n] = [v |-> [i \in 1..n |-> y[i].v], p |-> G[n]]
    BY <2>1 DEF Row
  <2>. QED
    BY <2>2, <2>3
<1> HIDE DEF y, g, c
<1>4. /\ g[0] = [v |-> <<>>, p |-> G[0]]
      /\ \A k \in 1..n : /\ g[k - 1].p = G[k - 1]
                         /\ g[k] = [v |-> Append(g[k - 1].v, y[k].v), p |-> y[k].p]
  <2>1. \A i \in 1..n : y[i].p = G[i]
    BY <1>2 DEF ScalarsEnd
  <2>. QED
    BY <2>1, RowGrows DEF g
<1>0. g = [k \in 0..n |-> g[k]]
  BY DEF g, Row
<1>5. \A k \in 0..n : k = 0 \/ k \in 1..n
  OBVIOUS
<1>6. ASSUME NEW k \in 0..n PROVE g[k] = ScalarUpTo(g, file, p, type, k)
  <2>1. CASE k = 0
    BY <1>4, <2>1 DEF ScalarsEnd, ScalarUpTo
  <2>2. CASE k \in 1..n
    <3>0. k # 0 /\ y[k] = ReadScalar(file, G[k - 1], type)
      BY <1>2, <2>2
    <3>2. g[k - 1].p = G[k - 1]
      BY <1>4, <2>2
    <3>1. k # 0 /\ y[k] = ReadScalar(file, g[k - 1].p, type)
      BY <3>0, <3>2
    <3>. QED
      BY <1>4, <2>2, <3>1 DEF ScalarUpTo
  <2>. QED
    BY <1>5, <2>1, <2>2
<1>7. ScalarsUpTo(g, file, p, type, n)
  BY <1>0, <1>6 DEF ScalarsUpTo
<1>8. ScalarsUpTo(c, file, p, type, n)
  BY <1>7 DEF c
<1>9. /\ \A k \in 0..n : c[k] = ScalarUpTo(c, file, p, type, k)
      /\ 0 \in 0..n /\ \A k \in 1..n : k \in 0..n /\ k # 0
  BY <1>8 DEF ScalarsUpTo
<1>10. ASSUME NEW k \in 1..n, c[k - 1] = g[k - 1] PROVE c[k] = g[k]
  BY <1>6, <1>9, <1>10 DEF ScalarUpTo
<1>11. c[0] = g[0]
  BY <1>6, <1>9 DEF ScalarUpTo
<1>12. c[n] = g[n]
  BY <1>10, <1>11, SameSteps
<1>. QED
  BY <1>1, <1>3, <1>12 DEF ScalarsAt

\* The same of dimensions.
DimUpTo(f, file, p, k) ==
  IF k = 0 THEN [v |-> <<>>, p |-> p]
  ELSE [v |-> Append(f[k - 1].v, ReadDim(file, f[k - 1].p).v), p |-> ReadDim(file, f[k - 1].p).p]
DimsUpTo(f, file, p, n) == f = [k \in 0..n |-> DimUpTo(f, file, p, k)]

DimsEnd(file, G, p, n) ==
  G[0] = p /\ \A i \in 1..n : ReadDim(file, G[i - 1]).p = G[i]
DimsAt(file, G, n) == [i \in 1..n |-> ReadDim(file, G[i - 1]).v]

\* What n reads of dimensions give.
LEMMA DimsInARow ==
  ASSUME NEW file, NEW n \in Nat, NEW p, NEW G, DimsEnd(file, G, p, n)
  PROVE  ReadAll(file, p, n, ReadDim)
           = [v |-> DimsAt(file, G, n), p |-> G[n]]
<1> DEFINE y == [i \in 1..n |-> ReadDim(file, G[i - 1])]
           g == Row(y, G, n)
           c == CHOOSE f : DimsUpTo(f, file, p, n)
<1>1. ReadAll(file, p, n, ReadDim) = c[n]
  BY DEF ReadAll, DimsUpTo, DimUpTo
<1>2. \A i \in 1..n : y[i] = ReadDim(file, G[i - 1])
  OBVIOUS
<1>3. g[n] = [v |-> [i \in 1..n |-> ReadDim(file, G[i - 1]).v], p |-> G[n]]
  <2>1. n \in 0..n
    OBVIOUS
  <2>2. [i \in 1..n |-> y[i].v] = [i \in 1..n |-> ReadDim(file, G[i - 1]).v]
    BY <1>2
  <2> HIDE DEF y
  <2>3. g[n] = [v |-> [i \in 1..n |-> y[i].v], p |-> G[n]]
    BY <2>1 DEF Row
  <2>. QED
    BY <2>2, <2>3
<1> HIDE DEF y, g, c
<1>4. /\ g[0] = [v |-> <<>>, p |-> G[0]]
      /\ \A k \in 1..n : /\ g[k - 1].p = G[k - 1]
                         /\ g[k] = [v |-> Append(g[k - 1].v, y[k].v), p |-> y[k].p]
  <2>1. \A i \in 1..n : y[i].p = G[i]
    BY <1>2 DEF DimsEnd
  <2>. QED
    BY <2>1, RowGrows DEF g
<1>0. g = [k \in 0..n |-> g[k]]
  BY DEF g, Row
<1>5. \A k \in 0..n : k = 0 \/ k \in 1..n
  OBVIOUS
<1>6. ASSUME NEW k \in 0..n PROVE g[k] = DimUpTo(g, file, p, k)
  <2>1. CASE k = 0
    BY <1>4, <2>1 DEF DimsEnd, DimUpTo
  <2>2. CASE k \in 1..n
    <3>0. k # 0 /\ y[k] = ReadDim(file, G[k - 1])
      BY <1>2, <2>2
    <3>2. g[k - 1].p = G[k - 1]
      BY <1>4, <2>2
    <3>1. k # 0 /\ y[k] = ReadDim(file, g[k - 1].p)
      BY <3>0, <3>2
    <3>. QED
      BY <1>4, <2>2, <3>1 DEF DimUpTo
  <2>. QED
    BY <1>5, <2>1, <2>2
<1>7. DimsUpTo(g, file, p, n)
  BY <1>0, <1>6 DEF DimsUpTo
<1>8. DimsUpTo(c, file, p, n)
  BY <1>7 DEF c
<1>9. /\ \A k \in 0..n : c[k] = DimUpTo(c, file, p, k)
      /\ 0 \in 0..n /\ \A k \in 1..n : k \in 0..n /\ k # 0
  BY <1>8 DEF DimsUpTo
<1>10. ASSUME NEW k \in 1..n, c[k - 1] = g[k - 1] PROVE c[k] = g[k]
  BY <1>6, <1>9, <1>10 DEF DimUpTo
<1>11. c[0] = g[0]
  BY <1>6, <1>9 DEF DimUpTo
<1>12. c[n] = g[n]
  BY <1>10, <1>11, SameSteps
<1>. QED
  BY <1>1, <1>3, <1>12 DEF DimsAt

\* The same of descriptors.
TensorUpTo(f, file, p, k) ==
  IF k = 0 THEN [v |-> <<>>, p |-> p]
  ELSE [v |-> Append(f[k - 1].v, ReadTensor(file, f[k - 1].p).v), p |-> ReadTensor(file, f[k - 1].p).p]
TensorsUpTo(f, file, p, n) == f = [k \in 0..n |-> TensorUpTo(f, file, p, k)]

TensorsEnd(file, G, p, n) ==
  G[0] = p /\ \A i \in 1..n : ReadTensor(file, G[i - 1]).p = G[i]
TensorsAt(file, G, n) == [i \in 1..n |-> ReadTensor(file, G[i - 1]).v]

\* What n reads of descriptors give.
LEMMA TensorsInARow ==
  ASSUME NEW file, NEW n \in Nat, NEW p, NEW G, TensorsEnd(file, G, p, n)
  PROVE  ReadAll(file, p, n, ReadTensor)
           = [v |-> TensorsAt(file, G, n), p |-> G[n]]
<1> DEFINE y == [i \in 1..n |-> ReadTensor(file, G[i - 1])]
           g == Row(y, G, n)
           c == CHOOSE f : TensorsUpTo(f, file, p, n)
<1>1. ReadAll(file, p, n, ReadTensor) = c[n]
  BY DEF ReadAll, TensorsUpTo, TensorUpTo
<1>2. \A i \in 1..n : y[i] = ReadTensor(file, G[i - 1])
  OBVIOUS
<1>3. g[n] = [v |-> [i \in 1..n |-> ReadTensor(file, G[i - 1]).v], p |-> G[n]]
  <2>1. n \in 0..n
    OBVIOUS
  <2>2. [i \in 1..n |-> y[i].v] = [i \in 1..n |-> ReadTensor(file, G[i - 1]).v]
    BY <1>2
  <2> HIDE DEF y
  <2>3. g[n] = [v |-> [i \in 1..n |-> y[i].v], p |-> G[n]]
    BY <2>1 DEF Row
  <2>. QED
    BY <2>2, <2>3
<1> HIDE DEF y, g, c
<1>4. /\ g[0] = [v |-> <<>>, p |-> G[0]]
      /\ \A k \in 1..n : /\ g[k - 1].p = G[k - 1]
                         /\ g[k] = [v |-> Append(g[k - 1].v, y[k].v), p |-> y[k].p]
  <2>1. \A i \in 1..n : y[i].p = G[i]
    BY <1>2 DEF TensorsEnd
  <2>. QED
    BY <2>1, RowGrows DEF g
<1>0. g = [k \in 0..n |-> g[k]]
  BY DEF g, Row
<1>5. \A k \in 0..n : k = 0 \/ k \in 1..n
  OBVIOUS
<1>6. ASSUME NEW k \in 0..n PROVE g[k] = TensorUpTo(g, file, p, k)
  <2>1. CASE k = 0
    BY <1>4, <2>1 DEF TensorsEnd, TensorUpTo
  <2>2. CASE k \in 1..n
    <3>0. k # 0 /\ y[k] = ReadTensor(file, G[k - 1])
      BY <1>2, <2>2
    <3>2. g[k - 1].p = G[k - 1]
      BY <1>4, <2>2
    <3>1. k # 0 /\ y[k] = ReadTensor(file, g[k - 1].p)
      BY <3>0, <3>2
    <3>. QED
      BY <1>4, <2>2, <3>1 DEF TensorUpTo
  <2>. QED
    BY <1>5, <2>1, <2>2
<1>7. TensorsUpTo(g, file, p, n)
  BY <1>0, <1>6 DEF TensorsUpTo
<1>8. TensorsUpTo(c, file, p, n)
  BY <1>7 DEF c
<1>9. /\ \A k \in 0..n : c[k] = TensorUpTo(c, file, p, k)
      /\ 0 \in 0..n /\ \A k \in 1..n : k \in 0..n /\ k # 0
  BY <1>8 DEF TensorsUpTo
<1>10. ASSUME NEW k \in 1..n, c[k - 1] = g[k - 1] PROVE c[k] = g[k]
  BY <1>6, <1>9, <1>10 DEF TensorUpTo
<1>11. c[0] = g[0]
  BY <1>6, <1>9 DEF TensorUpTo
<1>12. c[n] = g[n]
  BY <1>10, <1>11, SameSteps
<1>. QED
  BY <1>1, <1>3, <1>12 DEF TensorsAt

-----------------------------------------------------------------------------
(* Scalars, arrays and keys.                                                *)

\* No scalar takes more than 8 bytes.
LEMMA ScalarSizes ==
  /\ \A t \in DOMAIN ScalarSize : ScalarSize[t] \in 1..8
  /\ "STRING" \notin DOMAIN ScalarSize /\ "ARRAY" \notin DOMAIN ScalarSize
<1>1. DOMAIN ScalarSize = {"U8", "I8", "BOOL", "U16", "I16", "U32", "I32", "F32", "U64", "I64", "F64"}
  BY DEF ScalarSize
<1>2. /\ ScalarSize["U8"] = 1 /\ ScalarSize["I8"] = 1 /\ ScalarSize["BOOL"] = 1
      /\ ScalarSize["U16"] = 2 /\ ScalarSize["I16"] = 2 /\ ScalarSize["U32"] = 4
      /\ ScalarSize["I32"] = 4 /\ ScalarSize["F32"] = 4 /\ ScalarSize["U64"] = 8
      /\ ScalarSize["I64"] = 8 /\ ScalarSize["F64"] = 8
  BY DEF ScalarSize
<1>3. ASSUME NEW t \in DOMAIN ScalarSize PROVE ScalarSize[t] \in 1..8
  BY <1>1, <1>2
<1>4. "STRING" \notin DOMAIN ScalarSize /\ "ARRAY" \notin DOMAIN ScalarSize
  BY <1>1
<1>. QED
  BY <1>3, <1>4

\* The bytes of an element at least, and its value as it is read.
LeastBytes(type) == IF type = "STRING" THEN 8 ELSE ScalarSize[type]
PlainScalar(type, v) == IF type = "STRING" THEN v.text ELSE v

\* A scalar's bytes, no fewer than its least.
LEMMA ScalarSeq ==
  ASSUME NEW type, NEW v, IsScalar(type, v)
  PROVE  /\ IsSequence(WriteScalar(type, v)) /\ Len(WriteScalar(type, v)) \in Nat
         /\ LeastBytes(type) \in 1..8 /\ Len(WriteScalar(type, v)) >= LeastBytes(type)
<1>1. CASE type = "STRING"
  <2>1. IsString(v) /\ WriteScalar(type, v) = WriteString(v) /\ LeastBytes(type) = 8
    BY <1>1 DEF IsScalar, WriteScalar, LeastBytes
  <2>2. IsSequence(WriteString(v)) /\ Len(WriteString(v)) = 8 + v.len /\ v.len \in Nat
    BY <2>1, StringSeq
  <2>. QED
    BY <2>1, <2>2
<1>2. CASE type # "STRING"
  <2>1. /\ type \in DOMAIN ScalarSize /\ WriteScalar(type, v) = Field(ScalarSize[type], v)
        /\ LeastBytes(type) = ScalarSize[type]
    BY <1>2 DEF IsScalar, WriteScalar, LeastBytes
  <2>2. ScalarSize[type] \in 1..8 /\ ScalarSize[type] \in Nat
    BY <2>1, ScalarSizes
  <2>3. IsSequence(Field(ScalarSize[type], v)) /\ Len(Field(ScalarSize[type], v)) = ScalarSize[type]
    BY <2>2, Fields
  <2>. QED
    BY <2>1, <2>2, <2>3
<1>. QED
  BY <1>1, <1>2

\* A scalar is read whole or not at all.
LEMMA ScalarRead ==
  ASSUME NEW file, Len(file) \in Nat, NEW type, type \notin NoCase, NEW v, IsScalar(type, v),
         NEW p, Has(file, p, WriteScalar(type, v))
  PROVE  /\ p \in Nat /\ p + Len(WriteScalar(type, v)) \in Nat
         /\ Yields(file, ReadScalar(file, p, type), PlainScalar(type, v),
                   p + Len(WriteScalar(type, v)))
<1>1. CASE type = "STRING"
  <2>1. /\ IsString(v) /\ WriteScalar(type, v) = WriteString(v) /\ PlainScalar(type, v) = v.text
        /\ ReadScalar(file, p, type) = ReadString(file, p)
    BY <1>1 DEF IsScalar, WriteScalar, PlainScalar, ReadScalar
  <2>. QED
    BY <2>1, StringRead
<1>2. CASE type # "STRING"
  <2> DEFINE n == ScalarSize[type]  x == Read(file, p, n)
  <2>1. /\ type \in DOMAIN ScalarSize /\ (type = "BOOL" => v \in {0, 1})
        /\ WriteScalar(type, v) = Field(n, v) /\ PlainScalar(type, v) = v
        /\ ReadScalar(file, p, type) =
             IF type = "BOOL" THEN [x EXCEPT !.v = IF @ = 0 THEN 0 ELSE 1] ELSE x
    BY <1>2 DEF IsScalar, WriteScalar, PlainScalar, ReadScalar
  <2>2. n \in Nat \ {0}
    BY <2>1, ScalarSizes
  <2> HIDE DEF n
  <2>3. p \in Nat /\ p + n \in Nat /\ Yields(file, x, v, p + n)
    BY <2>1, <2>2, FieldRead
  <2>4. n \in Nat /\ Len(Field(n, v)) = n
    BY <2>2, Fields
  <2> DEFINE y == [x EXCEPT !.v = IF @ = 0 THEN 0 ELSE 1]
  <2>5. x = [v |-> x.v, p |-> x.p]
    BY DEF Read
  <2>6. y.p = x.p /\ y.v = (IF x.v = 0 THEN 0 ELSE 1) /\ y = [v |-> y.v, p |-> y.p]
    BY <2>5
  <2> HIDE DEF x, y
  <2>7. type = "BOOL" => Yields(file, y, v, p + n)
    <3>1. SUFFICES ASSUME type = "BOOL" PROVE Yields(file, y, v, p + n)
      OBVIOUS
    <3>2. CASE p + n <= Len(file)
      <4>1. x.v = v /\ x.p = p + n /\ v \in {0, 1}
        BY <2>1, <2>3, <3>1, <3>2 DEF Yields
      <4>2. y = [v |-> v, p |-> p + n]
        BY <2>6, <4>1
      <4>. QED
        BY <3>2, <4>2 DEF Yields
    <3>3. CASE ~(p + n <= Len(file))
      BY <2>3, <2>6, <3>3 DEF Yields
    <3>. QED
      BY <3>2, <3>3
  <2>8. Yields(file, ReadScalar(file, p, type), v, p + n)
    BY <2>1, <2>3, <2>7 DEF y
  <2>. QED
    BY <2>1, <2>3, <2>4, <2>8
<1>. QED
  BY <1>1, <1>2

\* Of a type without a case nothing is read.
LEMMA CaseMissing ==
  ASSUME NEW file, NEW p, NEW type, type \in NoCase
  PROVE  ReadScalar(file, p, type).p = Bad
<1>1. type # "STRING"
  BY DEF NoCase
<1>. QED
  BY <1>1 DEF ReadScalar

\* After a read that failed none succeeds.
LEMMA NoScalar ==
  ASSUME NEW file, NEW type
  PROVE  ReadScalar(file, Bad, type).p = Bad
<1>1. CASE type = "STRING"
  BY <1>1, NoString DEF ReadScalar
<1>2. CASE type # "STRING" /\ type \notin DOMAIN ScalarSize \ NoCase
  BY <1>2 DEF ReadScalar
<1>3. CASE type # "STRING" /\ type \in DOMAIN ScalarSize \ NoCase
  <2> DEFINE x == Read(file, Bad, ScalarSize[type])
             y == [x EXCEPT !.v = IF @ = 0 THEN 0 ELSE 1]
  <2>1. x = [v |-> 0, p |-> Bad]
    BY ReadsNothing
  <2>2. ReadScalar(file, Bad, type) = IF type = "BOOL" THEN y ELSE x
    BY <1>3 DEF ReadScalar
  <2>3. y.p = Bad
    BY <2>1
  <2>. QED
    BY <2>1, <2>2, <2>3
<1>. QED
  BY <1>1, <1>2, <1>3

\* Where reads in a row end that take up to P[1], P[2] ... of a file of L bytes.
EndsAt(P, n, L) == [i \in 0..n |-> IF P[i] <= L THEN P[i] ELSE Bad]

\* G is where they end.
Ended(G, P, n, L) ==
  /\ G[0] = P[0] /\ G[n] = IF P[n] <= L THEN P[n] ELSE Bad
  /\ P[n] <= L => \A i \in 0..n : P[i] <= L
  /\ \A i \in 1..n : /\ G[i] = IF P[i] <= L THEN P[i] ELSE Bad
                     /\ P[i - 1] <= L => G[i - 1] = P[i - 1]
                     /\ ~(P[i - 1] <= L) => G[i - 1] = Bad /\ G[i] = Bad

\* Reads in a row, each of a part that stands where the one before it ended,
\* until the file ends or a part is not one the read takes.
LEMMA Ends ==
  ASSUME NEW L \in Nat, NEW n \in Nat, NEW P, \A i \in 0..n : P[i] \in Nat,
         \A i \in 1..n : P[i] >= P[i - 1],
         P[0] <= L
  PROVE  Ended(EndsAt(P, n, L), P, n, L)
<1> DEFINE G == EndsAt(P, n, L)
<1>1. \A i \in 0..n : G[i] = IF P[i] <= L THEN P[i] ELSE Bad
  BY DEF EndsAt
<1> HIDE DEF G
<1>2. ASSUME P[n] <= L PROVE \A i \in 0..n : P[i] <= L
  <2>1. \A i \in 1..n : P[i] >= P[i - 1] + 0
    <3>1. ASSUME NEW i \in 1..n PROVE P[i] >= P[i - 1] + 0
      <4>1. i - 1 \in 0..n /\ P[i - 1] \in Nat /\ P[i] >= P[i - 1]
        OBVIOUS
      <4>. QED
        BY <4>1
    <3>. QED
      BY <3>1
  <2>2. \A i \in 0..n : P[i] <= P[n]
    BY <2>1, PartsGrow
  <2>3. n \in 0..n /\ P[n] \in Nat
    OBVIOUS
  <2>4. ASSUME NEW i \in 0..n PROVE P[i] <= L
    <3>1. P[i] \in Nat /\ P[i] <= P[n]
      BY <2>2
    <3>. QED
      BY <1>2, <2>3, <3>1
  <2>. QED
    BY <2>4
<1>3. ASSUME NEW i \in 1..n
      PROVE  /\ G[i] = IF P[i] <= L THEN P[i] ELSE Bad
             /\ P[i - 1] <= L => G[i - 1] = P[i - 1]
             /\ ~(P[i - 1] <= L) => G[i - 1] = Bad /\ G[i] = Bad
  <2>1. i \in 0..n /\ i - 1 \in 0..n
    OBVIOUS
  <2>2. P[i] \in Nat /\ P[i - 1] \in Nat /\ P[i] >= P[i - 1]
    BY <2>1
  <2>3. /\ G[i] = IF P[i] <= L THEN P[i] ELSE Bad
        /\ G[i - 1] = IF P[i - 1] <= L THEN P[i - 1] ELSE Bad
    BY <1>1, <2>1
  <2>. QED
    BY <2>2, <2>3
<1>4. 0 \in 0..n /\ n \in 0..n
  OBVIOUS
<1>. QED
  BY <1>1, <1>2, <1>3, <1>4 DEF Ended, G

\* What an array is written as, and what can be.
WriteArray(elem, value) ==
  Field(4, elem) \o Field(8, Len(value))
    \o FlattenSeq([k \in DOMAIN value |-> WriteScalar(elem, value[k])])

IsArray(elem, value) ==
  /\ elem \in DOMAIN ScalarSize \cup {"STRING"} /\ IsList(value)
  /\ \A k \in DOMAIN value : IsScalar(elem, value[k])

\* It has no elements, or the reader has a case for them.
CasedArray(elem, value) == elem \notin NoCase \/ Len(value) = 0

AreWritten(s, elem, value) == s = [k \in DOMAIN value |-> WriteScalar(elem, value[k])]

\* A list's elements, each written.
LEMMA ElementSeq ==
  ASSUME NEW elem, NEW value, IsArray(elem, value),
         NEW s, AreWritten(s, elem, value)
  PROVE  /\ Len(value) \in Nat /\ DOMAIN value = 1..Len(value) /\ IsParts(s, Len(value))
         /\ LeastBytes(elem) \in 1..8
         /\ \A k \in 1..Len(value) : /\ s[k] = WriteScalar(elem, value[k])
                                     /\ IsScalar(elem, value[k])
                                     /\ Len(s[k]) \in Nat /\ Len(s[k]) >= LeastBytes(elem)
<1> DEFINE n == Len(value)
<1>1. n \in Nat /\ DOMAIN value = 1..n
  BY DEF IsArray, IsList
<1> HIDE DEF n
<1>2. \A k \in 1..n : s[k] = WriteScalar(elem, value[k]) /\ IsScalar(elem, value[k])
  BY <1>1 DEF IsArray, AreWritten
<1>3. \A k \in 1..n : IsSequence(s[k]) /\ Len(s[k]) \in Nat /\ Len(s[k]) >= LeastBytes(elem)
  BY <1>2, ScalarSeq
<1>4. s = [k \in 1..n |-> s[k]]
  BY <1>1 DEF AreWritten
<1>5. LeastBytes(elem) \in 1..8
  <2>1. elem = "STRING" \/ elem \in DOMAIN ScalarSize
    BY DEF IsArray
  <2>. QED
    BY <2>1, ScalarSizes DEF LeastBytes
<1>6. IsParts(s, n)
  BY <1>3, <1>4 DEF IsParts
<1>. QED
  BY <1>1, <1>2, <1>3, <1>5, <1>6 DEF n

\* An array's bytes.
LEMMA ArraySeq ==
  ASSUME NEW elem, NEW value, IsArray(elem, value)
  PROVE  /\ IsSequence(WriteArray(elem, value)) /\ Len(WriteArray(elem, value)) \in Nat
         /\ IsSequence(FlattenSeq([k \in DOMAIN value |-> WriteScalar(elem, value[k])]))
<1> DEFINE s == [k \in DOMAIN value |-> WriteScalar(elem, value[k])]
           n == Len(value)
           u == Field(4, elem)  w == Field(8, n)  x == FlattenSeq(s)
<1>1. n \in Nat /\ IsParts(s, n)
  BY ElementSeq DEF AreWritten
<1>2. IsSequence(x)
  <2> HIDE DEF s, n
  <2>. QED
    BY <1>1, PartsSeq
<1>3. IsSequence(u) /\ IsSequence(w)
  BY Fields
<1>4. WriteArray(elem, value) = (u \o w) \o x
  BY DEF WriteArray
<1> HIDE DEF u, w, x
<1>5. IsSequence(u \o w)
  BY <1>3, Joins
<1>6. IsSequence((u \o w) \o x)
  BY <1>2, <1>5, Joins
<1>7. Len((u \o w) \o x) \in Nat
  BY <1>2, <1>5, <1>6, Joins
<1>. QED
  BY <1>2, <1>4, <1>6, <1>7 DEF x, s

\* Elements of a type without a case are not read.
LEMMA ElementsNotRead ==
  ASSUME NEW file, NEW elem, NEW value, IsArray(elem, value), ~CasedArray(elem, value),
         NEW b, NEW n, n = Len(value)
  PROVE  ReadScalars(file, b, n, elem).p = Bad
<1> DEFINE G == [i \in 0..n |-> IF i = 0 THEN b ELSE Bad]
<1>1. n \in Nat /\ n # 0 /\ elem \in NoCase
  BY DEF IsArray, IsList, CasedArray
<1>2. G[0] = b /\ \A i \in 1..n : G[i] = Bad
  BY <1>1
<1> HIDE DEF G
<1>3. ScalarsEnd(file, G, b, elem, n)
  BY <1>1, <1>2, CaseMissing DEF ScalarsEnd
<1>4. ReadScalars(file, b, n, elem) = [v |-> ScalarsAt(file, G, elem, n), p |-> G[n]]
  BY <1>1, <1>3, ScalarsInARow
<1>5. n \in 1..n
  BY <1>1
<1>. QED
  BY <1>2, <1>4, <1>5

\* The elements are read if the file has them all.
LEMMA ElementsRead ==
  ASSUME NEW file, Len(file) \in Nat, NEW elem, NEW value, IsArray(elem, value),
         CasedArray(elem, value), NEW s, AreWritten(s, elem, value),
         NEW b, Has(file, b, FlattenSeq(s)), b <= Len(file), NEW n, n = Len(value)
  PROVE  /\ b \in Nat /\ b + Len(FlattenSeq(s)) \in Nat
         /\ Len(FlattenSeq(s)) >= n * LeastBytes(elem)
         /\ Yields(file, ReadScalars(file, b, n, elem),
                   [k \in DOMAIN value |-> PlainScalar(elem, value[k])], b + Len(FlattenSeq(s)))
<1> DEFINE L == Len(file)  w == FlattenSeq(s)  d == LeastBytes(elem)
<1>1. /\ n \in Nat /\ DOMAIN value = 1..n /\ IsParts(s, n) /\ d \in 1..8
      /\ \A k \in 1..n : /\ s[k] = WriteScalar(elem, value[k]) /\ IsScalar(elem, value[k])
                         /\ Len(s[k]) \in Nat /\ Len(s[k]) >= d
  BY ElementSeq
<1>2. PICK P : Laid(P, file, b, s, n)
  BY <1>1, HasParts
<1>0. /\ P[0] = b /\ P[n] = b + Len(w) /\ \A i \in 0..n : P[i] \in Nat
      /\ \A i \in 1..n : /\ P[i] = P[i - 1] + Len(s[i]) /\ Len(s[i]) \in Nat
                         /\ Has(file, P[i - 1], s[i])
  BY <1>2 DEF Laid
<1> HIDE DEF d
<1>3. d \in Nat \ {0}
  BY <1>1
<1>4. ASSUME NEW i \in 1..n PROVE P[i] >= P[i - 1] + d /\ P[i] >= P[i - 1]
  <2>1. P[i] = P[i - 1] + Len(s[i]) /\ Len(s[i]) \in Nat /\ Len(s[i]) >= d
    BY <1>1, <1>0
  <2>2. i - 1 \in 0..n /\ P[i - 1] \in Nat
    BY <1>0
  <2>. QED
    BY <1>3, <2>1, <2>2
<1>5. P[n] >= P[0] + n * d
  <2>1. \A i \in 0..n : P[i] >= P[0] + i * d
    BY <1>1, <1>0, <1>3, <1>4, PartsGrow
  <2>. QED
    BY <1>1, <2>1
<1>6. b \in Nat /\ P[n] \in Nat
  BY <1>1, <1>0
<1>7. Len(w) >= n * d
  <2>1. Len(w) \in Nat /\ n * d \in Nat
    BY <1>1, <1>3, PartsSeq
  <2>. QED
    BY <1>0, <1>5, <1>6, <2>1
<1> DEFINE G == EndsAt(P, n, L)
<1>8. Ended(G, P, n, L)
  <2>1. /\ L \in Nat /\ n \in Nat /\ P[0] <= L /\ \A i \in 0..n : P[i] \in Nat
        /\ \A i \in 1..n : P[i] >= P[i - 1]
    BY <1>0, <1>1, <1>4
  <2>. QED
    BY <2>1, Ends
<1> HIDE DEF G
<1>9. ASSUME NEW i \in 1..n
      PROVE  /\ ReadScalar(file, G[i - 1], elem).p = G[i]
             /\ P[i] <= L /\ P[i - 1] <= L
                  => ReadScalar(file, G[i - 1], elem).v = PlainScalar(elem, value[i])
  <2> DEFINE x == ReadScalar(file, P[i - 1], elem)
  <2>1. Yields(file, x, PlainScalar(elem, value[i]), P[i])
    <3>1. Has(file, P[i - 1], WriteScalar(elem, value[i])) /\ IsScalar(elem, value[i])
      BY <1>1, <1>0
    <3>2. P[i] = P[i - 1] + Len(WriteScalar(elem, value[i]))
      BY <1>1, <1>0
    <3>4. elem \notin NoCase
      BY <1>1 DEF CasedArray
    <3>3. Yields(file, x, PlainScalar(elem, value[i]), P[i - 1] + Len(WriteScalar(elem, value[i])))
      BY <3>1, <3>4, ScalarRead
    <3>. QED
      BY <3>2, <3>3
  <2>2. CASE P[i - 1] <= L
    <3>1. G[i - 1] = P[i - 1] /\ G[i] = IF P[i] <= L THEN P[i] ELSE Bad
      BY <1>8, <2>2 DEF Ended
    <3>2. ReadScalar(file, G[i - 1], elem) = x
      BY <3>1
    <3> HIDE DEF x
    <3>3. P[i] <= L => x.v = PlainScalar(elem, value[i]) /\ x.p = P[i]
      BY <2>1 DEF Yields
    <3>4. ~(P[i] <= L) => x.p = Bad
      BY <2>1 DEF Yields
    <3>. QED
      BY <3>1, <3>2, <3>3, <3>4
  <2>3. CASE ~(P[i - 1] <= L)
    <3>1. G[i - 1] = Bad /\ G[i] = Bad
      BY <1>8, <2>3 DEF Ended
    <3>. QED
      BY <2>3, <3>1, NoScalar
  <2>. QED
    BY <2>2, <2>3
<1>10. ReadScalars(file, b, n, elem)
         = [v |-> ScalarsAt(file, G, elem, n), p |-> G[n]]
  <2>1. n \in Nat /\ ScalarsEnd(file, G, b, elem, n)
    BY <1>1, <1>0, <1>8, <1>9 DEF Ended, ScalarsEnd
  <2>. QED
    BY <2>1, ScalarsInARow
<1>11. CASE P[n] <= L
  <2>1. \A i \in 1..n : P[i] <= L /\ P[i - 1] <= L
    <3>1. \A i \in 1..n : i \in 0..n /\ i - 1 \in 0..n
      BY <1>1
    <3>. QED
      BY <1>8, <1>11, <3>1 DEF Ended
  <2>2. \A i \in 1..n : ReadScalar(file, G[i - 1], elem).v = PlainScalar(elem, value[i])
    BY <1>9, <2>1
  <2>3. ScalarsAt(file, G, elem, n)
          = [k \in DOMAIN value |-> PlainScalar(elem, value[k])]
    BY <1>1, <2>2 DEF ScalarsAt
  <2>4. G[n] = P[n]
    BY <1>8, <1>11 DEF Ended
  <2>5. ReadScalars(file, b, n, elem)
          = [v |-> [k \in DOMAIN value |-> PlainScalar(elem, value[k])], p |-> P[n]]
    BY <1>10, <2>3, <2>4
  <2>. QED
    BY <1>0, <1>6, <1>7, <1>11, <2>5 DEF Yields, d
<1>12. CASE ~(P[n] <= L)
  <2>1. ReadScalars(file, b, n, elem).p = Bad
    BY <1>8, <1>10, <1>12 DEF Ended
  <2>. QED
    BY <1>0, <1>6, <1>7, <1>12, <2>1 DEF Yields, d
<1>. QED
  BY <1>11, <1>12

\* An array as it is read.
Listed(elem, value) == [elem |-> elem, items |-> [k \in DOMAIN value |-> PlainScalar(elem, value[k])]]

\* An array with a case is read whole or not at all, one without never.
LEMMA ArrayRead ==
  ASSUME NEW file, Len(file) \in Nat, NEW elem, NEW value, IsArray(elem, value),
         NEW p, Has(file, p, WriteArray(elem, value))
  PROVE  /\ p \in Nat /\ p + Len(WriteArray(elem, value)) \in Nat
         /\ CasedArray(elem, value)
              => Yields(file, ReadArray(file, p), Listed(elem, value),
                        p + Len(WriteArray(elem, value)))
         /\ ~CasedArray(elem, value) => ReadArray(file, p).p = Bad
<1> DEFINE L == Len(file)  n == Len(value)  d == LeastBytes(elem)
           s == [k \in DOMAIN value |-> WriteScalar(elem, value[k])]
           u == Field(4, elem)  w == Field(8, n)  x == FlattenSeq(s)
           a == p + 4  b == a + 8  q == b + Len(x)
           e == Read(file, p, 4)  c == Read(file, e.p, 8)
           v == [k \in DOMAIN value |-> PlainScalar(elem, value[k])]
           W == WriteArray(elem, value)  R == ReadArray(file, p)
<1>1. /\ n \in Nat /\ d \in 1..8 /\ AreWritten(s, elem, value)
  BY ElementSeq DEF AreWritten
<1>2. /\ IsSequence(u) /\ IsSequence(w) /\ IsSequence(x) /\ Len(u) = 4 /\ Len(w) = 8
  BY Fields, ArraySeq
<1> DEFINE h == u \o w
<1>3. Both(h, u, w) /\ Both(W, h, x)
  BY DEF WriteArray, Both
<1>4. R = IF \/ c.p = Bad \/ e.v \notin DOMAIN ScalarSize \cup {"STRING"}
             \/ c.v > L \/ c.v * LeastBytes(e.v) > L - c.p
          THEN [v |-> 0, p |-> Bad]
          ELSE [v |-> [elem |-> e.v, items |-> ReadScalars(file, c.p, c.v, e.v).v],
                p |-> ReadScalars(file, c.p, c.v, e.v).p]
  BY DEF ReadArray, ReadScalars, LeastBytes
<1> HIDE DEF u, w, x, h, W, R, v, L, n
<1>5. /\ p \in Nat /\ Has(file, p, u) /\ Has(file, a, w) /\ Has(file, b, x)
      /\ p + Len(W) = q /\ a \in Nat /\ b \in Nat /\ q \in Nat /\ Len(x) \in Nat
  <2>1. IsSequence(h) /\ Len(h) = 12
    <3>1. IsSequence(u) /\ IsSequence(w)
      BY <1>2
    <3>2. IsSequence(h) /\ Len(h) = Len(u) + Len(w)
      BY <1>3, <3>1, BothSeq
    <3>. QED
      BY <1>2, <3>2
  <2>2. Len(x) \in Nat
    BY <1>2, <1>3, <2>1, BothSeq
  <2>3. Has(file, p, W) /\ p \in Nat
    BY DEF W, Has
  <2>4. Past(p, h, b) /\ Past(b, x, q) /\ Past(p, u, a) /\ Past(a, w, b)
    BY <1>2, <2>1, <2>2, <2>3 DEF Past
  <2> HIDE DEF a, b, q
  <2>5. Has(file, p, h) /\ Has(file, b, x) /\ Past(p, W, q)
    BY <1>2, <1>3, <2>1, <2>3, <2>4, HasBoth
  <2>6. Has(file, p, u) /\ Has(file, a, w)
    BY <1>2, <1>3, <2>4, <2>5, HasBoth
  <2>. QED
    BY <2>2, <2>4, <2>5, <2>6 DEF Past
<1>6. Yields(file, e, elem, a)
  BY <1>5, FieldRead DEF u
<1> HIDE DEF a, b, q, e
<1>7. /\ a = p + 4 /\ b = a + 8 /\ q = b + Len(x)
  BY DEF a, b, q
<1>8. b <= L => e = [v |-> elem, p |-> a] /\ c = [v |-> n, p |-> b]
  <2>1. SUFFICES ASSUME b <= L PROVE e = [v |-> elem, p |-> a] /\ c = [v |-> n, p |-> b]
    OBVIOUS
  <2>2. a <= Len(file) /\ b <= Len(file)
    BY <1>5, <1>7, <2>1 DEF L
  <2>3. e = [v |-> elem, p |-> a]
    BY <1>6, <2>2 DEF Yields
  <2>4. e.p = a
    BY <2>3
  <2>5. Yields(file, Read(file, a, 8), n, a + 8)
    BY <1>5, FieldRead DEF w
  <2>6. Read(file, a, 8) = [v |-> n, p |-> b]
    BY <1>7, <2>2, <2>5 DEF Yields
  <2>. QED
    BY <2>3, <2>4, <2>6
<1>9. ~(b <= L) => c.p = Bad
  <2>1. SUFFICES ASSUME ~(b <= L) PROVE c.p = Bad
    OBVIOUS
  <2>2. CASE a <= Len(file)
    <3>1. e.p = a
      BY <1>6, <2>2 DEF Yields
    <3>2. Yields(file, Read(file, a, 8), n, a + 8)
      BY <1>5, FieldRead DEF w
    <3>3. Read(file, a, 8).p = Bad
      BY <1>7, <2>1, <3>2 DEF Yields, L
    <3>. QED
      BY <3>1, <3>3
  <2>3. CASE ~(a <= Len(file))
    <3>1. e.p = Bad
      BY <1>6, <2>3 DEF Yields
    <3>. QED
      BY <3>1, ReadsNothing
  <2>. QED
    BY <2>2, <2>3
<1> HIDE DEF c, d, s
<1>10. CASE b <= L
  <2>1. /\ c.p = b /\ c.v = n /\ e.v = elem /\ b # Bad
    BY <1>5, <1>8, <1>10 DEF Bad
  <2> DEFINE r == ReadScalars(file, b, n, elem)
  <2>2. CasedArray(elem, value) => Len(x) >= n * d /\ Yields(file, r, v, q)
    BY <1>1, <1>5, <1>7, <1>10, ElementsRead DEF L, d, v, x, n
  <2>3. elem \in DOMAIN ScalarSize \cup {"STRING"}
    BY DEF IsArray
  <2>4. R = IF n > L \/ n * d > L - b THEN [v |-> 0, p |-> Bad]
            ELSE [v |-> [elem |-> elem, items |-> r.v], p |-> r.p]
    BY <1>4, <2>1, <2>3 DEF d
  <2>7. ~CasedArray(elem, value) => r.p = Bad
    BY ElementsNotRead DEF n
  <2> HIDE DEF r
  <2>8. ~CasedArray(elem, value) => R.p = Bad
    BY <2>4, <2>7
  <2>5. CasedArray(elem, value) /\ q <= L => ~(n > L) /\ ~(n * d > L - b)
    <3>1. n * d >= n /\ n * d \in Nat
      <4>1. \A k \in 1..8 : n * k >= n /\ n * k \in Nat
        BY <1>1
      <4>. QED
        BY <1>1, <4>1 DEF d
    <3>2. L \in Nat /\ b \in Nat /\ Len(x) \in Nat /\ n \in Nat
      BY <1>1, <1>5 DEF L
    <3>. QED
      BY <1>7, <2>2, <3>1, <3>2
  <2>6. ASSUME CasedArray(elem, value) PROVE Yields(file, R, Listed(elem, value), q)
    <3>1. CASE q <= L
      <4>1. r.v = v /\ r.p = q
        BY <2>2, <2>6, <3>1 DEF Yields, L
      <4>2. R = [v |-> [elem |-> elem, items |-> v], p |-> q]
        BY <2>4, <2>5, <2>6, <3>1, <4>1
      <4>. QED
        BY <3>1, <4>2 DEF Yields, L, Listed, v
    <3>2. CASE ~(q <= L)
      <4>0. r.p = Bad
        BY <2>2, <2>6, <3>2 DEF Yields, L
      <4>1. R.p = Bad
        BY <2>4, <4>0
      <4>. QED
        BY <3>2, <4>1 DEF Yields, L
    <3>. QED
      BY <3>1, <3>2
  <2>. QED
    BY <1>5, <2>6, <2>8 DEF W, R
<1>11. CASE ~(b <= L)
  <2>1. R.p = Bad
    BY <1>4, <1>9, <1>11
  <2>2. ~(q <= L)
    BY <1>5, <1>7, <1>11 DEF L
  <2>3. Yields(file, R, Listed(elem, value), q)
    BY <2>1, <2>2 DEF Yields, L
  <2>. QED
    BY <1>5, <2>1, <2>3 DEF W, R
<1>. QED
  BY <1>10, <1>11

\* After a read that failed none succeeds.
LEMMA NoArray ==
  ASSUME NEW file
  PROVE  ReadArray(file, Bad).p = Bad
<1> DEFINE e == Read(file, Bad, 4)  c == Read(file, e.p, 8)
<1>1. e.p = Bad
  BY ReadsNothing
<1>2. c.p = Bad
  BY <1>1, ReadsNothing
<1>3. c.p = Bad => ReadArray(file, Bad) = [v |-> 0, p |-> Bad]
  BY DEF ReadArray
<1>. QED
  BY <1>2, <1>3

\* What a key's value is written as.
Body(pair) == IF pair.type = "ARRAY" THEN WriteArray(pair.elem, pair.value)
              ELSE WriteScalar(pair.type, pair.value)

\* The value a lookup returns, by the elements.
LEMMA PlainIs ==
  ASSUME NEW pair, IsPair(pair)
  PROVE  Plain(pair) = IF pair.type = "ARRAY"
                       THEN Listed(pair.elem, pair.value)
                       ELSE PlainScalar(pair.type, pair.value)
<1>1. CASE pair.type = "ARRAY"
  <2>1. pair.type # "STRING"
    BY <1>1
  <2>2. CASE pair.elem = "STRING"
    BY <1>1, <2>1, <2>2 DEF Plain, PlainScalar, Listed
  <2>3. CASE pair.elem # "STRING"
    <3>1. Plain(pair) = [elem |-> pair.elem, items |-> pair.value]
      BY <1>1, <2>1, <2>3 DEF Plain
    <3>2. [k \in DOMAIN pair.value |-> PlainScalar(pair.elem, pair.value[k])]
            = [k \in DOMAIN pair.value |-> pair.value[k]]
      BY <2>3 DEF PlainScalar
    <3>3. pair.value = [k \in DOMAIN pair.value |-> pair.value[k]]
      <4>1. IsList(pair.value)
        BY <1>1 DEF IsPair
      <4> DEFINE w == pair.value
      <4> HIDE DEF w
      <4>2. w = [k \in 1..Len(w) |-> w[k]]
        BY <4>1 DEF IsList, w
      <4>3. w = [k \in DOMAIN w |-> w[k]]
        BY <4>2
      <4>. QED
        BY <4>3 DEF w
    <3>. QED
      BY <1>1, <3>1, <3>2, <3>3 DEF Listed
  <2>. QED
    BY <2>2, <2>3
<1>2. CASE pair.type # "ARRAY"
  BY <1>2 DEF Plain, PlainScalar
<1>. QED
  BY <1>1, <1>2

\* A value with a case is read whole or not at all, one without never.
LEMMA BodyRead ==
  ASSUME NEW pair, IsPair(pair)
  PROVE  /\ IsSequence(Body(pair)) /\ Len(Body(pair)) \in Nat
         /\ \A file : \A p : Len(file) \in Nat /\ Has(file, p, Body(pair)) =>
              LET x == IF pair.type = "ARRAY" THEN ReadArray(file, p)
                       ELSE ReadScalar(file, p, pair.type)
              IN  /\ HasCase(pair) => Yields(file, x, Plain(pair), p + Len(Body(pair)))
                  /\ ~HasCase(pair) => x.p = Bad
<1>1. CASE pair.type = "ARRAY"
  <2>1. IsArray(pair.elem, pair.value)
    BY <1>1 DEF IsPair, IsArray
  <2> DEFINE e == pair.elem  w == pair.value  W == WriteArray(e, w)
             v == Listed(e, w)
  <2>5. HasCase(pair) <=> CasedArray(e, w)
    BY <1>1 DEF HasCase, CasedArray
  <2>2. Body(pair) = W /\ Plain(pair) = v
    BY <1>1, PlainIs DEF Body
  <2>3. IsSequence(W) /\ Len(W) \in Nat
    BY <2>1, ArraySeq
  <2>4. ASSUME NEW file, NEW p, Len(file) \in Nat, Has(file, p, W)
        PROVE  /\ CasedArray(e, w) => Yields(file, ReadArray(file, p), v, p + Len(W))
               /\ ~CasedArray(e, w) => ReadArray(file, p).p = Bad
    BY <2>1, <2>4, ArrayRead
  <2> HIDE DEF W, v, e, w
  <2>. QED
    BY <1>1, <2>2, <2>3, <2>4, <2>5
<1>2. CASE pair.type # "ARRAY"
  <2>1. IsScalar(pair.type, pair.value)
    BY <1>2 DEF IsPair
  <2> DEFINE t == pair.type  w == pair.value  W == WriteScalar(t, w)  v == PlainScalar(t, w)
  <2>5. HasCase(pair) <=> t \notin NoCase
    BY <1>2 DEF HasCase
  <2>2. Body(pair) = W /\ Plain(pair) = v
    BY <1>2, PlainIs DEF Body
  <2>3. IsSequence(W) /\ Len(W) \in Nat
    BY <2>1, ScalarSeq
  <2>4. ASSUME NEW file, NEW p, Len(file) \in Nat, Has(file, p, W)
        PROVE  /\ t \notin NoCase => Yields(file, ReadScalar(file, p, t), v, p + Len(W))
               /\ t \in NoCase => ReadScalar(file, p, t).p = Bad
    BY <2>1, <2>4, ScalarRead, CaseMissing
  <2> HIDE DEF W, v, w
  <2>. QED
    BY <1>2, <2>2, <2>3, <2>4, <2>5
<1>. QED
  BY <1>1, <1>2

\* A read after a read: from where the first ended, if it did not fail.
LEMMA YieldsNext ==
  ASSUME NEW file, Len(file) \in Nat, NEW x, NEW v, NEW a, a \in Nat, Yields(file, x, v, a),
         NEW n \in Nat \ {0}, NEW w, Has(file, a, Field(n, w)),
         NEW b, b = a + n, NEW y, y = Read(file, x.p, n)
  PROVE  /\ b \in Nat /\ Yields(file, y, w, b)
         /\ b <= Len(file) => x = [v |-> v, p |-> a]
         /\ y.p = Bad => y.v = 0
<1>1. Yields(file, Read(file, a, n), w, b) /\ b \in Nat
  BY FieldRead
<1>2. CASE a <= Len(file)
  <2>1. x = [v |-> v, p |-> a] /\ x.p = a
    BY <1>2 DEF Yields
  <2>2. y.p = Bad => y.v = 0
    <3>1. a + n # Bad
      BY DEF Bad
    <3>. QED
      BY <2>1, <3>1 DEF Read
  <2>. QED
    BY <1>1, <2>1, <2>2
<1>3. CASE ~(a <= Len(file))
  <2>1. x.p = Bad /\ y.p = Bad /\ y.v = 0
    BY <1>3, ReadsNothing DEF Yields
  <2>2. ~(b <= Len(file))
    BY <1>3
  <2>. QED
    BY <1>1, <2>1, <2>2 DEF Yields
<1>. QED
  BY <1>2, <1>3

\* A key as it is read.
IsRead(pair) == [key |-> pair.key.text, type |-> pair.type, value |-> Plain(pair)]

\* A key with a case is read whole or not at all, one without never.
LEMMA PairRead ==
  ASSUME NEW file, Len(file) \in Nat, NEW pair, IsPair(pair), NEW p, Has(file, p, WritePair(pair))
  PROVE  /\ p \in Nat /\ p + Len(WritePair(pair)) \in Nat
         /\ HasCase(pair)
              => Yields(file, ReadPair(file, p), IsRead(pair), p + Len(WritePair(pair)))
         /\ ~HasCase(pair) => ReadPair(file, p).p = Bad
<1> DEFINE L == Len(file)  u == WriteString(pair.key)  w == Field(4, pair.type)  x == Body(pair)
           h == u \o w  W == WritePair(pair)  R == ReadPair(file, p)
           a == p + Len(u)  b == a + 4  q == b + Len(x)
           key == ReadString(file, p)  type == Read(file, key.p, 4)
           Value(t, o) == IF t = "ARRAY" THEN ReadArray(file, o) ELSE ReadScalar(file, o, t)
           value == IF type.p = Bad THEN type ELSE Value(type.v, type.p)
<1>1. IsString(pair.key)
  BY DEF IsPair
<1>2. /\ IsSequence(u) /\ IsSequence(w) /\ IsSequence(x) /\ Len(u) \in Nat /\ Len(w) = 4
      /\ Len(x) \in Nat
  <2>1. IsSequence(u) /\ Len(u) = 8 + pair.key.len /\ pair.key.len \in Nat
    BY <1>1, StringSeq
  <2>2. IsSequence(w) /\ Len(w) = 4
    BY Fields
  <2>3. IsSequence(x) /\ Len(x) \in Nat
    BY BodyRead
  <2> HIDE DEF u, w, x
  <2>. QED
    BY <2>1, <2>2, <2>3
<1>3. Both(h, u, w) /\ Both(W, h, x)
  BY DEF WritePair, Both, Body, WriteArray
<1>4. R = [v |-> [key |-> key.v, type |-> type.v, value |-> value.v], p |-> value.p]
  BY DEF ReadPair
<1> HIDE DEF u, w, x, h, W, R, L
<1>5. /\ p \in Nat /\ Has(file, p, u) /\ Has(file, a, w) /\ Has(file, b, x)
      /\ p + Len(W) = q /\ a \in Nat /\ b \in Nat /\ q \in Nat
  <2>1. IsSequence(h) /\ Len(h) = Len(u) + Len(w)
    <3>1. IsSequence(u) /\ IsSequence(w)
      BY <1>2
    <3>. QED
      BY <1>3, <3>1, BothSeq
  <2>2. Has(file, p, W) /\ p \in Nat
    BY DEF W, Has
  <2>3. Past(p, h, b) /\ Past(b, x, q) /\ Past(p, u, a) /\ Past(a, w, b)
    BY <1>2, <2>1, <2>2 DEF Past
  <2> HIDE DEF a, b, q
  <2>4. Has(file, p, h) /\ Has(file, b, x) /\ Past(p, W, q)
    BY <1>2, <1>3, <2>1, <2>2, <2>3, HasBoth
  <2>5. Has(file, p, u) /\ Has(file, a, w)
    BY <1>2, <1>3, <2>3, <2>4, HasBoth
  <2>. QED
    BY <1>2, <2>3, <2>4, <2>5 DEF Past
<1>6. Yields(file, key, pair.key.text, a)
  BY <1>1, <1>5, StringRead DEF u
<1>7. b = a + 4 /\ q = b + Len(x)
  OBVIOUS
<1> HIDE DEF a, b, q, key
<1>8. /\ Yields(file, type, pair.type, b)
      /\ b <= Len(file) => key = [v |-> pair.key.text, p |-> a]
  BY <1>5, <1>6, <1>7, YieldsNext DEF w
<1>9. /\ HasCase(pair) => Yields(file, Value(pair.type, b), Plain(pair), q)
      /\ ~HasCase(pair) => Value(pair.type, b).p = Bad
  BY <1>5, <1>7, BodyRead DEF x
<1> HIDE DEF type, Value
<1>10. CASE b <= Len(file)
  <2>1. type = [v |-> pair.type, p |-> b] /\ b # Bad
    BY <1>5, <1>8, <1>10 DEF Yields, Bad
  <2>2. value = Value(pair.type, b) /\ type.v = pair.type /\ key.v = pair.key.text
    BY <1>8, <1>10, <2>1
  <2> HIDE DEF value
  <2>5. ~HasCase(pair) => R.p = Bad
    BY <1>4, <1>9, <2>2
  <2>4. ASSUME HasCase(pair) PROVE Yields(file, R, IsRead(pair), q)
    <3>0. Yields(file, value, Plain(pair), q)
      BY <1>9, <2>2, <2>4
    <3>1. CASE q <= Len(file)
      <4>1. value.v = Plain(pair) /\ value.p = q
        BY <3>0, <3>1 DEF Yields
      <4>2. R = [v |-> IsRead(pair), p |-> q]
        BY <1>4, <2>2, <4>1 DEF IsRead
      <4>. QED
        BY <3>1, <4>2 DEF Yields
    <3>2. CASE ~(q <= Len(file))
      <4>1. value.p = Bad
        BY <3>0, <3>2 DEF Yields
      <4>. QED
        BY <1>4, <3>2, <4>1 DEF Yields
    <3>. QED
      BY <3>1, <3>2
  <2>. QED
    BY <1>5, <2>4, <2>5 DEF W, R
<1>11. CASE ~(b <= Len(file))
  <2>1. type.p = Bad
    BY <1>8, <1>11 DEF Yields
  <2>2. R.p = Bad
    BY <1>4, <2>1
  <2>3. ~(q <= Len(file))
    BY <1>2, <1>5, <1>7, <1>11
  <2>4. Yields(file, R, IsRead(pair), q)
    BY <2>2, <2>3 DEF Yields
  <2>. QED
    BY <1>5, <2>2, <2>4 DEF W, R
<1>. QED
  BY <1>10, <1>11

\* After a read that failed none succeeds.
LEMMA NoPair ==
  ASSUME NEW file
  PROVE  ReadPair(file, Bad).p = Bad
<1> DEFINE key == ReadString(file, Bad)  type == Read(file, key.p, 4)
           value == IF type.p = Bad THEN type
                    ELSE IF type.v = "ARRAY" THEN ReadArray(file, type.p)
                    ELSE ReadScalar(file, type.p, type.v)
<1>1. key.p = Bad
  BY NoString
<1>2. type.p = Bad
  BY <1>1, ReadsNothing
<1>3. ReadPair(file, Bad) = [v |-> [key |-> key.v, type |-> type.v, value |-> value.v],
                             p |-> value.p]
  BY DEF ReadPair
<1>. QED
  BY <1>2, <1>3

\* A key's bytes are a sequence.
LEMMA PairSeq ==
  ASSUME NEW pair, IsPair(pair)
  PROVE  IsSequence(WritePair(pair))
<1> DEFINE u == WriteString(pair.key)  w == Field(4, pair.type)  x == Body(pair)  h == u \o w
<1>1. Both(h, u, w) /\ Both(WritePair(pair), h, x)
  BY DEF WritePair, Both, Body, WriteArray
<1>2. IsSequence(u) /\ IsSequence(w) /\ IsSequence(x)
  BY StringSeq, Fields, BodyRead DEF IsPair
<1> HIDE DEF u, w, x, h
<1>3. IsSequence(h)
  BY <1>1, <1>2, BothSeq
<1>. QED
  BY <1>1, <1>2, <1>3, BothSeq

-----------------------------------------------------------------------------
(* Tensors: their shapes, descriptors and bytes.                            *)

\* The recursive function of Elements.
ProductUpTo(f, s, k) == IF k = 0 THEN 1 ELSE f[k - 1] * s[k]
ProductsUpTo(f, s, n) == f = [k \in 0..n |-> ProductUpTo(f, s, k)]

\* The elements of a shape are a number.
LEMMA ElementsNat ==
  ASSUME NEW s \in Seq(Nat)
  PROVE  Elements(s) \in Nat
<1> DEFINE n == Len(s)
           K == {k \in Nat : \E f : ProductsUpTo(f, s, k)}
<1>1. n \in Nat /\ \A k \in 1..n : s[k] \in Nat
  OBVIOUS
<1>2. 0 \in K
  <2> DEFINE f == [k \in 0..0 |-> 1]
  <2>1. f = [k \in 0..0 |-> ProductUpTo(f, s, k)]
    BY DEF ProductUpTo
  <2>. QED
    BY <2>1 DEF ProductsUpTo
<1>3. ASSUME NEW k \in K PROVE k + 1 \in K
  <2>1. PICK f : ProductsUpTo(f, s, k)
    OBVIOUS
  <2> DEFINE g == [i \in 0..(k + 1) |-> IF i = k + 1 THEN ProductUpTo(f, s, i) ELSE f[i]]
  <2>2. k \in Nat /\ k + 1 \in Nat
    OBVIOUS
  <2>3. \A i \in 0..k : f[i] = ProductUpTo(f, s, i)
    BY <2>1 DEF ProductsUpTo
  <2>4. /\ \A i \in 0..k : g[i] = f[i]
        /\ g[k + 1] = ProductUpTo(f, s, k + 1)
    BY <2>2
  <2>5. g = [i \in 0..(k + 1) |-> g[i]]
    OBVIOUS
  <2> HIDE DEF g
  <2>6. ASSUME NEW i \in 0..(k + 1) PROVE g[i] = ProductUpTo(g, s, i)
    <3>1. i # 0 => i - 1 \in 0..k /\ g[i - 1] = f[i - 1]
      BY <2>2, <2>4
    <3>2. g[i] = ProductUpTo(f, s, i)
      BY <2>2, <2>3, <2>4
    <3>. QED
      BY <3>1, <3>2 DEF ProductUpTo
  <2>7. ProductsUpTo(g, s, k + 1)
    BY <2>5, <2>6 DEF ProductsUpTo
  <2>. QED
    BY <2>2, <2>7
<1>4. K = Nat
  <2>1. K \in SUBSET Nat
    OBVIOUS
  <2> HIDE DEF K
  <2>. QED
    BY <1>2, <1>3, <2>1, EveryNumber
<1> DEFINE c == CHOOSE f : ProductsUpTo(f, s, n)
<1>5. ProductsUpTo(c, s, n)
  BY <1>1, <1>4
<1>6. Elements(s) = c[n]
  BY DEF Elements, ProductsUpTo, ProductUpTo
<1> HIDE DEF c, n, K
<1>7. \A k \in 0..n : c[k] = ProductUpTo(c, s, k)
  BY <1>5 DEF ProductsUpTo
<1> DEFINE T == {k \in Nat : k <= n => c[k] \in Nat}
<1>8. 0 \in T
  BY <1>1, <1>7 DEF ProductUpTo
<1>9. ASSUME NEW k \in T PROVE k + 1 \in T
  <2>1. ASSUME k + 1 <= n PROVE c[k + 1] \in Nat
    <3>1. k \in Nat /\ k + 1 \in 0..n /\ k + 1 \in 1..n /\ k + 1 # 0 /\ (k + 1) - 1 = k /\ k <= n
      BY <1>1, <2>1
    <3>2. c[k + 1] = c[k] * s[k + 1]
      BY <1>7, <3>1 DEF ProductUpTo
    <3>3. c[k] \in Nat /\ s[k + 1] \in Nat
      BY <1>1, <3>1
    <3>. QED
      BY <3>2, <3>3
  <2>. QED
    BY <2>1
<1>10. T = Nat
  <2>1. T \in SUBSET Nat
    OBVIOUS
  <2> HIDE DEF T
  <2>. QED
    BY <1>8, <1>9, <2>1, EveryNumber
<1>11. n \in T
  BY <1>1, <1>10
<1>. QED
  BY <1>1, <1>6, <1>11

\* A block has elements.
LEMMA Traits ==
  \A t \in DOMAIN TypeTraits : TypeTraits[t][1] \in Nat \ {0} /\ TypeTraits[t][2] \in Nat
<1>1. DOMAIN TypeTraits = {"F32", "F16", "BF16", "Q4_0", "Q4_1", "Q5_0", "Q5_1", "Q8_0", "Q4_K", "Q6_K"}
  BY DEF TypeTraits
<1>2. /\ TypeTraits["F32"] = <<1, 4>> /\ TypeTraits["F16"] = <<1, 2>>
      /\ TypeTraits["BF16"] = <<1, 2>> /\ TypeTraits["Q4_0"] = <<32, 18>>
      /\ TypeTraits["Q4_1"] = <<32, 20>> /\ TypeTraits["Q5_0"] = <<32, 22>>
      /\ TypeTraits["Q5_1"] = <<32, 24>> /\ TypeTraits["Q8_0"] = <<32, 34>>
      /\ TypeTraits["Q4_K"] = <<256, 144>> /\ TypeTraits["Q6_K"] = <<256, 210>>
  BY DEF TypeTraits
<1>. QED
  BY <1>1, <1>2

\* The bytes of a tensor are a number.
LEMMA BytesNat ==
  ASSUME NEW t, IsTensor(t)
  PROVE  TensorBytes(t.shape, t.type) \in Nat
<1>1. Elements(t.shape) \in Nat
  BY ElementsNat DEF IsTensor
<1>2. TypeTraits[t.type][1] \in Nat \ {0} /\ TypeTraits[t.type][2] \in Nat
  BY Traits DEF IsTensor
<1> DEFINE e == Elements(t.shape)  a == TypeTraits[t.type][1]  b == TypeTraits[t.type][2]
<1> HIDE DEF e, a, b
<1>3. e \div a \in Nat
  BY <1>1, <1>2 DEF e, a
<1>4. (e \div a) * b \in Nat
  BY <1>2, <1>3 DEF b
<1>. QED
  BY <1>4 DEF TensorBytes, e, a, b

\* The dimensions as they are written.
Dimensions(shape) == [d \in DOMAIN shape |-> Field(8, shape[d])]

\* Eight bytes each.
LEMMA DimsParts ==
  ASSUME NEW shape \in Seq(Nat), NEW n, n = Len(shape)
  PROVE  /\ n \in Nat /\ IsParts(Dimensions(shape), n)
         /\ \A d \in 1..n : Dimensions(shape)[d] = Field(8, shape[d]) /\ Len(Dimensions(shape)[d]) = 8
<1>1. n \in Nat /\ Dimensions(shape) = [d \in 1..n |-> Field(8, shape[d])]
  BY DEF Dimensions
<1>2. \A d \in 1..n : IsSequence(Field(8, shape[d])) /\ Len(Field(8, shape[d])) = 8
  BY Fields
<1>3. \A d \in 1..n : Dimensions(shape)[d] = Field(8, shape[d])
  BY <1>1
<1>4. Dimensions(shape) = [d \in 1..n |-> Dimensions(shape)[d]]
  BY <1>1
<1>. QED
  BY <1>1, <1>2, <1>3, <1>4 DEF IsParts

\* A shape is read if the file has all of it.
LEMMA DimsRead ==
  ASSUME NEW file, Len(file) \in Nat, NEW shape \in Seq(Nat), NEW n, n = Len(shape),
         NEW b, Has(file, b, FlattenSeq(Dimensions(shape))), b <= Len(file)
  PROVE  /\ b \in Nat /\ b + Len(FlattenSeq(Dimensions(shape))) \in Nat
         /\ Yields(file, ReadAll(file, b, n, ReadDim), shape, b + Len(FlattenSeq(Dimensions(shape))))
<1> DEFINE L == Len(file)  s == Dimensions(shape)  w == FlattenSeq(s)
<1>1. n \in Nat /\ IsParts(s, n) /\ \A i \in 1..n : s[i] = Field(8, shape[i]) /\ Len(s[i]) = 8
  BY DimsParts
<1> HIDE DEF s
<1>2. PICK P : Laid(P, file, b, s, n)
  BY <1>1, HasParts DEF s
<1>3. /\ P[0] = b /\ P[n] = b + Len(w) /\ \A i \in 0..n : P[i] \in Nat
      /\ \A i \in 1..n : /\ P[i] = P[i - 1] + Len(s[i]) /\ Len(s[i]) \in Nat
                         /\ Has(file, P[i - 1], s[i])
  BY <1>2 DEF Laid
<1>4. ASSUME NEW i \in 1..n
      PROVE  /\ P[i] = P[i - 1] + 8 /\ P[i] >= P[i - 1]
             /\ Has(file, P[i - 1], Field(8, shape[i]))
  <2>1. P[i] = P[i - 1] + Len(s[i]) /\ Len(s[i]) = 8 /\ Has(file, P[i - 1], s[i])
        /\ s[i] = Field(8, shape[i])
    BY <1>1, <1>3
  <2>2. i - 1 \in 0..n /\ P[i - 1] \in Nat
    BY <1>3
  <2>. QED
    BY <2>1, <2>2
<1>5. b \in Nat /\ P[n] \in Nat
  BY <1>1, <1>3
<1> DEFINE G == EndsAt(P, n, L)
<1>8. Ended(G, P, n, L)
  <2>1. /\ L \in Nat /\ n \in Nat /\ P[0] <= L /\ \A i \in 0..n : P[i] \in Nat
        /\ \A i \in 1..n : P[i] >= P[i - 1]
    BY <1>1, <1>3, <1>4
  <2>. QED
    BY <2>1, Ends
<1> HIDE DEF G
<1>9. ASSUME NEW i \in 1..n
      PROVE  /\ ReadDim(file, G[i - 1]).p = G[i]
             /\ P[i] <= L /\ P[i - 1] <= L => ReadDim(file, G[i - 1]).v = shape[i]
  <2> DEFINE x == Read(file, P[i - 1], 8)
  <2>1. Yields(file, x, shape[i], P[i])
    <3>1. Yields(file, x, shape[i], P[i - 1] + 8)
      BY <1>4, FieldRead
    <3>. QED
      BY <1>4, <3>1
  <2>2. CASE P[i - 1] <= L
    <3>1. G[i - 1] = P[i - 1] /\ G[i] = IF P[i] <= L THEN P[i] ELSE Bad
      BY <1>8, <2>2 DEF Ended
    <3>2. ReadDim(file, G[i - 1]) = x
      BY <3>1 DEF ReadDim
    <3> HIDE DEF x
    <3>3. P[i] <= L => x.v = shape[i] /\ x.p = P[i]
      BY <2>1 DEF Yields
    <3>4. ~(P[i] <= L) => x.p = Bad
      BY <2>1 DEF Yields
    <3>. QED
      BY <3>1, <3>2, <3>3, <3>4
  <2>3. CASE ~(P[i - 1] <= L)
    <3>1. G[i - 1] = Bad /\ G[i] = Bad
      BY <1>8, <2>3 DEF Ended
    <3>. QED
      BY <2>3, <3>1, ReadsNothing DEF ReadDim
  <2>. QED
    BY <2>2, <2>3
<1>10. ReadAll(file, b, n, ReadDim) = [v |-> DimsAt(file, G, n), p |-> G[n]]
  <2>1. n \in Nat /\ DimsEnd(file, G, b, n)
    BY <1>1, <1>3, <1>8, <1>9 DEF Ended, DimsEnd
  <2>. QED
    BY <2>1, DimsInARow
<1>11. CASE P[n] <= L
  <2>1. \A i \in 1..n : P[i] <= L /\ P[i - 1] <= L
    <3>1. \A i \in 1..n : i \in 0..n /\ i - 1 \in 0..n
      BY <1>1
    <3>. QED
      BY <1>8, <1>11, <3>1 DEF Ended
  <2>2. \A i \in 1..n : ReadDim(file, G[i - 1]).v = shape[i]
    BY <1>9, <2>1
  <2>3. DimsAt(file, G, n) = shape
    <3>1. shape = [i \in 1..n |-> shape[i]]
      OBVIOUS
    <3>. QED
      BY <1>1, <2>2, <3>1 DEF DimsAt
  <2>4. G[n] = P[n]
    BY <1>8, <1>11 DEF Ended
  <2>5. ReadAll(file, b, n, ReadDim) = [v |-> shape, p |-> P[n]]
    BY <1>10, <2>3, <2>4
  <2>. QED
    BY <1>3, <1>5, <1>11, <2>5 DEF Yields, s
<1>12. CASE ~(P[n] <= L)
  <2>1. ReadAll(file, b, n, ReadDim).p = Bad
    BY <1>8, <1>10, <1>12 DEF Ended
  <2>. QED
    BY <1>3, <1>5, <1>12, <2>1 DEF Yields, s
<1>. QED
  BY <1>11, <1>12

\* What the reader takes of a tensor.
LegalTensor(t) == /\ Len(t.shape) <= 4
                  /\ Elements(t.shape) % TypeTraits[t.type][1] = 0

\* A tensor's descriptor, and what is read of it.
Descriptor(t, offset) ==
  WriteString(t.name) \o Field(4, Len(t.shape)) \o FlattenSeq(Dimensions(t.shape))
    \o Field(4, t.type) \o Field(8, offset)

\* The descriptor as it is read.
IsDescribed(t, offset) ==
  [name |-> t.name.text, shape |-> t.shape, type |-> t.type, offset |-> offset,
   nbytes |-> TensorBytes(t.shape, t.type)]

\* Five parts one after the other.
LEMMA FiveParts ==
  ASSUME NEW u, NEW w, NEW x, NEW y, NEW z,
         IsSequence(u), IsSequence(w), IsSequence(x), IsSequence(y), IsSequence(z),
         NEW h, Both(h, u, w), NEW g, Both(g, h, x), NEW f, Both(f, g, y), NEW d, Both(d, f, z)
  PROVE  /\ IsSequence(h) /\ IsSequence(g) /\ IsSequence(f) /\ IsSequence(d)
         /\ Len(u) \in Nat /\ Len(w) \in Nat /\ Len(x) \in Nat /\ Len(y) \in Nat /\ Len(z) \in Nat
         /\ Len(h) = Len(u) + Len(w) /\ Len(g) = Len(h) + Len(x) /\ Len(f) = Len(g) + Len(y)
         /\ Len(d) = Len(f) + Len(z) /\ Len(d) \in Nat
<1>1. IsSequence(h) /\ Len(h) = Len(u) + Len(w) /\ Len(u) \in Nat /\ Len(w) \in Nat
  BY BothSeq
<1>2. IsSequence(g) /\ Len(g) = Len(h) + Len(x) /\ Len(x) \in Nat
  BY <1>1, BothSeq
<1>3. IsSequence(f) /\ Len(f) = Len(g) + Len(y) /\ Len(y) \in Nat
  BY <1>2, BothSeq
<1>4. IsSequence(d) /\ Len(d) = Len(f) + Len(z) /\ Len(z) \in Nat /\ Len(d) \in Nat
  BY <1>3, BothSeq
<1>. QED
  BY <1>1, <1>2, <1>3, <1>4

\* The numbers of a descriptor.
LEMMA SmallFields ==
  ASSUME NEW k
  PROVE  /\ IsSequence(Field(4, k)) /\ Len(Field(4, k)) = 4
         /\ IsSequence(Field(8, k)) /\ Len(Field(8, k)) = 8
BY Fields

\* The name and the dimensions of one.
LEMMA DescriptorIs ==
  ASSUME NEW t, IsTensor(t)
  PROVE  /\ IsSequence(WriteString(t.name))
         /\ IsSequence(FlattenSeq(Dimensions(t.shape)))
<1>1. IsSequence(WriteString(t.name))
  BY StringSeq DEF IsTensor
<1>2. Len(t.shape) \in Nat /\ IsParts(Dimensions(t.shape), Len(t.shape))
  BY DimsParts DEF IsTensor
<1>3. IsSequence(FlattenSeq(Dimensions(t.shape)))
  BY <1>2, PartsSeq
<1>. QED
  BY <1>1, <1>3

\* A legal descriptor is read whole or not at all, an illegal one never.
LEMMA TensorRead ==
  ASSUME NEW file, Len(file) \in Nat, NEW t, IsTensor(t), NEW offset,
         NEW p, Has(file, p, Descriptor(t, offset)), NEW q, Past(p, Descriptor(t, offset), q)
  PROVE  /\ LegalTensor(t) => Yields(file, ReadTensor(file, p), IsDescribed(t, offset), q)
         /\ ~LegalTensor(t) => ReadTensor(file, p).p = Bad
<1> DEFINE n == Len(t.shape)
           u == WriteString(t.name)  w == Field(4, n)  x == FlattenSeq(Dimensions(t.shape))
           y == Field(4, t.type)  z == Field(8, offset)  D == Descriptor(t, offset)
           h == u \o w  g == h \o x  f == g \o y
           a == p + Len(u)  b == a + 4  c == b + Len(x)  e == c + 4
           name == ReadString(file, p)  rank == Read(file, name.p, 4)
           shape == ReadAll(file, rank.p, rank.v, ReadDim)
           type == Read(file, shape.p, 4)  off == Read(file, type.p, 8)
           R == ReadTensor(file, p)
<1>1. /\ IsSequence(u) /\ IsSequence(w) /\ IsSequence(x) /\ IsSequence(y) /\ IsSequence(z)
      /\ IsSequence(h) /\ IsSequence(g) /\ IsSequence(f) /\ IsSequence(D)
      /\ Len(u) \in Nat /\ Len(w) = 4 /\ Len(x) \in Nat /\ Len(y) = 4 /\ Len(z) = 8
      /\ Len(h) = Len(u) + Len(w) /\ Len(g) = Len(h) + Len(x) /\ Len(f) = Len(g) + Len(y)
      /\ Len(D) = Len(f) + Len(z) /\ Len(D) \in Nat
      /\ Both(h, u, w) /\ Both(g, h, x) /\ Both(f, g, y) /\ Both(D, f, z)
  <2>1. Both(h, u, w) /\ Both(g, h, x) /\ Both(f, g, y) /\ Both(D, f, z)
    BY DEF Both, Descriptor
  <2>2. IsSequence(u) /\ IsSequence(x)
    BY DescriptorIs
  <2> HIDE DEF h, g, f, D, u, x, n
  <2>3. IsSequence(w) /\ IsSequence(y) /\ IsSequence(z) /\ Len(w) = 4 /\ Len(y) = 4 /\ Len(z) = 8
    BY SmallFields
  <2> HIDE DEF w, y, z
  <2>4. /\ IsSequence(h) /\ IsSequence(g) /\ IsSequence(f) /\ IsSequence(D)
        /\ Len(u) \in Nat /\ Len(w) \in Nat /\ Len(x) \in Nat /\ Len(y) \in Nat /\ Len(z) \in Nat
        /\ Len(h) = Len(u) + Len(w) /\ Len(g) = Len(h) + Len(x) /\ Len(f) = Len(g) + Len(y)
        /\ Len(D) = Len(f) + Len(z) /\ Len(D) \in Nat
    <3>1. IsSequence(w) /\ IsSequence(y) /\ IsSequence(z)
      BY <2>3
    <3>. QED
      BY ONLY <2>1, <2>2, <3>1, FiveParts
  <2>. QED
    BY <2>1, <2>2, <2>3, <2>4
<1>2. R = IF rank.p = Bad \/ rank.v > 4 THEN [v |-> 0, p |-> Bad]
          ELSE IF \/ off.p = Bad \/ type.v \notin DOMAIN TypeTraits
                  \/ Elements(shape.v) % TypeTraits[type.v][1] # 0
          THEN [v |-> 0, p |-> Bad]
          ELSE [v |-> [name |-> name.v, shape |-> shape.v, type |-> type.v,
                       offset |-> off.v, nbytes |-> TensorBytes(shape.v, type.v)],
                p |-> off.p]
  BY DEF ReadTensor
<1>3. n \in Nat /\ t.shape \in Seq(Nat) /\ t.type \in DOMAIN TypeTraits /\ IsString(t.name)
  BY DEF IsTensor
<1> HIDE DEF u, w, x, y, z, h, g, f, D, R, n
<1>4. /\ p \in Nat /\ a \in Nat /\ b \in Nat /\ c \in Nat /\ e \in Nat /\ q = e + 8 /\ q \in Nat
      /\ Past(p, u, a) /\ Past(a, w, b) /\ Past(b, x, c) /\ Past(c, y, e) /\ Past(e, z, q)
      /\ Past(p, h, b) /\ Past(p, g, c) /\ Past(p, f, e)
  <2>1. p \in Nat /\ q = p + Len(D)
    BY DEF Past, D
  <2>. QED
    BY <1>1, <2>1 DEF Past
<1>5. b = a + 4 /\ c = b + Len(x) /\ e = c + 4
  OBVIOUS
<1> HIDE DEF a, b, c, e
<1>6. /\ Has(file, p, u) /\ Has(file, a, w) /\ Has(file, b, x) /\ Has(file, c, y) /\ Has(file, e, z)
  <2>1. Has(file, p, D)
    BY DEF D
  <2>2. Has(file, p, f) /\ Has(file, e, z)
    <3>1. /\ IsSequence(f) /\ IsSequence(z) /\ Both(D, f, z) /\ Has(file, p, D)
          /\ Past(p, f, e) /\ Past(e, z, q)
      BY <1>1, <1>4, <2>1
    <3>. QED
      BY ONLY <3>1, HasBoth
  <2>3. Has(file, p, g) /\ Has(file, c, y)
    <3>1. /\ IsSequence(g) /\ IsSequence(y) /\ Both(f, g, y) /\ Has(file, p, f)
          /\ Past(p, g, c) /\ Past(c, y, e)
      BY <1>1, <1>4, <2>2
    <3>. QED
      BY ONLY <3>1, HasBoth
  <2>4. Has(file, p, h) /\ Has(file, b, x)
    <3>1. /\ IsSequence(h) /\ IsSequence(x) /\ Both(g, h, x) /\ Has(file, p, g)
          /\ Past(p, h, b) /\ Past(b, x, c)
      BY <1>1, <1>4, <2>3
    <3>. QED
      BY ONLY <3>1, HasBoth
  <2>5. Has(file, p, u) /\ Has(file, a, w)
    <3>1. /\ IsSequence(u) /\ IsSequence(w) /\ Both(h, u, w) /\ Has(file, p, h)
          /\ Past(p, u, a) /\ Past(a, w, b)
      BY <1>1, <1>4, <2>4
    <3>. QED
      BY ONLY <3>1, HasBoth
  <2>. QED
    BY <2>2, <2>3, <2>4, <2>5
<1>7. Yields(file, name, t.name.text, a)
  BY <1>3, <1>4, <1>6, StringRead DEF Past, u
<1> HIDE DEF name
<1>8. /\ Yields(file, rank, n, b)
      /\ b <= Len(file) => name = [v |-> t.name.text, p |-> a]
  <2>1. /\ a \in Nat /\ Has(file, a, Field(4, n)) /\ b = a + 4
        /\ Yields(file, name, t.name.text, a)
    BY <1>4, <1>5, <1>6, <1>7 DEF w
  <2>2. rank = Read(file, name.p, 4) /\ 4 \in Nat \ {0}
    OBVIOUS
  <2> HIDE DEF rank
  <2>. QED
    BY ONLY Len(file) \in Nat, <2>1, <2>2, YieldsNext
<1> HIDE DEF rank
<1>9. CASE ~(b <= Len(file))
  <2>1. rank.p = Bad
    BY <1>8, <1>9 DEF Yields
  <2>2. R.p = Bad
    BY <1>2, <2>1
  <2>3. ~(q <= Len(file))
    <3>1. Len(x) \in Nat
      BY <1>1
    <3>. QED
      BY <1>4, <1>5, <1>9, <3>1
  <2>. QED
    BY <2>2, <2>3 DEF Yields, R
<1>10. CASE b <= Len(file)
  <2>1. rank = [v |-> n, p |-> b] /\ b # Bad
    BY <1>4, <1>8, <1>10 DEF Yields, Bad
  <2>2. rank.v = n /\ rank.p = b
    BY <2>1
  <2>3. CASE n > 4
    <3>1. R.p = Bad
      BY <1>2, <2>2, <2>3
    <3>2. ~LegalTensor(t)
      BY <1>3, <2>3 DEF LegalTensor, n
    <3>. QED
      BY <3>1, <3>2 DEF R
  <2>4. CASE ~(n > 4)
    <3>1. Yields(file, shape, t.shape, c)
      BY <1>3, <1>4, <1>5, <1>6, <1>10, <2>2, DimsRead DEF x, n
    <3> HIDE DEF shape
    <3>2. /\ Yields(file, type, t.type, e)
          /\ e <= Len(file) => shape = [v |-> t.shape, p |-> c]
      BY <1>4, <1>5, <1>6, <3>1, YieldsNext DEF y
    <3> HIDE DEF type
    <3>3. /\ Yields(file, off, offset, q)
          /\ q <= Len(file) => type = [v |-> t.type, p |-> e]
      BY <1>4, <1>6, <3>2, YieldsNext DEF z
    <3> HIDE DEF off
    <3>4. R = IF \/ off.p = Bad \/ type.v \notin DOMAIN TypeTraits
                 \/ Elements(shape.v) % TypeTraits[type.v][1] # 0
              THEN [v |-> 0, p |-> Bad]
              ELSE [v |-> [name |-> name.v, shape |-> shape.v, type |-> type.v,
                           offset |-> off.v, nbytes |-> TensorBytes(shape.v, type.v)],
                    p |-> off.p]
      BY <1>2, <2>1, <2>2, <2>4
    <3>5. CASE q <= Len(file)
      <4>1. e <= Len(file)
        BY <1>4, <3>5
      <4>2. /\ name.v = t.name.text /\ shape.v = t.shape /\ type.v = t.type
            /\ off.v = offset /\ off.p = q /\ q # Bad
        BY <1>4, <1>8, <1>10, <3>2, <3>3, <3>5, <4>1 DEF Yields, Bad
      <4>3. R = IF Elements(t.shape) % TypeTraits[t.type][1] # 0 THEN [v |-> 0, p |-> Bad]
                ELSE [v |-> IsDescribed(t, offset), p |-> q]
        BY <1>3, <3>4, <4>2 DEF IsDescribed
      <4>4. LegalTensor(t) <=> Elements(t.shape) % TypeTraits[t.type][1] = 0
        BY <1>3, <2>4 DEF LegalTensor, n
      <4>5. CASE LegalTensor(t)
        BY <3>5, <4>3, <4>4, <4>5 DEF Yields, R
      <4>6. CASE ~LegalTensor(t)
        BY <4>3, <4>4, <4>6 DEF R
      <4>. QED
        BY <4>5, <4>6
    <3>6. CASE ~(q <= Len(file))
      <4>1. off.p = Bad
        BY <3>3, <3>6 DEF Yields
      <4>2. R.p = Bad
        BY <3>4, <4>1
      <4>. QED
        BY <3>6, <4>2 DEF Yields, R
    <3>. QED
      BY <3>5, <3>6
  <2>. QED
    BY <2>3, <2>4
<1>. QED
  BY <1>9, <1>10

\* After a read that failed none succeeds.
LEMMA NoTensor ==
  ASSUME NEW file
  PROVE  ReadTensor(file, Bad).p = Bad
<1> DEFINE name == ReadString(file, Bad)  rank == Read(file, name.p, 4)
<1>1. name.p = Bad
  BY NoString
<1>2. rank.p = Bad
  BY <1>1, ReadsNothing
<1>3. rank.p = Bad => ReadTensor(file, Bad) = [v |-> 0, p |-> Bad]
  BY DEF ReadTensor
<1>. QED
  BY <1>2, <1>3

\* Aligned to a.
Multiple(x, a) == \E q \in Nat : x = a * q

\* Then nothing is left over.
LEMMA MultipleOf ==
  ASSUME NEW a \in Nat \ {0}, NEW x, Multiple(x, a)
  PROVE  x \in Nat /\ x % a = 0
<1>1. PICK q \in Nat : x = a * q
  BY DEF Multiple
<1>2. (a * q) % a = 0 /\ a * q \in Nat
  OBVIOUS
<1>. QED
  BY <1>1, <1>2

\* Aligned parts one after the other.
LEMMA Multiples ==
  ASSUME NEW a \in Nat \ {0}, NEW x, Multiple(x, a), NEW y, Multiple(y, a)
  PROVE  Multiple(x + y, a)
<1>1. PICK q \in Nat : x = a * q
  BY DEF Multiple
<1>2. PICK r \in Nat : y = a * r
  BY DEF Multiple
<1>3. x + y = a * (q + r) /\ q + r \in Nat
  BY <1>1, <1>2
<1>. QED
  BY <1>3 DEF Multiple

\* The bytes to the next multiple.
PaddingLength(n, a) == (a - (n % a)) % a

\* AlignUp goes to the next multiple, by as many bytes.
LEMMA NextMultiple ==
  ASSUME NEW n \in Nat, NEW a \in Nat \ {0}
  PROVE  /\ PaddingLength(n, a) \in Nat /\ Multiple(n + PaddingLength(n, a), a)
         /\ AlignUp(n, a) = n + PaddingLength(n, a)
<1> DEFINE q == n \div a  r == n % a
<1>1. q \in Nat /\ r \in Nat /\ r < a /\ n = a * q + r
  OBVIOUS
<1>2. CASE r = 0
  <2>1. PaddingLength(n, a) = 0
    <3>1. (a - 0) % a = 0
      OBVIOUS
    <3>. QED
      BY <1>2, <3>1 DEF PaddingLength
  <2> HIDE DEF q, r
  <2>2. n = a * q
    BY <1>1, <1>2
  <2>3. (n + a - 1) \div a = q
    <3>1. n + a - 1 = a * q + (a - 1) /\ a - 1 \in Nat /\ a - 1 < a
      BY <2>2
    <3>. QED
      BY <1>1, <3>1
  <2>4. AlignUp(n, a) = n
    BY <1>1, <2>2, <2>3 DEF AlignUp
  <2>5. n + 0 = n
    OBVIOUS
  <2>. QED
    BY <1>1, <2>1, <2>2, <2>4, <2>5 DEF Multiple
<1>3. CASE r # 0
  <2>1. PaddingLength(n, a) = a - r
    <3> DEFINE k == a - r
    <3>1. k \in Nat /\ k < a
      BY <1>1, <1>3
    <3> HIDE DEF k
    <3>2. k % a = k
      BY <3>1
    <3>. QED
      BY <3>2 DEF PaddingLength, k
  <2> HIDE DEF q, r
  <2>2. n + (a - r) = a * (q + 1) /\ q + 1 \in Nat /\ a - r \in Nat
    BY <1>1, <1>3
  <2>3. (n + a - 1) \div a = q + 1
    <3>1. n + a - 1 = a * (q + 1) + (r - 1) /\ r - 1 \in Nat /\ r - 1 < a
      BY <1>1, <1>3
    <3> DEFINE z == n + a - 1  k == q + 1  j == r - 1
    <3>2. z = a * k + j /\ j \in Nat /\ j < a /\ k \in Nat
      BY <2>2, <3>1
    <3> HIDE DEF z, k, j
    <3>3. z \div a = k
      BY <3>2
    <3>. QED
      BY <3>3 DEF z, k
  <2>4. AlignUp(n, a) = a * (q + 1)
    BY <1>1, <2>2, <2>3 DEF AlignUp
  <2>. QED
    BY <1>1, <2>1, <2>2, <2>4 DEF Multiple
<1>. QED
  BY <1>2, <1>3

\* The padding has as many.
LEMMA PaddingIs ==
  ASSUME NEW n \in Nat, NEW a \in Nat \ {0}
  PROVE  /\ IsSequence(Padding(n, a)) /\ Len(Padding(n, a)) \in Nat
         /\ Multiple(n + Len(Padding(n, a)), a) /\ AlignUp(n, a) = n + Len(Padding(n, a))
<1> DEFINE k == PaddingLength(n, a)  z == [n |-> 1, v |-> 0]  g == [i \in 1..k |-> z]
<1>1. k \in Nat
  BY NextMultiple
<1>2. Padding(n, a) = g
  BY DEF Padding, PaddingLength
<1> HIDE DEF k, z
<1>3. g \in Seq({z}) /\ Len(g) = k
  BY <1>1
<1> HIDE DEF g
<1>4. IsSequence(Padding(n, a)) /\ Len(Padding(n, a)) = k
  BY <1>2, <1>3 DEF IsSequence
<1>. QED
  BY <1>1, <1>4, NextMultiple DEF k

\* A tensor's bytes and what follows them.
LEMMA StoredIs ==
  ASSUME NEW t, IsTensor(t), NEW a \in Nat \ {0}, NEW n, n = TensorBytes(t.shape, t.type)
  PROVE  /\ IsSequence(Stored(t, a)) /\ n \in Nat /\ Len(Stored(t, a)) \in Nat
         /\ n <= Len(Stored(t, a)) /\ Multiple(Len(Stored(t, a)), a)
         /\ IsSequence(Field(n, t.payload)) /\ Len(Field(n, t.payload)) = n
         /\ IsSequence(Padding(n, a))
         /\ Both(Stored(t, a), Field(n, t.payload), Padding(n, a))
<1> DEFINE u == Field(n, t.payload)  w == Padding(n, a)  y == Stored(t, a)
<1>1. n \in Nat
  BY BytesNat
<1>2. IsSequence(u) /\ Len(u) = n
  BY <1>1, Fields
<1>3. IsSequence(w) /\ Len(w) \in Nat /\ Multiple(n + Len(w), a)
  BY <1>1, PaddingIs
<1>4. Both(y, u, w)
  BY DEF Stored, Both
<1> HIDE DEF u, w, y
<1>5. IsSequence(y) /\ Len(y) = Len(u) + Len(w)
  <2>1. IsSequence(u) /\ IsSequence(w)
    BY <1>2, <1>3
  <2>. QED
    BY <1>4, <2>1, BothSeq
<1>6. Len(y) = n + Len(w) /\ Len(y) \in Nat /\ n <= Len(y)
  BY <1>1, <1>2, <1>3, <1>5
<1>7. Multiple(Len(y), a)
  BY <1>3, <1>6
<1>. QED
  BY <1>1, <1>2, <1>3, <1>4, <1>5, <1>6, <1>7 DEF u, w, y

\* A list of n tensors, and their bytes.
Tensors(ts, n) == IsList(ts) /\ n = Len(ts) /\ \A k \in DOMAIN ts : IsTensor(ts[k])
Blob(ts, a) == [k \in DOMAIN ts |-> Stored(ts[k], a)]

\* It is indexed by 1..n.
LEMMA TensorList ==
  ASSUME NEW ts, NEW n, Tensors(ts, n)
  PROVE  n \in Nat /\ DOMAIN ts = 1..n /\ \A k \in 1..n : IsTensor(ts[k])
<1>1. n \in Nat /\ ts = [k \in 1..n |-> ts[k]]
  BY DEF Tensors, IsList
<1>2. DOMAIN ts = 1..n
  BY <1>1
<1>. QED
  BY <1>1, <1>2 DEF Tensors

\* The blob is the tensors' bytes, one after the other.
LEMMA BlobParts ==
  ASSUME NEW ts, NEW n, Tensors(ts, n), NEW a \in Nat \ {0}
  PROVE  /\ IsParts(Blob(ts, a), n) /\ \A k \in 1..n : Blob(ts, a)[k] = Stored(ts[k], a)
         /\ \A i \in 0..n : [j \in 1..i |-> Blob(ts, a)[j]] = [j \in 1..i |-> Stored(ts[j], a)]
<1>1. n \in Nat /\ DOMAIN ts = 1..n /\ \A k \in 1..n : IsTensor(ts[k])
  BY TensorList
<1> DEFINE s == Blob(ts, a)
<1>2. s = [k \in 1..n |-> Stored(ts[k], a)]
  BY <1>1 DEF Blob
<1>3. s = [k \in 1..n |-> s[k]] /\ \A k \in 1..n : s[k] = Stored(ts[k], a)
  BY <1>2
<1> HIDE DEF s
<1>4. \A k \in 1..n : IsSequence(s[k])
  BY <1>1, <1>3, StoredIs
<1>5. ASSUME NEW i \in 0..n PROVE [j \in 1..i |-> s[j]] = [j \in 1..i |-> Stored(ts[j], a)]
  <2>1. \A j \in 1..i : j \in 1..n
    BY <1>1
  <2>. QED
    BY <1>3, <2>1
<1>6. IsParts(s, n)
  BY <1>3, <1>4 DEF IsParts
<1>. QED
  BY <1>3, <1>5, <1>6 DEF s

\* The bytes of a tensor.
BytesOf(t) == TensorBytes(t.shape, t.type)

\* Tensor k of the blob at base stands at P[k - 1].
StandsAt(P, file, base, ts, n, a) ==
  /\ P[0] = base /\ P[n] = base + OffsetOf(ts, n + 1, a) /\ \A i \in 0..n : P[i] \in Nat
  /\ \A k \in 1..n : /\ P[k - 1] = base + OffsetOf(ts, k, a) /\ OffsetOf(ts, k, a) \in Nat
                     /\ Multiple(P[k - 1], a) /\ BytesOf(ts[k]) \in Nat
                     /\ P[k - 1] + BytesOf(ts[k]) <= P[k]
                     /\ Has(file, P[k - 1], Field(BytesOf(ts[k]), ts[k].payload))

\* Tensors stand at their offsets from an aligned base, each aligned.
LEMMA BlobStands ==
  ASSUME NEW file, NEW ts, NEW n, Tensors(ts, n), NEW a \in Nat \ {0}, NEW base,
         Multiple(base, a), Has(file, base, FlattenSeq(Blob(ts, a)))
  PROVE  \E P : StandsAt(P, file, base, ts, n, a)
<1> DEFINE s == Blob(ts, a)
<1>1. n \in Nat /\ \A k \in 1..n : IsTensor(ts[k])
  BY TensorList
<1>2. /\ IsParts(s, n) /\ \A k \in 1..n : s[k] = Stored(ts[k], a)
      /\ \A i \in 0..n : [j \in 1..i |-> s[j]] = [j \in 1..i |-> Stored(ts[j], a)]
  BY BlobParts
<1>3. PICK P : Laid(P, file, base, s, n)
  BY <1>1, <1>2, HasParts
<1> HIDE DEF s
<1>4. /\ P[0] = base /\ \A i \in 0..n : P[i] \in Nat
      /\ \A i \in 1..n : /\ P[i] = P[i - 1] + Len(s[i]) /\ Len(s[i]) \in Nat
                         /\ Has(file, P[i - 1], s[i])
  BY <1>3 DEF Laid
<1>5. \A i \in 0..n : P[i] = base + Len(FlattenSeq([j \in 1..i |-> Stored(ts[j], a)]))
  BY <1>2, <1>3 DEF Laid
<1>6. \A i \in 0..n : P[i] = base + OffsetOf(ts, i + 1, a)
  <2>1. ASSUME NEW i \in 0..n
        PROVE  OffsetOf(ts, i + 1, a) = Len(FlattenSeq([j \in 1..i |-> Stored(ts[j], a)]))
    <3>1. (i + 1) - 1 = i
      BY <1>1
    <3>. QED
      BY <3>1 DEF OffsetOf
  <2>. QED
    BY <1>5, <2>1
<1>7. ASSUME NEW k \in 1..n
      PROVE  /\ k - 1 \in 0..n /\ P[k - 1] = base + OffsetOf(ts, k, a)
             /\ OffsetOf(ts, k, a) \in Nat
  <2>1. k - 1 \in 0..n /\ (k - 1) + 1 = k
    BY <1>1
  <2>2. P[k - 1] = base + OffsetOf(ts, k, a)
    BY <1>6, <2>1
  <2>3. OffsetOf(ts, k, a) = Len(FlattenSeq([j \in 1..(k - 1) |-> s[j]]))
    BY <1>2, <2>1 DEF OffsetOf
  <2>4. Len(FlattenSeq([j \in 1..(k - 1) |-> s[j]])) \in Nat
    <3> DEFINE r == [j \in 1..(k - 1) |-> s[j]]  d == k - 1
    <3>1. r = [j \in 1..d |-> r[j]] /\ \A j \in 1..d : r[j] = s[j] /\ j \in 1..n
      BY <1>1
    <3>2. \A j \in 1..n : IsSequence(s[j])
      BY <1>2 DEF IsParts
    <3>3. d \in Nat
      BY <1>1
    <3> HIDE DEF r, d
    <3>4. IsParts(r, d)
      BY <3>1, <3>2 DEF IsParts
    <3>5. Len(FlattenSeq(r)) \in Nat
      BY <3>3, <3>4, PartsSeq
    <3>. QED
      BY <3>5 DEF r
  <2>. QED
    BY <2>1, <2>2, <2>3, <2>4
<1>8. ASSUME NEW k \in 1..n
      PROVE  /\ BytesOf(ts[k]) \in Nat /\ BytesOf(ts[k]) <= Len(s[k]) /\ Multiple(Len(s[k]), a)
             /\ Has(file, P[k - 1], Field(BytesOf(ts[k]), ts[k].payload))
  <2> DEFINE t == ts[k]  z == BytesOf(t)  u == Field(z, t.payload)  w == Padding(z, a)  q == P[k - 1]
  <2>1. IsTensor(t)
    BY <1>1
  <2>2. /\ z \in Nat /\ z <= Len(Stored(t, a)) /\ Multiple(Len(Stored(t, a)), a)
        /\ IsSequence(u) /\ Len(u) = z /\ IsSequence(w) /\ Both(Stored(t, a), u, w)
        /\ Len(Stored(t, a)) \in Nat
    BY <2>1, StoredIs DEF BytesOf
  <2>3. s[k] = Stored(t, a) /\ Has(file, q, s[k]) /\ q \in Nat
    BY <1>2, <1>4, <1>7
  <2> HIDE DEF t, z, u, w, q
  <2>4. Has(file, q, u)
    <3> DEFINE y == Stored(t, a)
    <3>1. Has(file, q, y) /\ Both(y, u, w) /\ IsSequence(u) /\ IsSequence(w)
      BY <2>2, <2>3
    <3> HIDE DEF y
    <3> DEFINE b == q + Len(u)  c == b + Len(w)
    <3>2. Past(q, u, b) /\ Past(b, w, c)
      <4>1. Len(w) \in Nat
        BY <3>1, BothSeq
      <4>. QED
        BY <2>2, <2>3, <4>1 DEF Past
    <3> HIDE DEF b, c
    <3>. QED
      BY <3>1, <3>2, HasBoth
  <2>. QED
    BY <2>2, <2>3, <2>4 DEF t, z, u, q
<1>9. \A k \in 1..n : P[k - 1] + BytesOf(ts[k]) <= P[k]
  BY <1>4, <1>7, <1>8
<1> DEFINE K == {k \in Nat : k <= n => Multiple(P[k], a)}
<1>10. 0 \in K
  BY <1>4
<1>11. ASSUME NEW k \in K PROVE k + 1 \in K
  <2>1. ASSUME k + 1 <= n PROVE Multiple(P[k + 1], a)
    <3>1. k \in Nat /\ k + 1 \in 1..n /\ (k + 1) - 1 = k /\ k <= n
      BY <1>1, <2>1
    <3>2. P[k + 1] = P[k] + Len(s[k + 1])
      BY <1>4, <3>1
    <3>3. Multiple(P[k], a)
      BY <3>1
    <3>4. Multiple(Len(s[k + 1]), a)
      BY <1>8, <3>1
    <3>. QED
      BY <3>2, <3>3, <3>4, Multiples
  <2>. QED
    BY <2>1
<1>12. K = Nat
  <2>1. K \in SUBSET Nat
    OBVIOUS
  <2> HIDE DEF K
  <2>. QED
    BY <1>10, <1>11, <2>1, EveryNumber
<1>13. ASSUME NEW k \in 1..n PROVE Multiple(P[k - 1], a)
  <2>1. k - 1 \in K /\ k - 1 <= n
    BY <1>1, <1>12
  <2>. QED
    BY <2>1
<1> HIDE DEF K
<1>14. P[n] = base + OffsetOf(ts, n + 1, a)
  BY <1>1, <1>6
<1>. QED
  BY <1>4, <1>7, <1>8, <1>9, <1>13, <1>14 DEF StandsAt

\* How far a file must go to hold every tensor.
Enough(P, ts, n) == IF n = 0 THEN P[0] ELSE P[n - 1] + BytesOf(ts[n])

\* A file that goes that far holds every one of them, a shorter one does not.
LEMMA AllThere ==
  ASSUME NEW file, NEW L \in Nat, NEW ts, NEW n \in Nat, NEW a, NEW base, NEW P,
         StandsAt(P, file, base, ts, n, a)
  PROVE  /\ Enough(P, ts, n) \in Nat /\ base <= Enough(P, ts, n) /\ base \in Nat
         /\ (Enough(P, ts, n) <= L) <=> /\ base <= L
                                        /\ \A k \in 1..n : P[k - 1] + BytesOf(ts[k]) <= L
<1>1. /\ P[0] = base /\ \A i \in 0..n : P[i] \in Nat
      /\ \A k \in 1..n : BytesOf(ts[k]) \in Nat /\ P[k - 1] + BytesOf(ts[k]) <= P[k]
  BY DEF StandsAt
<1>2. \A k \in 1..n : k - 1 \in 0..n /\ k \in 0..n
  OBVIOUS
<1>3. /\ \A i \in 0..n : P[i] >= P[0] + i * 0
      /\ \A i \in 0..n : P[i] <= P[n]
  <2>1. \A i \in 1..n : P[i] >= P[i - 1] + 0
    BY <1>1, <1>2
  <2>. QED
    BY <1>1, <2>1, PartsGrow
<1>4. CASE n = 0
  BY <1>1, <1>4 DEF Enough
<1>5. CASE n # 0
  <2> DEFINE m == n - 1
  <2>1. m \in Nat /\ n \in 1..n /\ m \in 0..n /\ m + 1 = n
    BY <1>5
  <2>2. \A i \in 0..m : P[i] <= P[m]
    <3>1. \A i \in 0..m : P[i] \in Nat
      BY <1>1, <2>1
    <3>2. \A i \in 1..m : P[i] >= P[i - 1] + 0
      BY <1>1, <1>2, <2>1
    <3> HIDE DEF m
    <3>. QED
      BY <2>1, <3>1, <3>2, PartsGrow
  <2>3. \A k \in 1..n : k = n \/ (k \in 0..m /\ k - 1 \in 0..m)
    BY <2>1
  <2>4. P[m] \in Nat /\ BytesOf(ts[n]) \in Nat /\ Enough(P, ts, n) = P[m] + BytesOf(ts[n])
    BY <1>1, <1>5, <2>1 DEF Enough
  <2>5. \A k \in 1..n : P[k - 1] + BytesOf(ts[k]) <= Enough(P, ts, n)
    <3>1. ASSUME NEW k \in 1..n, k # n PROVE P[k - 1] + BytesOf(ts[k]) <= Enough(P, ts, n)
      <4>1. P[k - 1] + BytesOf(ts[k]) <= P[k] /\ P[k] <= P[m]
        BY <1>1, <2>2, <2>3, <3>1
      <4>2. P[k - 1] \in Nat /\ P[k] \in Nat /\ BytesOf(ts[k]) \in Nat
        BY <1>1, <1>2
      <4>. QED
        BY <2>4, <4>1, <4>2
    <3>2. P[n - 1] + BytesOf(ts[n]) <= Enough(P, ts, n)
      BY <2>4
    <3>. QED
      BY <3>1, <3>2
  <2>6. base <= P[m] /\ base \in Nat
    BY <1>1, <2>1, <2>2
  <2>7. base <= Enough(P, ts, n)
    BY <2>4, <2>6
  <2>8. \A k \in 1..n : P[k - 1] + BytesOf(ts[k]) \in Nat
    BY <1>1, <1>2
  <2> DEFINE e == Enough(P, ts, n)
  <2>9. e = P[n - 1] + BytesOf(ts[n]) /\ e \in Nat
    BY <2>4
  <2> HIDE DEF e, m
  <2>10. e <= L <=> base <= L /\ \A k \in 1..n : P[k - 1] + BytesOf(ts[k]) <= L
    <3>1. ASSUME e <= L PROVE base <= L /\ \A k \in 1..n : P[k - 1] + BytesOf(ts[k]) <= L
      <4>1. \A k \in 1..n : P[k - 1] + BytesOf(ts[k]) <= e
        BY <2>5 DEF e
      <4>2. base <= e
        BY <2>7 DEF e
      <4>. QED
        BY <2>6, <2>8, <2>9, <3>1, <4>1, <4>2
    <3>. QED
      BY <2>1, <2>9, <3>1
  <2>. QED
    BY <2>6, <2>7, <2>9, <2>10 DEF e
<1>. QED
  BY <1>4, <1>5

-----------------------------------------------------------------------------
(* All keys and all descriptors.                                            *)

\* A list of n keys, as they are written and as they are read.
Pairs(ps, n) == IsList(ps) /\ n = Len(ps) /\ \A k \in DOMAIN ps : IsPair(ps[k])
Keys(ps) == [k \in DOMAIN ps |-> WritePair(ps[k])]
KeysRead(ps) == [k \in DOMAIN ps |-> IsRead(ps[k])]

\* The keys are parts one after the other.
LEMMA KeysAre ==
  ASSUME NEW ps, NEW n, Pairs(ps, n)
  PROVE  /\ n \in Nat /\ IsParts(Keys(ps), n) /\ KeysRead(ps) = [k \in 1..n |-> IsRead(ps[k])]
         /\ \A k \in 1..n : IsPair(ps[k]) /\ Keys(ps)[k] = WritePair(ps[k])
<1>1. n \in Nat /\ ps = [k \in 1..n |-> ps[k]]
  BY DEF Pairs, IsList
<1>2. DOMAIN ps = 1..n
  BY <1>1
<1>3. \A k \in 1..n : IsPair(ps[k])
  BY <1>2 DEF Pairs
<1> DEFINE s == Keys(ps)
<1>4. s = [k \in 1..n |-> WritePair(ps[k])]
  BY <1>2 DEF Keys
<1>5. s = [k \in 1..n |-> s[k]] /\ \A k \in 1..n : s[k] = WritePair(ps[k])
  BY <1>4
<1> HIDE DEF s
<1>6. \A k \in 1..n : IsSequence(s[k])
  BY <1>3, <1>5, PairSeq
<1>7. IsParts(s, n)
  BY <1>5, <1>6 DEF IsParts
<1>. QED
  BY <1>1, <1>2, <1>3, <1>5, <1>7 DEF s, KeysRead

\* The first i keys have a case.
CasedKeys(ps, i) == \A j \in 1..i : HasCase(ps[j])

\* Where the keys end, those from the first without a case on beyond the file.
KeyEnds(P, ps, n, L) == [i \in 0..n |-> IF CasedKeys(ps, i) THEN P[i] ELSE L + 1 + P[i]]

\* The keys are read if the file has all of them and all have a case.
LEMMA KeysReadBack ==
  ASSUME NEW file, Len(file) \in Nat, NEW ps, NEW n, Pairs(ps, n),
         NEW b, Has(file, b, FlattenSeq(Keys(ps))), b <= Len(file),
         NEW q, Past(b, FlattenSeq(Keys(ps)), q)
  PROVE  /\ CasedKeys(ps, n) => Yields(file, ReadAll(file, b, n, ReadPair), KeysRead(ps), q)
         /\ ~CasedKeys(ps, n) => ReadAll(file, b, n, ReadPair).p = Bad
<1> DEFINE L == Len(file)  s == Keys(ps)
<1>1. /\ n \in Nat /\ IsParts(s, n) /\ KeysRead(ps) = [k \in 1..n |-> IsRead(ps[k])]
      /\ \A k \in 1..n : IsPair(ps[k]) /\ s[k] = WritePair(ps[k])
  BY KeysAre
<1>2. PICK P : Laid(P, file, b, s, n)
  BY <1>1, HasParts
<1>3. q = b + Len(FlattenSeq(s))
  BY DEF Past
<1> HIDE DEF s
<1>4. /\ P[0] = b /\ P[n] = q /\ \A i \in 0..n : P[i] \in Nat
      /\ \A i \in 1..n : /\ P[i] = P[i - 1] + Len(s[i]) /\ Len(s[i]) \in Nat
                         /\ Has(file, P[i - 1], s[i])
  BY <1>2, <1>3 DEF Laid
<1>5. ASSUME NEW i \in 1..n
      PROVE  /\ P[i] >= P[i - 1] /\ P[i] = P[i - 1] + Len(WritePair(ps[i]))
             /\ Has(file, P[i - 1], WritePair(ps[i])) /\ IsPair(ps[i])
             /\ i - 1 \in 0..n /\ i \in 0..n /\ P[i - 1] \in Nat /\ P[i] \in Nat
  <2>1. /\ P[i] = P[i - 1] + Len(s[i]) /\ Len(s[i]) \in Nat /\ Has(file, P[i - 1], s[i])
        /\ s[i] = WritePair(ps[i]) /\ IsPair(ps[i])
    BY <1>1, <1>4
  <2>2. i - 1 \in 0..n /\ i \in 0..n /\ P[i - 1] \in Nat /\ P[i] \in Nat
    BY <1>1, <1>4
  <2>3. P[i] >= P[i - 1]
    BY <2>1, <2>2
  <2>. QED
    BY <2>1, <2>2, <2>3
<1> DEFINE Q == KeyEnds(P, ps, n, L)
<1>6. \A i \in 0..n : Q[i] = IF CasedKeys(ps, i) THEN P[i] ELSE L + 1 + P[i]
  BY DEF KeyEnds
<1> HIDE DEF Q
<1>7. L \in Nat /\ Q[0] = b /\ \A i \in 0..n : Q[i] \in Nat /\ P[i] \in Nat
  <2>1. CasedKeys(ps, 0) /\ 0 \in 0..n
    BY <1>1 DEF CasedKeys
  <2>. QED
    BY <1>4, <1>6, <2>1
<1>8. ASSUME NEW i \in 1..n
      PROVE  Q[i] >= Q[i - 1] /\ (CasedKeys(ps, i) <=> CasedKeys(ps, i - 1) /\ HasCase(ps[i]))
  <2>1. CasedKeys(ps, i) <=> CasedKeys(ps, i - 1) /\ HasCase(ps[i])
    <3>1. \A j \in 1..i : j \in 1..(i - 1) \/ j = i
      BY <1>1
    <3>2. \A j \in 1..(i - 1) : j \in 1..i
      BY <1>1
    <3>3. i \in 1..i
      BY <1>1
    <3>. QED
      BY <3>1, <3>2, <3>3 DEF CasedKeys
  <2>2. /\ i \in 0..n /\ i - 1 \in 0..n /\ P[i - 1] \in Nat /\ P[i] \in Nat
        /\ P[i] >= P[i - 1] /\ L \in Nat
    BY <1>5, <1>7
  <2>3. /\ Q[i] = IF CasedKeys(ps, i) THEN P[i] ELSE L + 1 + P[i]
        /\ Q[i - 1] = IF CasedKeys(ps, i - 1) THEN P[i - 1] ELSE L + 1 + P[i - 1]
    BY <1>6, <2>2
  <2> HIDE DEF L
  <2>4. CASE CasedKeys(ps, i)
    BY <2>1, <2>2, <2>3, <2>4
  <2>5. CASE ~CasedKeys(ps, i)
    BY <2>1, <2>2, <2>3, <2>5
  <2>. QED
    BY <2>4, <2>5
<1> DEFINE G == EndsAt(Q, n, L)
<1>9. Ended(G, Q, n, L)
  <2>1. /\ L \in Nat /\ n \in Nat /\ Q[0] <= L /\ \A i \in 0..n : Q[i] \in Nat
        /\ \A i \in 1..n : Q[i] >= Q[i - 1]
    BY <1>1, <1>7, <1>8
  <2>. QED
    BY <2>1, Ends
<1> HIDE DEF G
<1>10. ASSUME NEW i \in 1..n
       PROVE  /\ ReadPair(file, G[i - 1]).p = G[i]
              /\ Q[i] <= L /\ Q[i - 1] <= L => ReadPair(file, G[i - 1]).v = IsRead(ps[i])
  <2> DEFINE x == ReadPair(file, P[i - 1])
  <2>1. /\ HasCase(ps[i]) => Yields(file, x, IsRead(ps[i]), P[i])
        /\ ~HasCase(ps[i]) => x.p = Bad
    <3>1. /\ HasCase(ps[i])
                => Yields(file, x, IsRead(ps[i]), P[i - 1] + Len(WritePair(ps[i])))
          /\ ~HasCase(ps[i]) => x.p = Bad
      BY <1>5, PairRead
    <3>. QED
      BY <1>5, <3>1
  <2>2. CASE Q[i - 1] <= L
    <3>1. G[i - 1] = Q[i - 1] /\ G[i] = IF Q[i] <= L THEN Q[i] ELSE Bad
      BY <1>9, <2>2 DEF Ended
    <3>2. Q[i - 1] = P[i - 1] /\ CasedKeys(ps, i - 1)
      BY <1>5, <1>6, <1>7, <2>2
    <3>3. Q[i] = IF HasCase(ps[i]) THEN P[i] ELSE L + 1 + P[i]
      BY <1>5, <1>6, <1>8, <3>2
    <3>4. ReadPair(file, G[i - 1]) = x
      BY <3>1, <3>2
    <3> HIDE DEF x
    <3>5. HasCase(ps[i]) /\ P[i] <= L => x.v = IsRead(ps[i]) /\ x.p = P[i]
      BY <2>1 DEF Yields
    <3>6. ~(HasCase(ps[i]) /\ P[i] <= L) => x.p = Bad
      BY <2>1 DEF Yields
    <3>7. Q[i] <= L <=> HasCase(ps[i]) /\ P[i] <= L
      BY <1>5, <1>7, <3>3
    <3>. QED
      BY <3>1, <3>3, <3>4, <3>5, <3>6, <3>7
  <2>3. CASE ~(Q[i - 1] <= L)
    <3>1. G[i - 1] = Bad /\ G[i] = Bad
      BY <1>9, <2>3 DEF Ended
    <3>. QED
      BY <2>3, <3>1, NoPair
  <2>. QED
    BY <2>2, <2>3
<1>11. ReadAll(file, b, n, ReadPair) = [v |-> PairsAt(file, G, n), p |-> G[n]]
  <2>1. n \in Nat /\ PairsEnd(file, G, b, n)
    BY <1>1, <1>7, <1>9, <1>10 DEF Ended, PairsEnd
  <2>. QED
    BY <2>1, PairsInARow
<1>12. n \in 0..n /\ P[n] = q /\ q \in Nat
  BY <1>1, <1>4
<1>13. CASE CasedKeys(ps, n) /\ q <= L
  <2>1. Q[n] = q /\ Q[n] <= L
    BY <1>6, <1>12, <1>13
  <2>2. \A i \in 1..n : Q[i] <= L /\ Q[i - 1] <= L
    BY <1>5, <1>9, <2>1 DEF Ended
  <2>3. \A i \in 1..n : ReadPair(file, G[i - 1]).v = IsRead(ps[i])
    BY <1>10, <2>2
  <2>4. PairsAt(file, G, n) = KeysRead(ps)
    BY <1>1, <2>3 DEF PairsAt
  <2>5. G[n] = q
    BY <1>9, <2>1 DEF Ended
  <2>6. ReadAll(file, b, n, ReadPair) = [v |-> KeysRead(ps), p |-> q]
    BY <1>11, <2>4, <2>5
  <2>. QED
    BY <1>13, <2>6 DEF Yields
<1>14. CASE ~(CasedKeys(ps, n) /\ q <= L)
  <2>1. ~(Q[n] <= L)
    BY <1>6, <1>7, <1>12, <1>14
  <2>2. ReadAll(file, b, n, ReadPair).p = Bad
    BY <1>9, <1>11, <2>1 DEF Ended
  <2>. QED
    BY <1>14, <2>2 DEF Yields
<1>. QED
  BY <1>13, <1>14

\* The descriptors as they are written and as they are read.
Descriptors(ts, a) == [k \in DOMAIN ts |-> WriteTensor(ts, k, a)]
TensorsRead(ts, a) == [k \in DOMAIN ts |-> IsDescribed(ts[k], OffsetOf(ts, k, a))]
TensorWritten(ts, k, a) == Descriptor(ts[k], OffsetOf(ts, k, a))

\* A descriptor is a sequence.
LEMMA DescriptorSeq ==
  ASSUME NEW t, IsTensor(t), NEW offset
  PROVE  IsSequence(Descriptor(t, offset))
<1> DEFINE u == WriteString(t.name)  w == Field(4, Len(t.shape))
           x == FlattenSeq(Dimensions(t.shape))
           y == Field(4, t.type)  z == Field(8, offset)  D == Descriptor(t, offset)
           h == u \o w  g == h \o x  f == g \o y
<1>1. Both(h, u, w) /\ Both(g, h, x) /\ Both(f, g, y) /\ Both(D, f, z)
  BY DEF Both, Descriptor
<1>2. IsSequence(u) /\ IsSequence(x)
  BY DescriptorIs
<1> HIDE DEF h, g, f, D, u, x
<1>3. IsSequence(w) /\ IsSequence(y) /\ IsSequence(z)
  BY SmallFields
<1> HIDE DEF w, y, z
<1>4. /\ IsSequence(h) /\ IsSequence(g) /\ IsSequence(f) /\ IsSequence(D)
      /\ Len(u) \in Nat /\ Len(w) \in Nat /\ Len(x) \in Nat /\ Len(y) \in Nat /\ Len(z) \in Nat
      /\ Len(h) = Len(u) + Len(w) /\ Len(g) = Len(h) + Len(x) /\ Len(f) = Len(g) + Len(y)
      /\ Len(D) = Len(f) + Len(z) /\ Len(D) \in Nat
  BY ONLY <1>1, <1>2, <1>3, FiveParts
<1>. QED
  BY <1>4 DEF D

\* The descriptors are parts one after the other.
LEMMA DescriptorsAre ==
  ASSUME NEW ts, NEW n, Tensors(ts, n), NEW a
  PROVE  /\ n \in Nat /\ IsParts(Descriptors(ts, a), n)
         /\ TensorsRead(ts, a) = [k \in 1..n |-> IsDescribed(ts[k], OffsetOf(ts, k, a))]
         /\ \A k \in 1..n : /\ IsTensor(ts[k])
                            /\ Descriptors(ts, a)[k] = TensorWritten(ts, k, a)
<1>1. n \in Nat /\ DOMAIN ts = 1..n /\ \A k \in 1..n : IsTensor(ts[k])
  BY TensorList
<1> DEFINE s == Descriptors(ts, a)
<1>2. \A k : WriteTensor(ts, k, a) = TensorWritten(ts, k, a)
  BY DEF WriteTensor, TensorWritten, Descriptor, Dimensions
<1>3. s = [k \in 1..n |-> TensorWritten(ts, k, a)]
  BY <1>1, <1>2 DEF Descriptors
<1>4. s = [k \in 1..n |-> s[k]] /\ \A k \in 1..n : s[k] = TensorWritten(ts, k, a)
  BY <1>3
<1> HIDE DEF s
<1>5. ASSUME NEW k \in 1..n PROVE IsSequence(TensorWritten(ts, k, a))
  BY <1>1, DescriptorSeq DEF TensorWritten
<1>6. IsParts(s, n)
  BY <1>4, <1>5 DEF IsParts
<1>. QED
  BY <1>1, <1>4, <1>6 DEF s, TensorsRead

\* The first i tensors are legal.
LegalUpTo(ts, i) == \A j \in 1..i : LegalTensor(ts[j])

\* Where the descriptors end, those from the first illegal one on beyond the file.
LegalEnds(P, ts, n, L) == [i \in 0..n |-> IF LegalUpTo(ts, i) THEN P[i] ELSE L + 1 + P[i]]

\* The descriptors are read if the file has all of them and all are legal.
LEMMA TensorsReadBack ==
  ASSUME NEW file, Len(file) \in Nat, NEW ts, NEW n, Tensors(ts, n), NEW a,
         NEW b, Has(file, b, FlattenSeq(Descriptors(ts, a))), b <= Len(file),
         NEW q, Past(b, FlattenSeq(Descriptors(ts, a)), q)
  PROVE  /\ LegalUpTo(ts, n)
              => Yields(file, ReadAll(file, b, n, ReadTensor), TensorsRead(ts, a), q)
         /\ ~LegalUpTo(ts, n) => ReadAll(file, b, n, ReadTensor).p = Bad
<1> DEFINE L == Len(file)  s == Descriptors(ts, a)
<1>1. /\ n \in Nat /\ IsParts(s, n)
      /\ TensorsRead(ts, a) = [k \in 1..n |-> IsDescribed(ts[k], OffsetOf(ts, k, a))]
      /\ \A k \in 1..n : IsTensor(ts[k]) /\ s[k] = TensorWritten(ts, k, a)
  BY DescriptorsAre
<1>2. PICK P : Laid(P, file, b, s, n)
  BY <1>1, HasParts
<1>3. q = b + Len(FlattenSeq(s))
  BY DEF Past
<1> HIDE DEF s
<1>4. /\ P[0] = b /\ P[n] = q /\ \A i \in 0..n : P[i] \in Nat
      /\ \A i \in 1..n : /\ P[i] = P[i - 1] + Len(s[i]) /\ Len(s[i]) \in Nat
                         /\ Has(file, P[i - 1], s[i])
  BY <1>2, <1>3 DEF Laid
<1>5. ASSUME NEW i \in 1..n
      PROVE  /\ P[i] >= P[i - 1] /\ Past(P[i - 1], TensorWritten(ts, i, a), P[i])
             /\ Has(file, P[i - 1], TensorWritten(ts, i, a)) /\ IsTensor(ts[i])
             /\ i - 1 \in 0..n /\ i \in 0..n /\ P[i - 1] \in Nat /\ P[i] \in Nat
  <2>1. /\ P[i] = P[i - 1] + Len(s[i]) /\ Len(s[i]) \in Nat /\ Has(file, P[i - 1], s[i])
        /\ s[i] = TensorWritten(ts, i, a) /\ IsTensor(ts[i])
    BY <1>1, <1>4
  <2>2. i - 1 \in 0..n /\ i \in 0..n /\ P[i - 1] \in Nat /\ P[i] \in Nat
    BY <1>1, <1>4
  <2>3. P[i] >= P[i - 1]
    BY <2>1, <2>2
  <2>. QED
    BY <2>1, <2>2, <2>3 DEF Past
<1> DEFINE Q == LegalEnds(P, ts, n, L)
<1>6. \A i \in 0..n : Q[i] = IF LegalUpTo(ts, i) THEN P[i] ELSE L + 1 + P[i]
  BY DEF LegalEnds
<1> HIDE DEF Q
<1>7. L \in Nat /\ Q[0] = b /\ \A i \in 0..n : Q[i] \in Nat /\ P[i] \in Nat
  <2>1. LegalUpTo(ts, 0) /\ 0 \in 0..n
    BY <1>1 DEF LegalUpTo
  <2>. QED
    BY <1>4, <1>6, <2>1
<1>8. ASSUME NEW i \in 1..n
      PROVE  Q[i] >= Q[i - 1] /\ (LegalUpTo(ts, i) <=> LegalUpTo(ts, i - 1) /\ LegalTensor(ts[i]))
  <2>1. LegalUpTo(ts, i) <=> LegalUpTo(ts, i - 1) /\ LegalTensor(ts[i])
    <3>1. \A j \in 1..i : j \in 1..(i - 1) \/ j = i
      BY <1>1
    <3>2. \A j \in 1..(i - 1) : j \in 1..i
      BY <1>1
    <3>3. i \in 1..i
      BY <1>1
    <3>. QED
      BY <3>1, <3>2, <3>3 DEF LegalUpTo
  <2>. QED
    BY <1>5, <1>6, <1>7, <2>1
<1> DEFINE G == EndsAt(Q, n, L)
<1>9. Ended(G, Q, n, L)
  <2>1. /\ L \in Nat /\ n \in Nat /\ Q[0] <= L /\ \A i \in 0..n : Q[i] \in Nat
        /\ \A i \in 1..n : Q[i] >= Q[i - 1]
    BY <1>1, <1>7, <1>8
  <2>. QED
    BY <2>1, Ends
<1> HIDE DEF G
<1> DEFINE D(i) == IsDescribed(ts[i], OffsetOf(ts, i, a))
<1>10. ASSUME NEW i \in 1..n
       PROVE  /\ ReadTensor(file, G[i - 1]).p = G[i]
              /\ Q[i] <= L /\ Q[i - 1] <= L => ReadTensor(file, G[i - 1]).v = D(i)
  <2> DEFINE x == ReadTensor(file, P[i - 1])
  <2>1. /\ LegalTensor(ts[i]) => Yields(file, x, D(i), P[i])
        /\ ~LegalTensor(ts[i]) => x.p = Bad
    <3>1. /\ IsTensor(ts[i]) /\ Has(file, P[i - 1], Descriptor(ts[i], OffsetOf(ts, i, a)))
          /\ Past(P[i - 1], Descriptor(ts[i], OffsetOf(ts, i, a)), P[i])
      BY <1>5 DEF TensorWritten
    <3>. QED
      BY <3>1, TensorRead
  <2>2. CASE Q[i - 1] <= L
    <3>1. G[i - 1] = Q[i - 1] /\ G[i] = IF Q[i] <= L THEN Q[i] ELSE Bad
      BY <1>9, <2>2 DEF Ended
    <3>2. Q[i - 1] = P[i - 1] /\ LegalUpTo(ts, i - 1)
      BY <1>5, <1>6, <1>7, <2>2
    <3>3. Q[i] = IF LegalTensor(ts[i]) THEN P[i] ELSE L + 1 + P[i]
      BY <1>5, <1>6, <1>8, <3>2
    <3>4. ReadTensor(file, G[i - 1]) = x
      BY <3>1, <3>2
    <3> HIDE DEF x, D
    <3>5. LegalTensor(ts[i]) /\ P[i] <= L => x.v = D(i) /\ x.p = P[i]
      BY <2>1 DEF Yields
    <3>6. ~(LegalTensor(ts[i]) /\ P[i] <= L) => x.p = Bad
      BY <2>1 DEF Yields
    <3>7. Q[i] <= L <=> LegalTensor(ts[i]) /\ P[i] <= L
      BY <1>5, <1>7, <3>3
    <3>. QED
      BY <3>1, <3>3, <3>4, <3>5, <3>6, <3>7
  <2>3. CASE ~(Q[i - 1] <= L)
    <3>1. G[i - 1] = Bad /\ G[i] = Bad
      BY <1>9, <2>3 DEF Ended
    <3>. QED
      BY <2>3, <3>1, NoTensor
  <2>. QED
    BY <2>2, <2>3
<1>11. ReadAll(file, b, n, ReadTensor) = [v |-> TensorsAt(file, G, n), p |-> G[n]]
  <2>1. n \in Nat /\ TensorsEnd(file, G, b, n)
    BY <1>1, <1>7, <1>9, <1>10 DEF Ended, TensorsEnd
  <2>. QED
    BY <2>1, TensorsInARow
<1>12. n \in 0..n /\ P[n] = q /\ q \in Nat
  BY <1>1, <1>4
<1>13. CASE LegalUpTo(ts, n) /\ q <= L
  <2>1. Q[n] = q /\ Q[n] <= L
    BY <1>6, <1>12, <1>13
  <2>2. \A i \in 1..n : Q[i] <= L /\ Q[i - 1] <= L
    BY <1>5, <1>9, <2>1 DEF Ended
  <2>3. \A i \in 1..n : ReadTensor(file, G[i - 1]).v = IsDescribed(ts[i], OffsetOf(ts, i, a))
    BY <1>10, <2>2
  <2>4. TensorsAt(file, G, n) = TensorsRead(ts, a)
    BY <1>1, <2>3 DEF TensorsAt
  <2>5. G[n] = q
    BY <1>9, <2>1 DEF Ended
  <2>6. ReadAll(file, b, n, ReadTensor) = [v |-> TensorsRead(ts, a), p |-> q]
    BY <1>11, <2>4, <2>5
  <2>. QED
    BY <1>13, <2>6 DEF Yields
<1>14. CASE ~(LegalUpTo(ts, n) /\ q <= L)
  <2>1. ~(Q[n] <= L)
    BY <1>6, <1>7, <1>12, <1>14
  <2>2. ReadAll(file, b, n, ReadTensor).p = Bad
    BY <1>9, <1>11, <2>1 DEF Ended
  <2>. QED
    BY <1>14, <2>2 DEF Yields
<1>. QED
  BY <1>13, <1>14

-----------------------------------------------------------------------------
(* The file as a whole, and what opening it gives.                          *)

\* The blob is as long as the offset after its last tensor.
LEMMA BlobEnds ==
  ASSUME NEW ts, NEW n, Tensors(ts, n), NEW a \in Nat \ {0}
  PROVE  /\ n \in Nat /\ IsSequence(FlattenSeq(Blob(ts, a)))
         /\ OffsetOf(ts, n + 1, a) = Len(FlattenSeq(Blob(ts, a))) /\ OffsetOf(ts, n + 1, a) \in Nat
<1>1. n \in Nat /\ DOMAIN ts = 1..n
  BY TensorList
<1>2. IsParts(Blob(ts, a), n)
  BY BlobParts
<1>3. IsSequence(FlattenSeq(Blob(ts, a))) /\ Len(FlattenSeq(Blob(ts, a))) \in Nat
  BY <1>1, <1>2, PartsSeq
<1>4. Blob(ts, a) = [j \in 1..n |-> Stored(ts[j], a)]
  BY <1>1 DEF Blob
<1>5. (n + 1) - 1 = n
  BY <1>1
<1>. QED
  BY <1>1, <1>3, <1>4, <1>5 DEF OffsetOf

\* Where the parts of a file end: the keys, the descriptors, the padding, the blob.
Parted(file, m, keys, head, base, end) ==
  LET K == FlattenSeq(Keys(m.pairs))  D == FlattenSeq(Descriptors(m.tensors, m.align))
      B == FlattenSeq(Blob(m.tensors, m.align))
  IN  /\ Has(file, 0, Field(4, "GGUF")) /\ Has(file, 4, Field(4, m.version))
      /\ Has(file, 8, Field(8, Len(m.tensors))) /\ Has(file, 16, Field(8, Len(m.pairs)))
      /\ Has(file, 24, K) /\ Past(24, K, keys) /\ Has(file, keys, D) /\ Past(keys, D, head)
      /\ base = AlignUp(head, m.align) /\ Multiple(base, m.align) /\ base \in Nat /\ head <= base
      /\ Has(file, base, B) /\ Past(base, B, end) /\ end = Len(WriteFile(m))
      /\ keys \in Nat /\ head \in Nat /\ 24 <= keys /\ keys <= head

\* A file has these parts.
LEMMA FileParts ==
  ASSUME NEW m, m.align \in Nat \ {0}, NEW n, Pairs(m.pairs, n), NEW k, Tensors(m.tensors, k),
         NEW file, Has(file, 0, WriteFile(m))
  PROVE  /\ IsSequence(WriteFile(m)) /\ Len(WriteFile(m)) \in Nat
         /\ \E keys, head, base, end : Parted(file, m, keys, head, base, end)
<1> DEFINE a == m.align  nt == Len(m.tensors)  np == Len(m.pairs)
           u1 == Field(4, "GGUF")  u2 == Field(4, m.version)
           u3 == Field(8, nt)  u4 == Field(8, np)
           K == FlattenSeq(Keys(m.pairs))  D == FlattenSeq(Descriptors(m.tensors, a))
           B == FlattenSeq(Blob(m.tensors, a))
           h2 == u1 \o u2  h3 == h2 \o u3  h4 == h3 \o u4  h5 == h4 \o K  h6 == h5 \o D
           X == Padding(Len(h6), a)  h7 == h6 \o X  W == WriteFile(m)
<1>1. /\ Both(h2, u1, u2) /\ Both(h3, h2, u3) /\ Both(h4, h3, u4) /\ Both(h5, h4, K)
      /\ Both(h6, h5, D) /\ Both(h7, h6, X) /\ Both(W, h7, B)
  BY DEF Both, WriteFile, Keys, Descriptors, Blob
<1> HIDE DEF nt, np
<1>2. /\ IsSequence(u1) /\ IsSequence(u2) /\ IsSequence(u3) /\ IsSequence(u4)
      /\ Len(u1) = 4 /\ Len(u2) = 4 /\ Len(u3) = 8 /\ Len(u4) = 8
  <2>1. IsSequence(u1) /\ Len(u1) = 4
    BY Fields
  <2>2. IsSequence(u2) /\ Len(u2) = 4
    BY Fields
  <2>3. ASSUME NEW x PROVE IsSequence(Field(8, x)) /\ Len(Field(8, x)) = 8
    BY ONLY Fields
  <2>4. IsSequence(u3) /\ Len(u3) = 8 /\ IsSequence(u4) /\ Len(u4) = 8
    BY ONLY <2>3
  <2>. QED
    BY <2>1, <2>2, <2>4
<1>3. IsSequence(K)
  BY KeysAre, PartsSeq
<1>4. IsSequence(D)
  BY DescriptorsAre, PartsSeq
<1>5. IsSequence(B)
  BY BlobEnds
<1> HIDE DEF u1, u2, u3, u4, K, D, B, h2, h3, h4, h5, h6, h7, W
<1>6. /\ IsSequence(u1) /\ IsSequence(u2) /\ IsSequence(u3) /\ IsSequence(u4)
  BY <1>2
<1>7. IsSequence(h2) /\ Len(h2) = Len(u1) + Len(u2)
  BY <1>1, <1>6, BothSeq
<1>8. IsSequence(h3) /\ Len(h3) = Len(h2) + Len(u3)
  BY <1>1, <1>6, <1>7, BothSeq
<1>9. IsSequence(h4) /\ Len(h4) = Len(h3) + Len(u4)
  BY <1>1, <1>6, <1>8, BothSeq
<1>10. IsSequence(h5) /\ Len(h5) = Len(h4) + Len(K) /\ Len(K) \in Nat
  BY <1>1, <1>3, <1>9, BothSeq
<1>11. IsSequence(h6) /\ Len(h6) = Len(h5) + Len(D) /\ Len(D) \in Nat /\ Len(h6) \in Nat
  BY <1>1, <1>4, <1>10, BothSeq
<1>12. /\ IsSequence(X) /\ Len(X) \in Nat /\ Multiple(Len(h6) + Len(X), a)
       /\ AlignUp(Len(h6), a) = Len(h6) + Len(X)
  BY <1>11, PaddingIs
<1> HIDE DEF X, a
<1>13. IsSequence(h7) /\ Len(h7) = Len(h6) + Len(X)
  BY <1>1, <1>11, <1>12, BothSeq
<1>14. IsSequence(W) /\ Len(W) = Len(h7) + Len(B) /\ Len(B) \in Nat /\ Len(W) \in Nat
  BY <1>1, <1>5, <1>13, BothSeq
<1> DEFINE keys == Len(h5)  head == Len(h6)  base == Len(h7)  end == Len(W)
<1>15. Len(h2) = 8 /\ Len(h3) = 16 /\ Len(h4) = 24
  BY <1>2, <1>7, <1>8, <1>9
<1>16. /\ keys \in Nat /\ head \in Nat /\ base \in Nat /\ end \in Nat
       /\ keys = 24 + Len(K) /\ head = keys + Len(D) /\ base = head + Len(X) /\ end = base + Len(B)
       /\ 24 <= keys /\ keys <= head /\ head <= base
  BY <1>10, <1>11, <1>12, <1>13, <1>14, <1>15
<1>17. /\ Past(0, h2, 8) /\ Past(0, h3, 16) /\ Past(0, h4, 24) /\ Past(0, h5, keys)
       /\ Past(0, h6, head) /\ Past(0, h7, base) /\ Past(0, W, end)
  BY <1>14, <1>15, <1>16 DEF Past
<1>18. /\ Past(0, u1, 4) /\ Past(4, u2, 8) /\ Past(8, u3, 16) /\ Past(16, u4, 24)
       /\ Past(24, K, keys) /\ Past(keys, D, head) /\ Past(head, X, base) /\ Past(base, B, end)
  <2>1. Past(0, u1, 4) /\ Past(4, u2, 8) /\ Past(8, u3, 16) /\ Past(16, u4, 24)
    BY <1>2 DEF Past
  <2> HIDE DEF keys, head, base, end
  <2>2. Past(24, K, keys) /\ Past(keys, D, head)
    BY <1>10, <1>11, <1>16 DEF Past
  <2>3. Past(head, X, base) /\ Past(base, B, end)
    BY <1>12, <1>14, <1>16 DEF Past
  <2>. QED
    BY <2>1, <2>2, <2>3
<1> HIDE DEF keys, head, base, end
<1>19. Has(file, 0, W)
  BY DEF W
<1>20. Has(file, 0, h7) /\ Has(file, base, B)
  BY <1>1, <1>5, <1>13, <1>17, <1>18, <1>19, HasBoth
<1>21. Has(file, 0, h6)
  BY <1>1, <1>11, <1>12, <1>17, <1>18, <1>20, HasBoth
<1>22. Has(file, 0, h5) /\ Has(file, keys, D)
  BY <1>1, <1>4, <1>10, <1>17, <1>18, <1>21, HasBoth
<1>23. Has(file, 0, h4) /\ Has(file, 24, K)
  BY <1>1, <1>3, <1>9, <1>17, <1>18, <1>22, HasBoth
<1>24. Has(file, 0, h3) /\ Has(file, 16, u4)
  BY <1>1, <1>6, <1>8, <1>17, <1>18, <1>23, HasBoth
<1>25. Has(file, 0, h2) /\ Has(file, 8, u3)
  BY <1>1, <1>6, <1>7, <1>17, <1>18, <1>24, HasBoth
<1>26. Has(file, 0, u1) /\ Has(file, 4, u2)
  BY <1>1, <1>6, <1>17, <1>18, <1>25, HasBoth
<1>27. base = AlignUp(head, a) /\ Multiple(base, a)
  BY <1>12, <1>13 DEF base, head
<1>28. end = Len(WriteFile(m))
  BY DEF end, W
<1>29. Parted(file, m, keys, head, base, end)
  BY <1>16, <1>18, <1>20, <1>22, <1>23, <1>24, <1>25, <1>26, <1>27, <1>28
     DEF Parted, K, D, B, u1, u2, u3, u4, a, nt, np
<1>30. \E x1, x2, x3, x4 : Parted(file, m, x1, x2, x3, x4)
  BY <1>29
<1>. QED
  BY <1>14, <1>30 DEF W

\* The tensors of an opened file whose blob begins at base.
TensorsOf(ts, a, base) ==
  [k \in DOMAIN ts |-> [shape |-> ts[k].shape, type |-> ts[k].type, nbytes |-> BytesOf(ts[k]),
                        data |-> base + OffsetOf(ts, k, a)]]

\* What opening then returns.
OpenedAs(m, base) == [opened |-> TRUE, pairs |-> AsWritten(m),
                      tensors |-> TensorsOf(m.tensors, m.align, base)]

\* The bytes needed are those up to the last tensor's end.
LEMMA NeededIs ==
  ASSUME NEW m, NEW a, a = m.align, a \in Nat \ {0}, NEW ts, ts = m.tensors, NEW n, Tensors(ts, n),
         NEW file, NEW P, NEW base, StandsAt(P, file, base, ts, n, a), base \in Nat,
         NEW end, Past(base, FlattenSeq(Blob(ts, a)), end), end = Len(WriteFile(m))
  PROVE  Needed(m) = Enough(P, ts, n)
<1> DEFINE x == OffsetOf(ts, n + 1, a)
<1>1. x = Len(FlattenSeq(Blob(ts, a))) /\ x \in Nat /\ n \in Nat
  BY BlobEnds
<1>2. end = base + x
  BY <1>1 DEF Past
<1> HIDE DEF x
<1>3. end - x = base
  BY <1>1, <1>2
<1>4. n = Len(ts)
  BY DEF Tensors
<1>5. Needed(m) = base + IF n = 0 THEN 0 ELSE OffsetOf(ts, n, a) + BytesOf(ts[n])
  BY <1>3, <1>4 DEF Needed, BytesOf, x
<1>6. P[0] = base /\ \A k \in 1..n : /\ P[k - 1] = base + OffsetOf(ts, k, a)
                                     /\ OffsetOf(ts, k, a) \in Nat /\ BytesOf(ts[k]) \in Nat
  BY DEF StandsAt
<1>7. CASE n = 0
  BY <1>5, <1>6, <1>7 DEF Enough
<1>8. CASE n # 0
  <2>1. n \in 1..n
    BY <1>1, <1>8
  <2>2. /\ P[n - 1] = base + OffsetOf(ts, n, a)
        /\ OffsetOf(ts, n, a) \in Nat /\ BytesOf(ts[n]) \in Nat
    BY <1>6, <2>1
  <2>3. Needed(m) = base + (OffsetOf(ts, n, a) + BytesOf(ts[n]))
    BY <1>5, <1>8
  <2>4. Needed(m) = P[n - 1] + BytesOf(ts[n])
    BY <2>2, <2>3
  <2>. QED
    BY <1>8, <2>4 DEF Enough
<1>. QED
  BY <1>7, <1>8

\* The four fields of the header.
LEMMA HeaderRead ==
  ASSUME NEW file, Len(file) \in Nat, NEW version, NEW nt, NEW np,
         Has(file, 0, Field(4, "GGUF")), Has(file, 4, Field(4, version)),
         Has(file, 8, Field(8, nt)), Has(file, 16, Field(8, np)),
         NEW x, x = Read(file, 0, 4), NEW y, y = Read(file, x.p, 4),
         NEW z, z = Read(file, y.p, 8), NEW w, w = Read(file, z.p, 8)
  PROVE  /\ 24 <= Len(file) => /\ x.v = "GGUF" /\ y.v = version /\ z.v = nt /\ w.v = np
                               /\ w.p = 24 /\ w.p # Bad
         /\ ~(24 <= Len(file)) => w.p = Bad
<1>1. Yields(file, x, "GGUF", 4)
  <2>1. Yields(file, x, "GGUF", 0 + 4)
    BY FieldRead
  <2>. QED
    BY <2>1
<1>2. Yields(file, y, version, 8) /\ (8 <= Len(file) => x = [v |-> "GGUF", p |-> 4])
  <2>1. 4 \in Nat \ {0} /\ 4 \in Nat /\ 8 = 4 + 4
    OBVIOUS
  <2>. QED
    BY ONLY Len(file) \in Nat, <1>1, <2>1, YieldsNext, Has(file, 4, Field(4, version)),
            y = Read(file, x.p, 4)
<1>3. Yields(file, z, nt, 16) /\ (16 <= Len(file) => y = [v |-> version, p |-> 8])
  <2>1. 8 \in Nat \ {0} /\ 8 \in Nat /\ 16 = 8 + 8
    OBVIOUS
  <2>. QED
    BY ONLY Len(file) \in Nat, <1>2, <2>1, YieldsNext, Has(file, 8, Field(8, nt)),
            z = Read(file, y.p, 8)
<1>4. Yields(file, w, np, 24) /\ (24 <= Len(file) => z = [v |-> nt, p |-> 16])
  <2>1. 8 \in Nat \ {0} /\ 16 \in Nat /\ 24 = 16 + 8
    OBVIOUS
  <2>. QED
    BY ONLY Len(file) \in Nat, <1>3, <2>1, YieldsNext, Has(file, 16, Field(8, np)),
            w = Read(file, z.p, 8)
<1>5. CASE 24 <= Len(file)
  <2>1. 8 <= Len(file) /\ 16 <= Len(file)
    BY <1>5
  <2>2. w = [v |-> np, p |-> 24]
    BY <1>4, <1>5 DEF Yields
  <2>. QED
    BY <1>2, <1>3, <1>4, <1>5, <2>1, <2>2 DEF Bad
<1>6. CASE ~(24 <= Len(file))
  BY <1>4, <1>6 DEF Yields
<1>. QED
  BY <1>5, <1>6

\* A legal file whose keys have cases and that is long enough opens as it was
\* written, any other is refused.
LEMMA OpenIs ==
  ASSUME NEW m, NEW L \in Nat, NEW np, Pairs(m.pairs, np), NEW nt, Tensors(m.tensors, nt),
         m.align \in Nat \ {0},
         m.align = GetNumber(AsWritten(m), <<"general", "alignment">>, 32),
         NEW file, Len(file) = L, NEW keys, NEW head, NEW base, NEW end,
         Parted(file, m, keys, head, base, end),
         NEW P, StandsAt(P, file, base, m.tensors, nt, m.align)
  PROVE  IF Legal(m) /\ Cased(m) /\ Needed(m) <= L THEN Open(file) = OpenedAs(m, base)
                                       ELSE Open(file) = Closed
<1> DEFINE a == m.align  ts == m.tensors  W == AsWritten(m)
           D == TensorsRead(ts, a)
           magic == Read(file, 0, 4)
           version == Read(file, magic.p, 4)
           nTensors == Read(file, version.p, 8)
           nPairs == Read(file, nTensors.p, 8)
           pairs == ReadAll(file, nPairs.p, nPairs.v, ReadPair)
           align == GetNumber(pairs.v, <<"general", "alignment">>, 32)
           tensors == ReadAll(file, pairs.p, nTensors.v, ReadTensor)
           from == AlignUp(tensors.p, align)
           start(t) == from + tensors.v[t].offset
           R == Open(file)
           O == [opened |-> TRUE, pairs |-> pairs.v,
                 tensors |-> [t \in DOMAIN tensors.v |->
                               [shape |-> tensors.v[t].shape, type |-> tensors.v[t].type,
                                nbytes |-> tensors.v[t].nbytes, data |-> start(t)]]]
           Cut == \/ from > Len(file)
                  \/ \E t \in DOMAIN tensors.v :
                       start(t) > Len(file) \/ tensors.v[t].nbytes > Len(file) - start(t)
<1>1. R = IF \/ nPairs.p = Bad \/ magic.v # "GGUF" \/ version.v \notin {2, 3}
             \/ nTensors.v > MaxCount \/ nPairs.v > MaxCount
             \/ pairs.p = Bad
          THEN Closed
          ELSE IF ~PowerOfTwo(align) \/ tensors.p = Bad THEN Closed
          ELSE IF Cut THEN Closed ELSE O
  BY DEF Open
<1>2. /\ Has(file, 0, Field(4, "GGUF")) /\ Has(file, 4, Field(4, m.version))
      /\ Has(file, 8, Field(8, nt)) /\ Has(file, 16, Field(8, np))
  BY DEF Parted, Pairs, Tensors
<1>3. /\ 24 <= L => /\ magic.v = "GGUF" /\ version.v = m.version /\ nTensors.v = nt /\ nPairs.v = np
                    /\ nPairs.p = 24 /\ nPairs.p # Bad
      /\ ~(24 <= L) => nPairs.p = Bad
  BY <1>2, HeaderRead
<1> HIDE DEF magic, version, nTensors, nPairs
<1>4. /\ Has(file, 24, FlattenSeq(Keys(m.pairs))) /\ Past(24, FlattenSeq(Keys(m.pairs)), keys)
      /\ Has(file, keys, FlattenSeq(Descriptors(ts, a)))
      /\ Past(keys, FlattenSeq(Descriptors(ts, a)), head)
      /\ base = AlignUp(head, a) /\ base \in Nat /\ head <= base
      /\ Past(base, FlattenSeq(Blob(ts, a)), end) /\ end = Len(WriteFile(m))
      /\ keys \in Nat /\ head \in Nat /\ 24 <= keys /\ keys <= head
  BY DEF Parted
<1>5. Needed(m) = Enough(P, ts, nt)
  BY <1>4, NeededIs
<1>6. /\ Needed(m) \in Nat /\ base <= Needed(m)
      /\ (Needed(m) <= L) <=> base <= L /\ \A k \in 1..nt : P[k - 1] + BytesOf(ts[k]) <= L
  <2>1. nt \in Nat
    BY TensorList
  <2>2. StandsAt(P, file, base, ts, nt, a)
    OBVIOUS
  <2> HIDE DEF ts, a
  <2>3. /\ Enough(P, ts, nt) \in Nat /\ base <= Enough(P, ts, nt) /\ base \in Nat
        /\ (Enough(P, ts, nt) <= L) <=> /\ base <= L
                                        /\ \A k \in 1..nt : P[k - 1] + BytesOf(ts[k]) <= L
    BY <2>1, <2>2, AllThere
  <2>. QED
    BY <1>5, <2>3
<1>7. Legal(m) /\ Cased(m) <=>
                   /\ m.version \in {2, 3} /\ PowerOfTwo(a)
                   /\ np <= MaxCount /\ nt <= MaxCount /\ LegalUpTo(ts, nt)
                   /\ CasedKeys(m.pairs, np)
  <2>1. DOMAIN ts = 1..nt /\ nt = Len(ts)
    BY TensorList DEF Tensors
  <2>2. DOMAIN m.pairs = 1..np /\ np = Len(m.pairs)
    BY DEF Pairs, IsList
  <2>3. CasedKeys(m.pairs, np) <=> \A k \in DOMAIN m.pairs : HasCase(m.pairs[k])
    BY <2>2 DEF CasedKeys
  <2>4. LegalUpTo(ts, nt)
          <=> \A k \in DOMAIN ts : /\ Len(ts[k].shape) <= 4
                                   /\ Elements(ts[k].shape) % TypeTraits[ts[k].type][1] = 0
    BY <2>1 DEF LegalUpTo, LegalTensor
  <2>. QED
    BY <2>1, <2>2, <2>3, <2>4 DEF Legal, Cased
<1>8. W = KeysRead(m.pairs)
  BY DEF AsWritten, KeysRead, IsRead
<1> DEFINE WAlign == GetNumber(W, <<"general", "alignment">>, 32)
<1>9. WAlign = a
  OBVIOUS
<1> HIDE DEF W, R, O, Cut
<1>10. CASE ~(24 <= L)
  <2>1. R = Closed
    BY <1>1, <1>3, <1>10
  <2>2. ~(Needed(m) <= L)
    BY <1>4, <1>6, <1>10
  <2>. QED
    BY <2>1, <2>2 DEF R
<1>11. CASE 24 <= L
  <2>1. /\ magic.v = "GGUF" /\ version.v = m.version /\ nTensors.v = nt /\ nPairs.v = np
        /\ nPairs.p = 24 /\ nPairs.p # Bad
    BY <1>3, <1>11
  <2>2. /\ CasedKeys(m.pairs, np) => Yields(file, pairs, W, keys)
        /\ ~CasedKeys(m.pairs, np) => pairs.p = Bad
    <3>1. /\ CasedKeys(m.pairs, np)
                => Yields(file, ReadAll(file, 24, np, ReadPair), KeysRead(m.pairs), keys)
          /\ ~CasedKeys(m.pairs, np) => ReadAll(file, 24, np, ReadPair).p = Bad
      BY <1>4, <1>11, KeysReadBack
    <3>. QED
      BY <1>8, <2>1, <3>1
  <2> HIDE DEF pairs
  <2>5. CASE ~CasedKeys(m.pairs, np)
    <3>1. R = Closed
      BY <1>1, <2>2, <2>5
    <3>2. ~(Legal(m) /\ Cased(m))
      BY <1>7, <2>5
    <3>. QED
      BY <3>1, <3>2 DEF R
  <2>3. CASE CasedKeys(m.pairs, np) /\ ~(keys <= L)
    <3>1. pairs.p = Bad
      BY <2>2, <2>3 DEF Yields
    <3>2. R = Closed
      BY <1>1, <3>1
    <3>3. ~(Needed(m) <= L)
      BY <1>4, <1>6, <2>3
    <3>. QED
      BY <3>2, <3>3 DEF R
  <2>4. CASE CasedKeys(m.pairs, np) /\ keys <= L
    <3>1. pairs.v = W /\ pairs.p = keys /\ pairs.p # Bad
      BY <1>4, <2>2, <2>4 DEF Yields, Bad
    <3>2. align = a
      BY <1>9, <3>1
    <3> HIDE DEF align
    <3>3. /\ LegalUpTo(ts, nt) => Yields(file, tensors, D, head)
          /\ ~LegalUpTo(ts, nt) => tensors.p = Bad
      <4>1. /\ LegalUpTo(ts, nt) => Yields(file, ReadAll(file, keys, nt, ReadTensor), D, head)
            /\ ~LegalUpTo(ts, nt) => ReadAll(file, keys, nt, ReadTensor).p = Bad
        BY <1>4, <2>4, TensorsReadBack
      <4> HIDE DEF D
      <4>. QED
        BY <2>1, <3>1, <4>1
    <3> HIDE DEF tensors
    <3>4. R = IF \/ m.version \notin {2, 3} \/ nt > MaxCount \/ np > MaxCount
                 \/ ~PowerOfTwo(a) \/ tensors.p = Bad \/ Cut
              THEN Closed ELSE O
      BY <1>1, <2>1, <3>1, <3>2
    <3>5. CASE ~(Legal(m) /\ Cased(m))
      <4>1. nt \in Nat /\ np \in Nat /\ MaxCount \in Nat
        BY TensorList, KeysAre DEF MaxCount
      <4>2. R = Closed
        BY <1>7, <2>4, <3>3, <3>4, <3>5, <4>1
      <4>. QED
        BY <3>5, <4>2 DEF R
    <3>6. CASE Legal(m) /\ Cased(m)
      <4>1. nt \in Nat /\ np \in Nat /\ MaxCount \in Nat
        BY TensorList, KeysAre DEF MaxCount
      <4>2. R = IF tensors.p = Bad \/ Cut THEN Closed ELSE O
        BY <1>7, <3>4, <3>6, <4>1
      <4>3. Yields(file, tensors, D, head)
        BY <1>7, <3>3, <3>6
      <4>4. CASE ~(head <= L)
        <5>1. tensors.p = Bad
          BY <4>3, <4>4 DEF Yields
        <5>2. ~(Needed(m) <= L)
          BY <1>4, <1>6, <4>4
        <5>. QED
          BY <4>2, <5>1, <5>2 DEF R
      <4>5. CASE head <= L
        <5>1. tensors.v = D /\ tensors.p = head /\ tensors.p # Bad
          BY <1>4, <4>3, <4>5 DEF Yields, Bad
        <5>2. from = base
          BY <1>4, <3>2, <5>1
        <5>3. /\ DOMAIN D = 1..nt /\ DOMAIN ts = 1..nt
              /\ \A k \in 1..nt : D[k] = IsDescribed(ts[k], OffsetOf(ts, k, a))
          BY TensorList DEF TensorsRead
        <5>4. \A k \in 1..nt : /\ P[k - 1] = base + OffsetOf(ts, k, a) /\ P[k - 1] \in Nat
                               /\ BytesOf(ts[k]) \in Nat
          <6>1. \A k \in 1..nt : k - 1 \in 0..nt
            BY <4>1
          <6>. QED
            BY <6>1 DEF StandsAt
        <5>5. \A k \in 1..nt : /\ start(k) = P[k - 1] /\ D[k].nbytes = BytesOf(ts[k])
                               /\ D[k].shape = ts[k].shape /\ D[k].type = ts[k].type
          <6>1. \A t, x : LET d == IsDescribed(t, x)
                         IN  d.nbytes = BytesOf(t) /\ d.shape = t.shape /\ d.type = t.type
                             /\ d.offset = x
            BY DEF IsDescribed, BytesOf
          <6> HIDE DEF D
          <6>2. \A k \in 1..nt : /\ D[k].nbytes = BytesOf(ts[k]) /\ D[k].shape = ts[k].shape
                                 /\ D[k].type = ts[k].type /\ D[k].offset = OffsetOf(ts, k, a)
            BY <5>3, <6>1
          <6>3. \A k \in 1..nt : start(k) = base + D[k].offset
            BY <5>1, <5>2
          <6>. QED
            BY <5>4, <6>2, <6>3
        <5>6. Cut <=> ~(Needed(m) <= L)
          <6>1. Cut <=> \/ base > L
                        \/ \E k \in 1..nt : P[k - 1] > L \/ BytesOf(ts[k]) > L - P[k - 1]
            BY <5>1, <5>2, <5>3, <5>5 DEF Cut
          <6>2. \A k \in 1..nt : (P[k - 1] > L \/ BytesOf(ts[k]) > L - P[k - 1])
                                   <=> ~(P[k - 1] + BytesOf(ts[k]) <= L)
            BY <5>4
          <6>3. base > L <=> ~(base <= L)
            BY <1>4
          <6>. QED
            BY <1>6, <6>1, <6>2, <6>3
        <5>7. O = OpenedAs(m, base)
          <6>1. O = [opened |-> TRUE, pairs |-> W,
                     tensors |-> [k \in 1..nt |-> [shape |-> D[k].shape, type |-> D[k].type,
                                                   nbytes |-> D[k].nbytes, data |-> start(k)]]]
            BY <3>1, <5>1, <5>3 DEF O
          <6>2. [k \in 1..nt |-> [shape |-> D[k].shape, type |-> D[k].type,
                                  nbytes |-> D[k].nbytes, data |-> start(k)]]
                  = TensorsOf(ts, a, base)
            BY <5>3, <5>4, <5>5 DEF TensorsOf
          <6>. QED
            BY <6>1, <6>2 DEF OpenedAs, W
        <5>. QED
          BY <3>6, <4>2, <5>1, <5>6, <5>7 DEF R
      <4>. QED
        BY <4>4, <4>5
    <3>. QED
      BY <3>5, <3>6
  <2>. QED
    BY <2>3, <2>4, <2>5
<1>. QED
  BY <1>10, <1>11

-----------------------------------------------------------------------------
(* The configuration comes from the model's own keys.                       *)

\* The key's first place.
FirstAt(w, j, key) == w[j].key = key /\ \A l \in 1..(j - 1) : w[l].key # key
\* Indexed by 1..n.
Sequel(w, n) == n \in Nat /\ DOMAIN w = 1..n

\* A lookup finds the first.
LEMMA FirstIs ==
  ASSUME NEW w, NEW n, Sequel(w, n), NEW key
  PROVE  /\ \A j \in 1..n : FirstAt(w, j, key) => Meta(w, key) # {} /\ PairOf(w, key) = w[j]
         /\ (\A j \in 1..n : w[j].key # key) => Meta(w, key) = {}
<1>1. n \in Nat /\ DOMAIN w = 1..n
  BY DEF Sequel
<1>2. \A j : j \in Meta(w, key) <=> j \in 1..n /\ FirstAt(w, j, key)
  BY <1>1 DEF Meta, FirstAt
<1>3. ASSUME NEW j \in 1..n, FirstAt(w, j, key)
      PROVE  Meta(w, key) # {} /\ PairOf(w, key) = w[j]
  <2>1. j \in Meta(w, key)
    BY <1>2, <1>3
  <2>2. \A i \in Meta(w, key) : i = j
    <3>1. ASSUME NEW i \in 1..n, FirstAt(w, i, key) PROVE ~(i < j) /\ ~(j < i)
      <4>1. i < j => i \in 1..(j - 1)
        BY <1>1
      <4>2. j < i => j \in 1..(i - 1)
        BY <1>1
      <4>. QED
        BY <1>3, <3>1, <4>1, <4>2 DEF FirstAt
    <3>2. \A i \in 1..n : ~(i < j) /\ ~(j < i) => i = j
      BY <1>1
    <3>. QED
      BY <1>2, <3>1, <3>2
  <2>3. Meta(w, key) = {j}
    BY <2>1, <2>2
  <2>4. Min({j}) = j
    <3>1. j \in Int /\ j <= j
      OBVIOUS
    <3>. QED
      BY <3>1 DEF Min
  <2>. QED
    BY <2>3, <2>4 DEF PairOf
<1>4. (\A j \in 1..n : w[j].key # key) => Meta(w, key) = {}
  BY <1>2 DEF FirstAt
<1>. QED
  BY <1>3, <1>4

\* In a list's first i elements and in a sequence the same pair is the first with a key.
SameFirst(w, i, g, key) ==
  IF \E n \in 1..i : w[n].key = key
  THEN \E n \in 1..i : \E j \in 1..Len(g) :
         FirstAt(w, n, key) /\ FirstAt(g, j, key) /\ g[j] = w[n]
  ELSE \A j \in 1..Len(g) : g[j].key # key

\* It stays the first when others are added.
LEMMA SameFirstGrows ==
  ASSUME NEW w, NEW i \in Nat, NEW key, NEW g, SameFirst(w, i, g, key), NEW h, NEW x, x = w[i + 1],
         Len(g) \in Nat, \A l \in 1..Len(g) : h[l] = g[l],
         \/ Len(h) = Len(g) /\ x.key # key
         \/ Len(h) = Len(g) + 1 /\ h[Len(g) + 1] = x
  PROVE  SameFirst(w, i + 1, h, key)
<1> DEFINE a == Len(g)  b == Len(h)
<1>1. a \in Nat /\ (b = a \/ b = a + 1) /\ \A l \in 1..a : h[l] = g[l] /\ l \in 1..b
  OBVIOUS
<1>2. /\ b = a => x.key # key
      /\ b = a + 1 => h[a + 1] = x
  BY <1>1
<1> HIDE DEF a, b
<1>3. CASE \E n \in 1..i : w[n].key = key
  <2>1. PICK n \in 1..i, j \in 1..a : FirstAt(w, n, key) /\ FirstAt(g, j, key) /\ g[j] = w[n]
    BY <1>3 DEF SameFirst, a
  <2>2. n \in 1..(i + 1) /\ j \in 1..b /\ h[j] = w[n]
    BY <1>1, <2>1
  <2>3. FirstAt(h, j, key)
    <3>1. \A l \in 1..(j - 1) : l \in 1..a
      BY <1>1, <2>1
    <3>. QED
      BY <1>1, <2>1, <3>1 DEF FirstAt
  <2>4. \E k \in 1..(i + 1) : w[k].key = key
    BY <2>1, <2>2 DEF FirstAt
  <2>. QED
    BY <2>1, <2>2, <2>3, <2>4 DEF SameFirst, b
<1>4. CASE ~\E n \in 1..i : w[n].key = key
  <2>1. \A j \in 1..a : g[j].key # key
    BY <1>4 DEF SameFirst, a
  <2>2. \A n \in 1..(i + 1) : n \in 1..i \/ n = i + 1
    OBVIOUS
  <2>3. CASE x.key = key
    <3>1. b = a + 1 /\ h[a + 1] = x
      BY <1>1, <1>2, <2>3
    <3>2. FirstAt(w, i + 1, key)
      <4>1. (i + 1) - 1 = i
        OBVIOUS
      <4>. QED
        BY <1>4, <2>3, <4>1 DEF FirstAt
    <3>3. FirstAt(h, a + 1, key)
      <4>1. (a + 1) - 1 = a
        BY <1>1
      <4>. QED
        BY <1>1, <2>1, <2>3, <3>1, <4>1 DEF FirstAt
    <3>4. i + 1 \in 1..(i + 1) /\ a + 1 \in 1..b /\ h[a + 1] = w[i + 1] /\ w[i + 1].key = key
      BY <1>1, <2>3, <3>1
    <3>. QED
      BY <3>2, <3>3, <3>4 DEF SameFirst, b
  <2>4. CASE x.key # key
    <3>1. ~\E n \in 1..(i + 1) : w[n].key = key
      BY <1>4, <2>2, <2>4
    <3>2. \A j \in 1..b : j \in 1..a \/ (j = a + 1 /\ b = a + 1)
      BY <1>1
    <3>3. \A j \in 1..b : h[j].key # key
      BY <1>1, <1>2, <2>1, <2>4, <3>2
    <3>. QED
      BY <3>1, <3>3 DEF SameFirst, b
  <2>. QED
    BY <2>3, <2>4
<1>. QED
  BY <1>3, <1>4

\* A key under one of the names is found among them as among all.
LEMMA OwnFirst ==
  ASSUME NEW w, NEW n, Sequel(w, n), NEW names, NEW key, key[1] \in names
  PROVE  /\ Meta(w, key) = {} <=> Meta(Own(w, names), key) = {}
         /\ Meta(w, key) # {} => PairOf(w, key) = PairOf(Own(w, names), key)
<1> DEFINE Part(k) == IF w[k].key[1] \in names THEN <<w[k]>> ELSE <<>>
           s == [k \in DOMAIN w |-> Part(k)]
<1>1. n \in Nat /\ DOMAIN w = 1..n
  BY DEF Sequel
<1>2. Own(w, names) = FlattenSeq(s)
  BY DEF Own
<1>3. s = [k \in 1..n |-> s[k]] /\ \A k \in 1..n : s[k] = Part(k)
  BY <1>1
<1>4. \A k : IsSequence(Part(k))
  <2>1. ASSUME NEW x PROVE IsSequence(<<x>>)
    <3>1. <<x>> \in Seq({x})
      OBVIOUS
    <3>. QED
      BY <3>1 DEF IsSequence
  <2>2. IsSequence(<<>>)
    <3>1. <<>> \in Seq({})
      OBVIOUS
    <3>. QED
      BY <3>1 DEF IsSequence
  <2>. QED
    BY <2>1, <2>2
<1> HIDE DEF s, Part
<1>5. IsParts(s, n)
  BY <1>3, <1>4 DEF IsParts
<1>6. PICK f : /\ f[0] = <<>> /\ \A i \in 1..n : f[i] = f[i - 1] \o s[i]
               /\ \A i \in 0..n : IsSequence(f[i])
               /\ \A i \in 0..n : FlattenSeq([j \in 1..i |-> s[j]]) = f[i]
               /\ FlattenSeq(s) = f[n]
  BY <1>1, <1>5, PartsInRow
<1> DEFINE K == {i \in Nat : i <= n => SameFirst(w, i, f[i], key)}
<1>7. 0 \in K
  <2>1. SameFirst(w, 0, <<>>, key)
    BY DEF SameFirst
  <2>. QED
    BY <1>6, <2>1
<1>8. ASSUME NEW i \in K PROVE i + 1 \in K
  <2>1. ASSUME i + 1 <= n PROVE SameFirst(w, i + 1, f[i + 1], key)
    <3> DEFINE g == f[i]  h == f[i + 1]  x == w[i + 1]  y == s[i + 1]
    <3>1. i \in Nat /\ i \in 0..n /\ i + 1 \in 1..n /\ i + 1 \in 0..n /\ (i + 1) - 1 = i /\ i <= n
      BY <1>1, <2>1
    <3>2. SameFirst(w, i, g, key)
      BY <3>1
    <3>3. Both(h, g, y) /\ IsSequence(g) /\ IsSequence(y) /\ y = Part(i + 1)
      BY <1>3, <1>4, <1>6, <3>1 DEF Both
    <3> HIDE DEF g, h, y, K
    <3>4. /\ Len(g) \in Nat /\ Len(h) = Len(g) + Len(y)
          /\ \A l \in 1..Len(g) : h[l] = g[l]
          /\ \A l \in 1..Len(y) : h[Len(g) + l] = y[l]
      <4>1. /\ IsSequence(g \o y) /\ Len(g) \in Nat /\ Len(y) \in Nat
            /\ Len(g \o y) = Len(g) + Len(y)
            /\ \A l \in 1..Len(g) : (g \o y)[l] = g[l]
            /\ \A l \in 1..Len(y) : (g \o y)[Len(g) + l] = y[l]
        BY <3>3, Joins
      <4>2. h = g \o y
        BY <3>3 DEF Both
      <4>. QED
        BY <4>1, <4>2
    <3>5. CASE x.key[1] \in names
      <4>1. y = <<x>>
        BY <3>3, <3>5 DEF Part
      <4>2. Len(y) = 1 /\ y[1] = x /\ 1 \in 1..Len(y)
        BY <4>1
      <4>3. Len(h) = Len(g) + 1 /\ h[Len(g) + 1] = x
        BY <3>4, <4>2
      <4> HIDE DEF x
      <4>. QED
        BY <3>1, <3>2, <3>4, <4>3, SameFirstGrows DEF h, x
    <3>6. CASE x.key[1] \notin names
      <4>1. y = <<>>
        BY <3>3, <3>6 DEF Part
      <4>2. Len(h) = Len(g)
        BY <3>4, <4>1
      <4>3. x.key # key
        BY <3>6
      <4> HIDE DEF x
      <4>. QED
        BY <3>1, <3>2, <3>4, <4>2, <4>3, SameFirstGrows DEF h, x
    <3>. QED
      BY <3>5, <3>6
  <2>. QED
    BY <2>1
<1>9. K = Nat
  <2>1. K \in SUBSET Nat
    OBVIOUS
  <2> HIDE DEF K
  <2>. QED
    BY <1>7, <1>8, <2>1, EveryNumber
<1> DEFINE o == Own(w, names)  m == Len(o)
<1>10. SameFirst(w, n, o, key)
  <2>1. n \in K /\ n <= n
    BY <1>1, <1>9
  <2>. QED
    BY <1>2, <1>6, <2>1
<1>11. Sequel(o, m)
  <2>1. IsSequence(o)
    BY <1>1, <1>2, <1>6
  <2>2. PICK S : o \in Seq(S)
    BY <2>1 DEF IsSequence
  <2> HIDE DEF o
  <2>. QED
    BY <2>2 DEF Sequel
<1> HIDE DEF o, m, K
<1>12. /\ \A j \in 1..m : FirstAt(o, j, key) => Meta(o, key) # {} /\ PairOf(o, key) = o[j]
       /\ (\A j \in 1..m : o[j].key # key) => Meta(o, key) = {}
  BY <1>11, FirstIs
<1>13. /\ \A j \in 1..n : FirstAt(w, j, key) => Meta(w, key) # {} /\ PairOf(w, key) = w[j]
       /\ (\A j \in 1..n : w[j].key # key) => Meta(w, key) = {}
  BY FirstIs
<1>14. CASE \E k \in 1..n : w[k].key = key
  <2>1. PICK k \in 1..n, j \in 1..m : FirstAt(w, k, key) /\ FirstAt(o, j, key) /\ o[j] = w[k]
    BY <1>10, <1>14 DEF SameFirst, m
  <2>. QED
    BY <1>12, <1>13, <2>1 DEF o
<1>15. CASE ~\E k \in 1..n : w[k].key = key
  <2>1. \A j \in 1..m : o[j].key # key
    BY <1>10, <1>15 DEF SameFirst, m
  <2>. QED
    BY <1>12, <1>13, <1>15, <2>1 DEF o
<1>. QED
  BY <1>14, <1>15

\* The model's configuration comes from the keys under its names alone.
LEMMA OwnConfig ==
  ASSUME NEW w, NEW n, Sequel(w, n)
  PROVE  Config(w) = Config(Own(w, {"general", "tokenizer", Config(w).arch}))
<1> DEFINE arch == GetString(w, <<"general", "architecture">>, "unknown")
           names == {"general", "tokenizer", arch}  o == Own(w, names)
<1>1. Config(w).arch = arch
  BY DEF Config
<1>2. ASSUME NEW a \in names, NEW b
      PROVE  LET key == <<a, b>>
             IN  /\ Meta(w, key) = {} <=> Meta(o, key) = {}
                 /\ Meta(w, key) # {} => PairOf(w, key) = PairOf(o, key)
  <2> DEFINE key == <<a, b>>
  <2>1. key[1] \in names
    OBVIOUS
  <2> HIDE DEF key, names
  <2>2. /\ Meta(w, key) = {} <=> Meta(o, key) = {}
        /\ Meta(w, key) # {} => PairOf(w, key) = PairOf(o, key)
    BY <2>1, OwnFirst
  <2>. QED
    BY <2>2 DEF key
<1>3. "general" \in names /\ "tokenizer" \in names /\ arch \in names
  OBVIOUS
<1> HIDE DEF names, o
<1>4. \A a \in names : \A b, d : GetNumber(w, <<a, b>>, d) = GetNumber(o, <<a, b>>, d)
  BY <1>2 DEF GetNumber
<1>5. GetString(o, <<"general", "architecture">>, "unknown") = arch
  BY <1>2, <1>3 DEF GetString
<1> HIDE DEF arch
<1>6. \A b, d : GetNumber(w, <<arch, b>>, d) = GetNumber(o, <<arch, b>>, d)
  BY <1>3, <1>4
<1>7. LET tokens == <<"tokenizer", "tokens">>
      IN  /\ Meta(w, tokens) = {} <=> Meta(o, tokens) = {}
          /\ Meta(w, tokens) # {} => PairOf(w, tokens) = PairOf(o, tokens)
  BY <1>2, <1>3
<1>8. Config(w) = Config(o)
  BY <1>5, <1>6, <1>7 DEF Config, arch
<1>. QED
  BY <1>1, <1>8 DEF o, names

-----------------------------------------------------------------------------
(* Every file reads back.                                                   *)

\* What a byte of an opened tensor is.
LEMMA TensorAt ==
  ASSUME NEW file, NEW L \in Nat, Len(file) = L, NEW p \in Nat, NEW n \in Nat, NEW v, n # 0, p + n <= L,
         Has(file, p, Field(n, v))
  PROVE  file[p + 1] = [n |-> n, v |-> v]
<1> DEFINE w == Field(n, v)
<1>1. Len(w) = n /\ w[1] = [n |-> n, v |-> v]
  BY Fields
<1> HIDE DEF w
<1>2. \A i \in 1..n : p + i <= L => file[p + i] = w[i]
  BY <1>1 DEF Has, w
<1>3. 1 \in 1..n /\ p + 1 <= L
  OBVIOUS
<1>. QED
  BY <1>1, <1>2, <1>3

\* A file of this model's writer, cut short anywhere, reads back as it should.
LEMMA ReadBack ==
  ASSUME NEW m, Writable(m), NEW cut \in 0..Len(WriteFile(m))
  PROVE  ReadsBack(m, cut, Open(SubSeq(WriteFile(m), 1, cut)))
<1> DEFINE W == WriteFile(m)  file == SubSeq(W, 1, cut)  a == m.align  ts == m.tensors
           np == Len(m.pairs)  nt == Len(ts)  o == Open(file)
           names == {"general", "tokenizer", Config(AsWritten(m)).arch}
<1>1. a \in Nat \ {0} /\ Pairs(m.pairs, np) /\ Tensors(ts, nt)
      /\ a = GetNumber(AsWritten(m), <<"general", "alignment">>, 32)
  BY DEF Writable, Pairs, Tensors
<1>2. Has(W, 0, W)
  <2> HIDE DEF W
  <2>1. \A i \in 1..Len(W) : 0 + i = i
    <3>1. \A i \in Int : 0 + i = i
      OBVIOUS
    <3>2. \A i \in 1..Len(W) : i \in Int
      OBVIOUS
    <3>. QED
      BY <3>1, <3>2
  <2>. QED
    BY <2>1 DEF Has
<1>3. IsSequence(W) /\ Len(W) \in Nat
  <2> HIDE DEF np, nt
  <2>. QED
    BY <1>1, <1>2, FileParts
<1>4. cut \in Nat /\ Len(file) = cut /\ \A i \in 1..cut : file[i] = W[i]
  <2>1. PICK S : W \in Seq(S)
    BY <1>3 DEF IsSequence
  <2>2. cut \in 0..Len(W)
    OBVIOUS
  <2> HIDE DEF W
  <2>. QED
    BY <1>3, <2>1, <2>2
<1>5. Has(file, 0, W)
  <2> HIDE DEF W, file
  <2>1. ASSUME NEW i \in 1..Len(W), 0 + i <= Len(file) PROVE file[0 + i] = W[i]
    <3>1. 0 + i = i /\ i \in 1..cut
      BY <1>3, <1>4, <2>1
    <3>. QED
      BY <1>4, <3>1
  <2>. QED
    BY <2>1 DEF Has
<1> HIDE DEF file, np, nt
<1>6. PICK keys, head, base, end : Parted(file, m, keys, head, base, end)
  BY <1>1, <1>5, FileParts
<1>7. PICK P : StandsAt(P, file, base, ts, nt, a)
  <2>1. Multiple(base, a) /\ Has(file, base, FlattenSeq(Blob(ts, a)))
    BY <1>6 DEF Parted
  <2>. QED
    BY <1>1, <2>1, BlobStands
<1>8. base \in Nat
  BY <1>6 DEF Parted
<1>9. IF Legal(m) /\ Cased(m) /\ Needed(m) <= cut THEN o = OpenedAs(m, base) ELSE o = Closed
  BY <1>1, <1>4, <1>6, <1>7, OpenIs
<1>10. Needed(m) = Enough(P, ts, nt)
  <2>1. Past(base, FlattenSeq(Blob(ts, a)), end) /\ end = Len(WriteFile(m))
    BY <1>6 DEF Parted
  <2>. QED
    BY <1>1, <1>7, <1>8, <2>1, NeededIs
<1>11. nt \in Nat /\ DOMAIN ts = 1..nt
  BY <1>1, TensorList
<1>12. /\ Needed(m) \in Nat
       /\ (Needed(m) <= cut) <=> base <= cut /\ \A k \in 1..nt : P[k - 1] + BytesOf(ts[k]) <= cut
  <2>1. StandsAt(P, file, base, ts, nt, a)
    BY <1>7
  <2> HIDE DEF ts, a, o
  <2>2. /\ Enough(P, ts, nt) \in Nat /\ base <= Enough(P, ts, nt) /\ base \in Nat
        /\ (Enough(P, ts, nt) <= cut) <=> /\ base <= cut
                                          /\ \A k \in 1..nt : P[k - 1] + BytesOf(ts[k]) <= cut
    BY <1>4, <1>11, <2>1, AllThere
  <2>. QED
    BY <1>10, <2>2
<1> HIDE DEF o
<1>13. o.opened <=> Legal(m) /\ Cased(m) /\ cut >= Needed(m)
  BY <1>4, <1>9, <1>12 DEF OpenedAs, Closed
<1>14. ASSUME o.opened
       PROVE  /\ o.pairs = AsWritten(m)
              /\ Config(o.pairs) = Config(Own(o.pairs, names)) /\ names = {"general", "tokenizer", Config(o.pairs).arch}
              /\ Len(o.tensors) = nt
              /\ \A k \in 1..nt :
                   LET t == o.tensors[k]
                   IN  /\ t.shape = ts[k].shape /\ t.type = ts[k].type
                       /\ t.data % a = 0
                       /\ t.nbytes # 0 => file[t.data + 1] = [n |-> t.nbytes, v |-> ts[k].payload]
  <2>1. o = OpenedAs(m, base) /\ \A k \in 1..nt : P[k - 1] + BytesOf(ts[k]) <= cut
    BY <1>4, <1>9, <1>12, <1>13, <1>14
  <2>2. o.pairs = AsWritten(m) /\ o.tensors = TensorsOf(ts, a, base)
    BY <2>1 DEF OpenedAs
  <2>3. Config(o.pairs) = Config(Own(o.pairs, names)) /\ names = {"general", "tokenizer", Config(o.pairs).arch}
    <3> DEFINE w == AsWritten(m)
    <3>1. Sequel(w, np)
      <4>1. w = KeysRead(m.pairs)
        BY DEF AsWritten, KeysRead, IsRead
      <4>2. np \in Nat /\ KeysRead(m.pairs) = [k \in 1..np |-> IsRead(m.pairs[k])]
        BY <1>1, KeysAre
      <4>. QED
        BY <4>1, <4>2 DEF Sequel
    <3> HIDE DEF w
    <3>2. Config(w) = Config(Own(w, {"general", "tokenizer", Config(w).arch}))
      BY <3>1, OwnConfig
    <3>. QED
      BY <2>2, <3>2 DEF w
  <2>4. Len(o.tensors) = nt
    <3> DEFINE r == TensorsOf(ts, a, base)
    <3>1. DOMAIN r = 1..nt
      BY <1>11 DEF TensorsOf
    <3>2. r = [k \in 1..nt |-> r[k]]
      BY <1>11 DEF TensorsOf
    <3> HIDE DEF r
    <3>3. Len(r) = nt
      BY <1>11, <3>1, <3>2
    <3>. QED
      BY <2>2, <3>3 DEF r
  <2>5. ASSUME NEW k \in 1..nt
        PROVE  LET t == o.tensors[k]
               IN  /\ t.shape = ts[k].shape /\ t.type = ts[k].type
                   /\ t.data % a = 0
                   /\ t.nbytes # 0 => file[t.data + 1] = [n |-> t.nbytes, v |-> ts[k].payload]
    <3> DEFINE t == o.tensors[k]  p == P[k - 1]  n == BytesOf(ts[k])  v == ts[k].payload
    <3>1. k - 1 \in 0..nt
      BY <1>11
    <3>2. /\ p = base + OffsetOf(ts, k, a) /\ p \in Nat /\ n \in Nat /\ Multiple(p, a)
          /\ Has(file, p, Field(n, v))
      BY <1>7, <3>1 DEF StandsAt
    <3>3. t = [shape |-> ts[k].shape, type |-> ts[k].type, nbytes |-> n, data |-> p]
      BY <1>11, <2>2, <3>2 DEF TensorsOf
    <3>4. p + n <= cut
      BY <2>1
    <3> HIDE DEF p, n, v, t, ts, a
    <3>5. p % a = 0
      BY <1>1, <3>2, MultipleOf
    <3>6. n # 0 => file[p + 1] = [n |-> n, v |-> v]
      BY <1>4, <3>2, <3>4, TensorAt
    <3>. QED
      BY <3>3, <3>5, <3>6 DEF t, v
  <2>. QED
    BY <2>2, <2>3, <2>4, <2>5
<1>. QED
  BY <1>11, <1>13, <1>14 DEF ReadsBack, file, o, nt
=============================================================================
