-------------------------------- MODULE Quant --------------------------------
(***************************************************************************)
(* Quantised weights: which bits of a GGUF row make each element, where the *)
(* two packers put them, and where the GPU kernels look for them.           *)
(*                                                                          *)
(* A weight is not its value but where its value comes from: the bits of    *)
(* the row its quant is put together from, lowest first, and those of its   *)
(* scale and bias.  Arithmetic on the value is left out.                    *)
(***************************************************************************)
EXTENDS Integers, Sequences, FiniteSets

\* n bits of a row from a bit of a byte on.
Bits(byte, shift, n) == [i \in 1..n |-> 8 * byte + shift + i - 1]

Fp16(byte) == Bits(byte, 0, 16)

-----------------------------------------------------------------------------
(* GGUFFile::dequantize: element e of a row.                                *)

\* get_scale_min_k4: the j-th 6-bit scale and minimum of the 12 bytes at q.
K4Scale(q, j) == IF j < 4 THEN Bits(q + j, 0, 6)
                 ELSE Bits(q + j + 4, 0, 4) \o Bits(q + j - 4, 6, 2)
K4Min(q, j) == IF j < 4 THEN Bits(q + j + 4, 0, 6)
               ELSE Bits(q + j + 4, 4, 4) \o Bits(q + j, 6, 2)

DequantizeQ8_0(e) ==
  LET p == 34 * (e \div 32)
  IN  [quant |-> Bits(p + 2 + (e % 32), 0, 8), zero |-> 0, scale |-> <<Fp16(p)>>, bias |-> <<>>]

\* Elements j and j + 16 share a byte; their fifth bits are apart in qh, and
\* the second one's shift is 12 so that it lands in bit 4.
DequantizeQ5_0(e) ==
  LET p == 22 * (e \div 32)
      j == e % 16
      second == e % 32 >= 16
      fifth == IF second THEN j + 12 + 4 ELSE j
  IN  [quant |-> Bits(p + 6 + j, IF second THEN 4 ELSE 0, 4) \o Bits(p + 2, fifth, 1),
       zero |-> 16, scale |-> <<Fp16(p)>>, bias |-> <<>>]

\* 64 elements a turn: the low nibbles of 32 bytes, then their high ones.
DequantizeQ4_K(e) ==
  LET p == 144 * (e \div 256)
      turn == (e % 256) \div 64
      high == (e % 64) \div 32
      is == 2 * turn + high
  IN  [quant |-> Bits(p + 16 + 32 * turn + (e % 32), 4 * high, 4), zero |-> 0,
       scale |-> <<Fp16(p), K4Scale(p + 4, is)>>,
       bias |-> <<Fp16(p + 2), K4Min(p + 4, is)>>]

\* 128 elements a turn, four quarters out of the same 32 bytes of qh.
DequantizeQ6_K(e) ==
  LET p == 210 * (e \div 256)
      turn == (e % 256) \div 128
      quarter == (e % 128) \div 32
      l == e % 32
      low == CASE quarter = 0 -> Bits(p + 64 * turn + l, 0, 4)
               [] quarter = 1 -> Bits(p + 64 * turn + l + 32, 0, 4)
               [] quarter = 2 -> Bits(p + 64 * turn + l, 4, 4)
               [] quarter = 3 -> Bits(p + 64 * turn + l + 32, 4, 4)
  IN  [quant |-> low \o Bits(p + 128 + 32 * turn + l, 2 * quarter, 2), zero |-> 32,
       scale |-> <<Fp16(p + 208), Bits(p + 192 + 8 * turn + l \div 16 + 2 * quarter, 0, 8)>>,
       bias |-> <<>>]

Dequantize(type, e) ==
  CASE type = "Q8_0" -> DequantizeQ8_0(e) [] type = "Q5_0" -> DequantizeQ5_0(e)
    [] type = "Q4_K" -> DequantizeQ4_K(e) [] type = "Q6_K" -> DequantizeQ6_K(e)

-----------------------------------------------------------------------------
(* quant_repack.cpp: what the repacker takes out of a row.                  *)

Types == {"Q8_0", "Q5_0", "Q4_K", "Q6_K"}

\* Quant words and high words of a block of 32, elements a scale serves.
Shape == [Q8_0 |-> [words |-> 8, high |-> 0, gran |-> 32],
          Q5_0 |-> [words |-> 4, high |-> 1, gran |-> 32],
          Q4_K |-> [words |-> 4, high |-> 0, gran |-> 32],
          Q6_K |-> [words |-> 4, high |-> 2, gran |-> 16]]

ExtractQ8_0(b, j) ==
  [quant |-> Bits(34 * b + 2 + j, 0, 8), scale |-> <<Fp16(34 * b)>>, bias |-> <<>>]

ExtractQ5_0(b, j) ==
  LET blk == 22 * b
  IN  [quant |-> Bits(blk + 6 + (j % 16), IF j < 16 THEN 0 ELSE 4, 4) \o Bits(blk + 2, j, 1),
       scale |-> <<Fp16(blk)>>, bias |-> <<>>]

\* Mutant of Q4kScale: the high bits of the second four from the wrong byte.
Q4kScaleShifted(s, j) == IF j < 4 THEN Bits(s + j, 0, 6)
                         ELSE Bits(s + j + 4, 0, 4) \o Bits(s + j, 6, 2)

Q4kScale(s, j) == IF j < 4 THEN Bits(s + j, 0, 6)
                  ELSE Bits(s + j + 4, 0, 4) \o Bits(s + j - 4, 6, 2)

Q4kMin(s, j) == IF j < 4 THEN Bits(s + j + 4, 0, 6)
                ELSE Bits(s + j + 4, 4, 4) \o Bits(s + j, 6, 2)

ExtractQ4_K(sb, s, l) ==
  LET blk == 144 * sb
  IN  [quant |-> Bits(blk + 16 + (s \div 2) * 32 + l, IF s % 2 = 1 THEN 4 ELSE 0, 4),
       scale |-> <<Fp16(blk), Q4kScale(blk + 4, s)>>,
       bias |-> <<Fp16(blk + 2), Q4kMin(blk + 4, s)>>]

\* A scale is taken at the first element of every 16.
ExtractQ6_K(sb, h, g, l) ==
  LET blk == 210 * sb
  IN  [quant |-> Bits(blk + h * 64 + l + (g % 2) * 32, IF g < 2 THEN 0 ELSE 4, 4)
                   \o Bits(blk + 128 + h * 32 + l, 2 * g, 2),
       scale |-> <<Fp16(blk + 208), Bits(blk + 192 + h * 8 + l \div 16 + 2 * g, 0, 8)>>,
       bias |-> <<>>]

Extract(type, k) ==
  CASE type = "Q8_0" -> ExtractQ8_0(k \div 32, k % 32)
    [] type = "Q5_0" -> ExtractQ5_0(k \div 32, k % 32)
    [] type = "Q4_K" -> ExtractQ4_K(k \div 256, (k % 256) \div 32, k % 32)
    [] type = "Q6_K" -> ExtractQ6_K(k \div 256, (k % 256) \div 128, (k % 128) \div 32, k % 32)

-----------------------------------------------------------------------------
(* repack: the cell of every element, <<word, shift>> in each plane.        *)

Repackable(type, rows, cols) ==
  /\ rows # 0 /\ cols # 0 /\ cols % 32 = 0
  /\ type \in {"Q4_K", "Q6_K"} => cols % 256 = 0

PaddedRows(rows) == ((rows + 63) \div 64) * 64
Slots(rows, cols) == (PaddedRows(rows) \div 64) * (cols \div 32) * 64

\* Where repack puts element k of row r.
RepackCell(type, cols, r, k) ==
  LET nkb == cols \div 32
      kb == k \div 32
      j == k % 32
      idx == ((r \div 64) * nkb + kb) * 64 + (r % 64)
  IN  [quant |-> IF type = "Q8_0" THEN <<idx * 8 + j \div 4, 8 * (j % 4)>>
                 ELSE <<idx * 4 + j \div 8, 4 * (j % 8)>>,
       high |-> CASE type = "Q5_0" -> <<idx, j>>
                  [] type = "Q6_K" -> <<idx * 2 + j \div 16, 2 * (j % 16)>>
                  [] OTHER -> <<>>,
       scale |-> IF Shape[type].gran = 16 THEN idx * 2 + j \div 16 ELSE idx]

\* Where the matvec kernels read element 8c + n of block kb: component c of
\* the block's uint4, nibble n; for Q8_0 byte n of component c of two uint4.
KernelCell(type, cols, r, kb, c, n) ==
  LET idx == ((r \div 64) * (cols \div 32) + kb) * 64 + (r % 64)
  IN  [quant |-> IF type = "Q8_0" THEN <<4 * (idx * 2 + c \div 4) + (c % 4), 8 * n>>
                 ELSE <<4 * idx + c, 4 * n>>,
       high |-> CASE type = "Q5_0" -> <<idx, 8 * c + n>>
                  [] type = "Q6_K" -> <<idx * 2 + c \div 2, 16 * (c % 2) + 2 * n>>
                  [] OTHER -> <<>>,
       scale |-> IF type = "Q6_K" THEN idx * 2 + c \div 2 ELSE idx]

-----------------------------------------------------------------------------
(* What holds.                                                              *)

Per(type) == IF type = "Q8_0" THEN 4 ELSE 8

\* Every weight a kernel multiplies is the one the reference dequantiser gives
\* for that element: the kernel reads the cells the packer wrote, no two
\* weights share a bit, every cell is inside its plane, and the packer took
\* the same bits out of the row (repack, matvec_r*, GGUFFile::dequantize).
\* rs: the rows to look at.
RepackAgrees(type, rows, cols, rs) ==
  Repackable(type, rows, cols) =>
    LET cell == [e \in rs \X (0..(cols - 1)) |-> RepackCell(type, cols, e[1], e[2])]
        slots == Slots(rows, cols)
        read(e) == KernelCell(type, cols, e[1], e[2] \div 32, (e[2] % 32) \div Per(type),
                              e[2] % Per(type))
    IN  /\ \A k \in 0..(cols - 1) :
             LET x == Extract(type, k) d == Dequantize(type, k)
             IN  x.quant = d.quant /\ x.scale = d.scale /\ x.bias = d.bias
        /\ \A e \in DOMAIN cell :
             /\ read(e) = cell[e]
             /\ cell[e].quant[1] < slots * Shape[type].words /\ cell[e].quant[2] < 32
             /\ cell[e].high # <<>> =>
                  cell[e].high[1] < slots * Shape[type].high /\ cell[e].high[2] < 32
             /\ cell[e].scale < slots * (32 \div Shape[type].gran)
        /\ Cardinality({cell[e].quant : e \in DOMAIN cell}) = Cardinality(DOMAIN cell)
        /\ Shape[type].high > 0 =>
             Cardinality({cell[e].high : e \in DOMAIN cell}) = Cardinality(DOMAIN cell)
=============================================================================
