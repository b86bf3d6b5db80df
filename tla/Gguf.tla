-------------------------------- MODULE Gguf --------------------------------
(***************************************************************************)
(* The GGUF reader: which files it opens, and what it then says of their    *)
(* keys, tensors and model configuration.                                   *)
(*                                                                          *)
(* A file is a sequence of bytes kept as fields: the first byte of a field  *)
(* holds its value and its size, the others are of size 0.  A read of n     *)
(* bytes that does not meet a field of n bytes would return parts of other  *)
(* fields: here it fails.  A string is [text, len].                         *)
(***************************************************************************)
EXTENDS Integers, SequencesExt, TLC

Bad == -1                        \* the position after a read that failed

Field(n, v) == [i \in 1..n |-> IF i = 1 THEN [n |-> n, v |-> v] ELSE [n |-> 0]]

-----------------------------------------------------------------------------
(* Reader: each read takes and returns a position.                          *)

Read(file, p, n) ==
  IF p # Bad /\ n <= Len(file) - p /\ file[p + 1].n = n
  THEN [v |-> file[p + 1].v, p |-> p + n]
  ELSE [v |-> 0, p |-> Bad]

ReadString(file, p) ==
  LET len == Read(file, p, 8)
  IN  IF len.p # Bad /\ len.v = 0 THEN [v |-> "", p |-> len.p]
      ELSE Read(file, len.p, len.v)

\* n reads, one after the other.
ReadAll(file, p, n, One(_, _)) ==
  LET upTo[k \in 0..n] ==
        IF k = 0 THEN [v |-> <<>>, p |-> p]
        ELSE LET before == upTo[k - 1]
                 x == One(file, before.p)
             IN  [v |-> Append(before.v, x.v), p |-> x.p]
  IN  upTo[n]

ScalarSize == [U8 |-> 1, I8 |-> 1, BOOL |-> 1, U16 |-> 2, I16 |-> 2, U32 |-> 4,
               I32 |-> 4, F32 |-> 4, U64 |-> 8, I64 |-> 8, F64 |-> 8]

\* These two have a size, but read_scalar has no case for them.
NoCase == {"U64", "I64"}

\* Other numbers are widened: what a key is written as does not matter to a lookup.
ReadScalar(file, p, type) ==
  IF type = "STRING" THEN ReadString(file, p)
  ELSE IF type \notin DOMAIN ScalarSize \ NoCase THEN [v |-> 0, p |-> Bad]
  ELSE LET x == Read(file, p, ScalarSize[type])
       IN  IF type = "BOOL" THEN [x EXCEPT !.v = IF @ = 0 THEN 0 ELSE 1] ELSE x

\* An array of arrays, or of an unknown type, is refused.
ReadArray(file, p) ==
  LET elem == Read(file, p, 4)
      n == Read(file, elem.p, 8)
      least == IF elem.v = "STRING" THEN 8 ELSE ScalarSize[elem.v]
      One(f, q) == ReadScalar(f, q, elem.v)
  IN  IF \/ n.p = Bad \/ elem.v \notin DOMAIN ScalarSize \cup {"STRING"}
         \/ n.v > Len(file) \/ n.v * least > Len(file) - n.p
      THEN [v |-> 0, p |-> Bad]
      ELSE LET items == ReadAll(file, n.p, n.v, One)
           IN  [v |-> [elem |-> elem.v, items |-> items.v], p |-> items.p]

ReadPair(file, p) ==
  LET key == ReadString(file, p)
      type == Read(file, key.p, 4)
      value == IF type.p = Bad THEN type
               ELSE IF type.v = "ARRAY" THEN ReadArray(file, type.p)
               ELSE ReadScalar(file, type.p, type.v)
  IN  [v |-> [key |-> key.v, type |-> type.v, value |-> value.v], p |-> value.p]

-----------------------------------------------------------------------------
(* The tensors.                                                             *)

\* Elements per block, bytes per block; a type not here is unknown.  The
\* types the program cannot dequantise but sizes all the same are left out.
TypeTraits ==
  [F32 |-> <<1, 4>>, F16 |-> <<1, 2>>, BF16 |-> <<1, 2>>, Q4_0 |-> <<32, 18>>,
   Q4_1 |-> <<32, 20>>, Q5_0 |-> <<32, 22>>, Q5_1 |-> <<32, 24>>,
   Q8_0 |-> <<32, 34>>, Q4_K |-> <<256, 144>>, Q6_K |-> <<256, 210>>]

Elements(shape) ==
  LET upTo[k \in 0..Len(shape)] == IF k = 0 THEN 1 ELSE upTo[k - 1] * shape[k]
  IN  upTo[Len(shape)]

TensorBytes(shape, type) == (Elements(shape) \div TypeTraits[type][1]) * TypeTraits[type][2]

ReadDim(file, p) == Read(file, p, 8)

ReadTensor(file, p) ==
  LET name == ReadString(file, p)
      rank == Read(file, name.p, 4)
      shape == ReadAll(file, rank.p, rank.v, ReadDim)
      type == Read(file, shape.p, 4)
      offset == Read(file, type.p, 8)
  IN  IF rank.p = Bad \/ rank.v > 4 THEN [v |-> 0, p |-> Bad]
      ELSE IF \/ offset.p = Bad \/ type.v \notin DOMAIN TypeTraits
              \/ Elements(shape.v) % TypeTraits[type.v][1] # 0
      THEN [v |-> 0, p |-> Bad]
      ELSE [v |-> [name |-> name.v, shape |-> shape.v, type |-> type.v,
                   offset |-> offset.v, nbytes |-> TensorBytes(shape.v, type.v)],
            p |-> offset.p]

\* No odd divisor but 1: what `a & (a - 1)` is 0 for.  Zero is refused.
PowerOfTwo(a) == a > 0 /\ \A d \in 1..a : a % d = 0 => d = 1 \/ d % 2 = 0

\* Mutant of AlignUp: the blob follows the descriptors at once.
AlignUpNever(p, a) == p

AlignUp(p, a) == ((p + a - 1) \div a) * a

-----------------------------------------------------------------------------
(* GGUFFile::open and parse.                                                *)

\* The first of several equal keys is the one found.
Meta(pairs, key) == {n \in DOMAIN pairs : /\ pairs[n].key = key
                                          /\ \A m \in 1..(n - 1) : pairs[m].key # key}

PairOf(pairs, key) == pairs[Min(Meta(pairs, key))]

\* Lookups, with the value to use where there is no such key.  Of a key that
\* is not a number, the number is 0.
GetNumber(pairs, key, default) ==
  IF Meta(pairs, key) = {} THEN default
  ELSE IF PairOf(pairs, key).type \in DOMAIN ScalarSize THEN PairOf(pairs, key).value ELSE 0

GetString(pairs, key, default) ==
  IF Meta(pairs, key) # {} /\ PairOf(pairs, key).type = "STRING"
  THEN PairOf(pairs, key).value ELSE default

MaxCount == 16777216             \* 2^24

Closed == [opened |-> FALSE]

Open(file) ==
  LET magic == Read(file, 0, 4)
      version == Read(file, magic.p, 4)
      nTensors == Read(file, version.p, 8)
      nPairs == Read(file, nTensors.p, 8)
      pairs == ReadAll(file, nPairs.p, nPairs.v, ReadPair)
      align == GetNumber(pairs.v, <<"general", "alignment">>, 32)
      tensors == ReadAll(file, pairs.p, nTensors.v, ReadTensor)
      base == AlignUp(tensors.p, align)
      start(t) == base + tensors.v[t].offset
  IN  IF \/ nPairs.p = Bad \/ magic.v # "GGUF" \/ version.v \notin {2, 3}
         \/ nTensors.v > MaxCount \/ nPairs.v > MaxCount
         \/ pairs.p = Bad
      THEN Closed
      ELSE IF ~PowerOfTwo(align) \/ tensors.p = Bad THEN Closed
      ELSE IF \/ base > Len(file)
              \/ \E t \in DOMAIN tensors.v :
                   start(t) > Len(file) \/ tensors.v[t].nbytes > Len(file) - start(t)
      THEN Closed
      ELSE [opened |-> TRUE, pairs |-> pairs.v,
            tensors |-> [t \in DOMAIN tensors.v |->
                           [shape |-> tensors.v[t].shape, type |-> tensors.v[t].type,
                            nbytes |-> tensors.v[t].nbytes, data |-> start(t)]]]

\* GGUFFile::config: the model's own keys are under its architecture's name.
Config(pairs) ==
  LET arch == GetString(pairs, <<"general", "architecture">>, "unknown")
      u32(suffix, default) == GetNumber(pairs, <<arch, suffix>>, default)
      heads == u32("head_count", 0)
      tokens == <<"tokenizer", "tokens">>
  IN  [arch |-> arch, layers |-> u32("block_count", 0), heads |-> heads,
       kvHeads |-> u32("head_count_kv", heads), embedding |-> u32("embedding_length", 0),
       headDim |-> LET key == u32("key_length", 0)
                   IN  IF key # 0 THEN key ELSE IF heads = 0 THEN 0
                       ELSE u32("embedding_length", 0) \div heads,
       window |-> u32("sliding_window", 0),
       vocab |-> IF Meta(pairs, tokens) = {} THEN u32("vocab_size", 0)
                 ELSE IF /\ PairOf(pairs, tokens).type = "ARRAY"
                         /\ PairOf(pairs, tokens).value.elem = "STRING"
                 THEN Len(PairOf(pairs, tokens).value.items) ELSE 0]

-----------------------------------------------------------------------------
(* A writer of the layout the reader's header documents: header, keys,      *)
(* tensor descriptors, padding, and every tensor at a multiple of the       *)
(* alignment from the start of the blob.                                    *)

WriteString(s) == Field(8, s.len) \o Field(s.len, s.text)

WriteScalar(type, v) ==
  IF type = "STRING" THEN WriteString(v) ELSE Field(ScalarSize[type], v)

WritePair(pair) ==
  WriteString(pair.key) \o Field(4, pair.type) \o
  IF pair.type = "ARRAY"
  THEN Field(4, pair.elem) \o Field(8, Len(pair.value))
         \o FlattenSeq([n \in DOMAIN pair.value |-> WriteScalar(pair.elem, pair.value[n])])
  ELSE WriteScalar(pair.type, pair.value)

\* What follows the bytes so far to reach the next multiple of a.
Padding(n, a) == [i \in 1..((a - (n % a)) % a) |-> [n |-> 1, v |-> 0]]

Stored(t, a) == LET n == TensorBytes(t.shape, t.type)
                IN  Field(n, t.payload) \o Padding(n, a)

\* The tensors one after the other.
OffsetOf(tensors, k, a) == Len(FlattenSeq([n \in 1..(k - 1) |-> Stored(tensors[n], a)]))

WriteTensor(tensors, k, a) ==
  LET t == tensors[k]
  IN  WriteString(t.name) \o Field(4, Len(t.shape))
        \o FlattenSeq([d \in DOMAIN t.shape |-> Field(8, t.shape[d])])
        \o Field(4, t.type) \o Field(8, OffsetOf(tensors, k, a))

\* m: version, align, pairs, tensors.
WriteFile(m) ==
  LET head == Field(4, "GGUF") \o Field(4, m.version) \o Field(8, Len(m.tensors))
                \o Field(8, Len(m.pairs))
                \o FlattenSeq([n \in DOMAIN m.pairs |-> WritePair(m.pairs[n])])
                \o FlattenSeq([k \in DOMAIN m.tensors |-> WriteTensor(m.tensors, k, m.align)])
  IN  head \o Padding(Len(head), m.align)
        \o FlattenSeq([k \in DOMAIN m.tensors |-> Stored(m.tensors[k], m.align)])

-----------------------------------------------------------------------------
(* What holds.                                                              *)

\* The value of a key as a lookup returns it.
Plain(pair) == IF pair.type = "STRING" THEN pair.value.text
               ELSE IF pair.type # "ARRAY" THEN pair.value
               ELSE [elem |-> pair.elem,
                     items |-> IF pair.elem = "STRING"
                               THEN [n \in DOMAIN pair.value |-> pair.value[n].text]
                               ELSE pair.value]

\* The keys as they are to be read.
AsWritten(m) == [n \in DOMAIN m.pairs |-> [key |-> m.pairs[n].key.text, type |-> m.pairs[n].type,
                                           value |-> Plain(m.pairs[n])]]

IsList(s) == Len(s) \in Nat /\ s = [n \in 1..Len(s) |-> s[n]]

IsString(s) == /\ s = [text |-> s.text, len |-> s.len] /\ s.len \in Nat
               /\ s.len = 0 => s.text = ""

IsScalar(type, v) == IF type = "STRING" THEN IsString(v)
                     ELSE type \in DOMAIN ScalarSize /\ (type = "BOOL" => v \in {0, 1})

IsPair(pair) ==
  /\ IsString(pair.key)
  /\ IF pair.type # "ARRAY" THEN IsScalar(pair.type, pair.value)
     ELSE /\ pair.elem \in DOMAIN ScalarSize \cup {"STRING"} /\ IsList(pair.value)
          /\ \A n \in DOMAIN pair.value : IsScalar(pair.elem, pair.value[n])

IsTensor(t) == IsString(t.name) /\ t.shape \in Seq(Nat) /\ t.type \in DOMAIN TypeTraits

\* What a writer of the format is given: keys of known types, among them the
\* alignment unless it is 32, and tensors of known types.
Writable(m) ==
  /\ m.align \in Nat \ {0}
  /\ m.align = GetNumber(AsWritten(m), <<"general", "alignment">>, 32)
  /\ IsList(m.pairs) /\ \A n \in DOMAIN m.pairs : IsPair(m.pairs[n])
  /\ IsList(m.tensors) /\ \A k \in DOMAIN m.tensors : IsTensor(m.tensors[k])

\* The bytes a file must have: up to its last tensor's end, and never less
\* than its headers and their padding.
Needed(m) ==
  LET n == Len(m.tensors)
      blob == OffsetOf(m.tensors, n + 1, m.align)
      last == OffsetOf(m.tensors, n, m.align) + TensorBytes(m.tensors[n].shape, m.tensors[n].type)
  IN  Len(WriteFile(m)) - blob + IF n = 0 THEN 0 ELSE last

\* A version and counts the reader takes, a power of two, four dimensions,
\* whole blocks.  The types of the keys are no part of it: any will do.
Legal(m) == /\ m.version \in {2, 3} /\ PowerOfTwo(m.align)
            /\ Len(m.pairs) <= MaxCount /\ Len(m.tensors) <= MaxCount
            /\ \A k \in DOMAIN m.tensors :
                 /\ Len(m.tensors[k].shape) <= 4
                 /\ Elements(m.tensors[k].shape) % TypeTraits[m.tensors[k].type][1] = 0

\* The keys under these names, in their order.
Own(pairs, names) ==
  FlattenSeq([n \in DOMAIN pairs |-> IF pairs[n].key[1] \in names THEN <<pairs[n]>> ELSE <<>>])

\* read_scalar has a case for everything in the pair.
HasCase(pair) == IF pair.type = "ARRAY" THEN pair.elem \notin NoCase \/ Len(pair.value) = 0
                 ELSE pair.type \notin NoCase

Cased(m) == \A n \in DOMAIN m.pairs : HasCase(m.pairs[n])

\* A file that is not legal, or was cut short of a byte any tensor needs, is
\* refused; a legal one with all its bytes is opened, where nothing is asked of
\* one with a key read_scalar has no case for.  An opened file gives every key
\* the value it was written with, whatever else it holds, and every tensor its
\* own aligned bytes (GGUFFile::open, parse, config).
ReadsBack(m, cut, opened) ==
  LET file == SubSeq(WriteFile(m), 1, cut)
  IN  /\ opened.opened => Legal(m) /\ cut >= Needed(m)
      /\ Legal(m) /\ cut >= Needed(m) /\ Cased(m) => opened.opened
      /\ opened.opened =>
           /\ opened.pairs = AsWritten(m)
           /\ Config(opened.pairs) =
                Config(Own(opened.pairs, {"general", "tokenizer", Config(opened.pairs).arch}))
           /\ Len(opened.tensors) = Len(m.tensors)
           /\ \A k \in DOMAIN m.tensors :
                LET t == opened.tensors[k]
                IN  /\ t.shape = m.tensors[k].shape /\ t.type = m.tensors[k].type
                    /\ t.data % m.align = 0
                    /\ t.nbytes # 0 =>
                         file[t.data + 1] = [n |-> t.nbytes, v |-> m.tensors[k].payload]
=============================================================================
