---------------------------- MODULE MCAlgorithms ----------------------------
(* Small inputs for every algorithm, each chosen so that its corners occur.  *)
EXTENDS Algorithms

-----------------------------------------------------------------------------
(* SPIR-V: kernel "a" takes a buffer of set 1 and a value, kernel "b" one   *)
(* buffer; with instructions nobody knows, and with two arguments of "b" at  *)
(* ordinals 0 and 2, or of a block above the limit.                          *)

Str(id, t) == [op |-> "OpString", id |-> id, text |-> t]
Con(id, v) == [op |-> "OpConstant", id |-> id, value |-> v]
Import(id, set) == [op |-> "OpExtInstImport", id |-> id, set |-> set]
Ext(result, inst, words) ==
  [op |-> "OpExtInst", id |-> 1, result |-> result, inst |-> inst, words |-> words]

Declarations ==
  <<[op |-> "OpExtension", text |-> "SPV_KHR_non_semantic_info"],
    Import(1, "ClspvReflection"), Import(2, "OpenCL.std"), Str(10, "a"), Str(11, "b")>>
  \o [n \in 1..9 |-> Con(99 + n, n - 1)]           \* id 100 + v is the value v

Body == <<[op |-> "Code"],
          [op |-> "OpExtInst", id |-> 2, result |-> 50, inst |-> "Sin", words |-> <<>>]>>

Good == Declarations \o Body \o
  <<Ext(20, "Kernel", <<5, 10>>), Ext(30, "ArgumentInfo", <<11>>),
    Ext(31, "ArgumentPodPushConstant", <<20, 101, 104, 102, 30>>),
    Ext(32, "ArgumentStorageBuffer", <<20, 100, 101, 103>>),
    Ext(33, "SpecConstantWorkgroupSize", <<100, 101, 102>>),
    Ext(21, "Kernel", <<6, 11>>),
    Ext(34, "ArgumentStorageBuffer", <<21, 100, 100, 101>>),
    Ext(35, "PropertyRequiredWorkgroupSize", <<21, 104, 102, 101>>)>>

MCModules == {Good, Declarations \o Body,
              Append(Good, Ext(40, "ArgumentUniform", <<21>>)),
              Append(Good, Ext(41, "ArgumentStorageBuffer", <<21, 102, 100, 100>>)),
              Append(Good, Ext(42, "ArgumentPodPushConstant", <<21, 101, 108, 104>>))}

Buf == [kind |-> "buffer", valid |-> TRUE]
Pod(n) == [kind |-> "pod", size |-> n]
MCLaunches == [args : {<<Buf>>, <<[Buf EXCEPT !.valid = FALSE]>>, <<Buf, Pod(2)>>, <<Buf, Pod(4)>>,
                       <<Pod(2), Buf>>},
               grid : {<<1, 1, 1>>, <<64, 2, 1>>, <<65, 3, 2>>, <<0, 1, 1>>, <<1000, 1, 1>>}]

-----------------------------------------------------------------------------
(* Vocabularies: merges that overlap, with equal scores, into each other    *)
(* and into the marker; bytes of their own or an unknown token; bos or eos;  *)
(* one special token the beginning of another.                               *)

Tk(s, score, type) == [text |-> s, score |-> score, type |-> type]
ByteTk(c) == Tk(<<"<0x", c, ">">>, 0, "BYTE")

WithBytes ==
  [tokens |-> <<Tk(<<"a">>, -9, "NORMAL"), Tk(<<"b">>, -9, "NORMAL"), Tk(Marker, -9, "NORMAL"),
                Tk(<<"a", "b">>, -2, "NORMAL"), Tk(<<"b", "a">>, -1, "NORMAL"),
                Tk(<<"a", "a">>, -2, "NORMAL"), Tk(<<"a", "b", "a">>, 0, "NORMAL"),
                Tk(Marker \o <<"a">>, -2, "NORMAL"), Tk(Marker \o Marker, -1, "NORMAL"),
                Tk(<<"a", "b", "a", "b">>, -3, "NORMAL"), ByteTk("a"), ByteTk("b"),
                ByteTk("lead2"), ByteTk("cont"), Tk(<<"bos">>, 0, "CONTROL"),
                Tk(<<"x">>, 0, "CONTROL"), Tk(<<"x", "y">>, 0, "CONTROL"),
                ByteTk("lead3"), ByteTk("lead4")>>,
   prefix |-> TRUE, bos |-> 15, eos |-> 0, unk |-> 0]

MCVocabs == {WithBytes, [WithBytes EXCEPT !.prefix = FALSE],
             [WithBytes EXCEPT !.prefix = FALSE, !.bos = 0, !.eos = 11, !.unk = 11,
                               !.tokens = SubSeq(@, 1, 10) \o SubSeq(@, 15, 17)]}

MCTexts == UNION {[1..n -> {"a", "b", "sp", "lead2", "cont"}] : n \in 0..3}
             \cup UNION {[1..n -> {"a", "b", "sp"}] : n \in 4..5} \cup [1..6 -> {"a", "b"}]
             \cup {<<"a", "x", "y", "b">>, <<"x", "x">>, <<"a", "x">>}
             \cup UNION {{<<c>> \o [i \in 1..n |-> "cont"] \o t : t \in {<<>>, <<"sp", "a">>}} :
                           c \in {"lead3", "lead4"}, n \in 0..4}

-----------------------------------------------------------------------------
(* Sessions: 3 layers of Gemma's shape in miniature, every other one global. *)

Gemma ==
  [layers |-> 3, hidden |-> 64, ffn |-> 128, heads |-> 4, kvHeads |-> 1, headDim |-> 32,
   vocab |-> 96, maxSeq |-> 7, normParts |-> 4, minSpan |-> 3, applySplit |-> 2, maxParts |-> 2,
   globalEvery |-> 2, window |-> 512, fileWindow |-> 4, split |-> 4, splitBelow |-> 128,
   maxGroups |-> 100, amParts |-> 8, amParts2 |-> 2, topkParts |-> 8, parSoftmax |-> TRUE,
   mq4 |-> TRUE, softmaxKernels |-> TRUE, mq4Kernels |-> TRUE, argmaxKernels |-> TRUE,
   topkKernel |-> TRUE, temperature |-> FALSE, fullVocab |-> FALSE, harvest |-> FALSE]

MCConfigs ==
  {Gemma, [Gemma EXCEPT !.window = 3, !.temperature = TRUE],
   [Gemma EXCEPT !.temperature = TRUE, !.fullVocab = TRUE, !.globalEvery = 0],
   [Gemma EXCEPT !.mq4Kernels = FALSE, !.softmaxKernels = FALSE, !.argmaxKernels = FALSE],
   [Gemma EXCEPT !.mq4Kernels = FALSE], [Gemma EXCEPT !.softmaxKernels = FALSE],
   [Gemma EXCEPT !.kvHeads = 2, !.temperature = TRUE, !.topkKernel = FALSE],
   [Gemma EXCEPT !.layers = 1, !.split = 1],
   [Gemma EXCEPT !.fileWindow = 0, !.maxGroups = 3, !.splitBelow = 2048],
   [Gemma EXCEPT !.hidden = 63], [Gemma EXCEPT !.maxParts = 1],
   [Gemma EXCEPT !.maxParts = 3, !.minSpan = 1, !.maxSeq = 5]}

-----------------------------------------------------------------------------
(* Files, weights and logits.                                               *)

Named2(name, n) == [text |-> name, len |-> n]
Pair(key, n, type, v) == [key |-> Named2(key, n), type |-> type, value |-> v, elem |-> type]
List(key, n, elem, v) == [key |-> Named2(key, n), type |-> "ARRAY", value |-> v, elem |-> elem]
Tensor(name, shape, type) ==
  [name |-> Named2(name, 2), shape |-> shape, type |-> type, payload |-> name]

AFile ==
  [version |-> 3, align |-> 32,
   pairs |-> <<Pair(<<"general", "architecture">>, 5, "STRING", Named2("g3", 2)),
               Pair(<<"g3", "head_count">>, 3, "U16", 4),
               Pair(<<"g3", "embedding_length">>, 3, "U32", 8),
               Pair(<<"llama", "head_count">>, 3, "U32", 7), Pair(<<"x", "b">>, 1, "BOOL", 1),
               List(<<"tokenizer", "tokens">>, 2, "STRING",
                    <<Named2("a", 1), Named2("", 0), Named2("c", 3)>>),
               List(<<"x", "s">>, 1, "F32", <<1, 2>>)>>,
   tensors |-> <<Tensor("t1", <<3, 2>>, "F32"), Tensor("t2", <<32>>, "Q8_0"),
                 Tensor("t3", <<4>>, "F16")>>]

With(pairs) == [AFile EXCEPT !.pairs = @ \o pairs]
Wide(items) == With(<<List(<<"x", "v">>, 1, "F32", <<>>), List(<<"x", "w">>, 1, "I64", items)>>)

Aligned(a) == [With(<<Pair(<<"general", "alignment">>, 5, "U32", a)>>) EXCEPT !.align = a]

Files == {AFile, [AFile EXCEPT !.version = 1], Aligned(16), Aligned(48),
          With(<<Pair(<<"x", "w">>, 1, "U64", 1)>>), Wide(<<>>), Wide(<<1>>),
          [AFile EXCEPT !.pairs = <<List(<<"tokenizer", "tokens">>, 2, "F32", <<1>>)>>]}

\* Cut anywhere; of the file with a large alignment, at its end and just where
\* its last tensor ends or does not.
FileQuestions ==
  UNION {[about : {"file"}, file : {f}, cut : 0..Len(WriteFile(f))] : f \in Files}
    \cup LET f == Aligned(2048)
         IN  [about : {"file"}, file : {f}, cut : {Len(WriteFile(f)), Needed(f), Needed(f) - 1}]

WeightQuestions ==
  [about : {"repack"}, type : Types, rows : {66}, cols : {512}, look : {{0, 1, 63, 64, 65}}]
    \cup [about : {"pack"}, layout : Layouts, rows : {32, 64, 128}, cols : {128}, split : 1..5]
    \cup [about : {"block"}, top : 0..30]

MCExp == [x \in 0..2 |-> 2 ^ x]

SampleQuestions ==
  [about : {"sample"}, logits : [1..6 -> 0..2], parts : {1, 2, 4, 7}, parts2 : {1, 2, 3},
   topK : {0, 2, 4}, topP : {<<1, 1>>, <<1, 2>>}]

MCQuestions == FileQuestions \cup WeightQuestions \cup SampleQuestions
=============================================================================
