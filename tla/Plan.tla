-------------------------------- MODULE Plan --------------------------------
(***************************************************************************)
(* One token's dispatches: the configuration the session ends up with, the  *)
(* scratch buffers it sizes from it, the chain record_token records at a    *)
(* position, and the count plan_token promised.                             *)
(*                                                                          *)
(* A dispatch is the threads it is launched with and what its kernel needs: *)
(* threads, and the stretches of buffers it writes and reads.  Weights,     *)
(* which no dispatch writes, and the numbers computed are left out.         *)
(***************************************************************************)
EXTENDS Integers, SequencesExt

CONSTANT Configs      \* what the caller asks, the file has, the modules offer

VARIABLES config,     \* cfg_, as the constructor left it
          position,   \* pos_
          logits,     \* whether the last chain ends with logits
          chain       \* the last token's dispatches

planvars == <<config, position, logits, chain>>

\* The fields of DecodeConfig and MatvecConfig a chain depends on, and whether
\* the modules bring the kernels.
Numbers == {"layers", "hidden", "ffn", "heads", "kvHeads", "headDim", "vocab", "maxSeq",
            "normParts", "minSpan", "applySplit", "maxParts", "globalEvery", "window",
            "fileWindow", "split", "splitBelow", "maxGroups", "amParts", "amParts2", "topkParts"}
Switches == {"parSoftmax", "mq4", "softmaxKernels", "mq4Kernels", "argmaxKernels",
             "topkKernel", "temperature", "fullVocab", "harvest"}

\* Two bounds.  maxParts ends where PartCounts does, far over the 256 there
\* are.  And ffn is the longest row a matvec has: the constructor sizes
\* mv_partial for that row, in which every split of a shorter one must fit.
ASSUME PlanAssumption ==
  \A c \in Configs :
    /\ DOMAIN c = Numbers \cup Switches
    /\ \A f \in Numbers : c[f] \in Nat
    /\ \A f \in Switches : c[f] \in BOOLEAN
    /\ c.maxParts <= 1024 /\ c.hidden <= c.ffn /\ c.heads * c.headDim <= c.ffn

QuantBlock == 32      \* kQBlock

PartCounts == {1, 2, 4, 8, 16, 32, 64, 128, 256, 512, 1024}
CeilDiv(n, d) == (n + d - 1) \div d

-----------------------------------------------------------------------------
(* DecodeConfig and MatvecConfig.                                           *)

\* How many parts a matvec is split into: 1 is not at all.
SplitFor(c, rows, cols) ==
  IF c.split <= 1 \/ cols >= c.splitBelow THEN 1
  ELSE LET most == Min({c.split, rows \div QuantBlock})
       IN  Max({1} \cup {s \in 1..most : CeilDiv(cols * s, 64) <= c.maxGroups})

\* The least power of two whose square covers the span.
SoftmaxParts(c, span) ==
  IF ~c.parSoftmax \/ span < c.minSpan THEN 1
  ELSE LET p == Min({q \in PartCounts : q * q >= span \/ q >= c.maxParts})
       IN  Min({p, span})

\* layer_is_global, layer_window, attn_kv_start.  Layers count from 0.
IsGlobal(c, l) == c.globalEvery = 0 \/ (l + 1) % c.globalEvery = 0
FirstKey(c, l, len) == IF IsGlobal(c, l) \/ c.window = 0 \/ len <= c.window THEN 0
                       ELSE len - c.window
Span(c, l, len) == len - FirstKey(c, l, len)

QDim(c) == c.heads * c.headDim
KvDim(c) == c.kvHeads * c.headDim

DefaultWindow == 512

\* The constructor: the caller's policy over the file's shape; a switch the
\* modules or the shape cannot serve goes off.
Effective(ask) ==
  LET mq4 == /\ ask.mq4Kernels /\ ask.mq4
             /\ ask.heads = 4 /\ ask.kvHeads = 1 /\ ask.headDim % 4 = 0
      window == IF ask.window # DefaultWindow THEN ask.window
                ELSE IF ask.fileWindow # 0 THEN ask.fileWindow ELSE DefaultWindow
  IN  [ask EXCEPT !.window = window, !.mq4 = mq4,
                  !.parSoftmax = @ /\ ask.softmaxKernels,
                  !.harvest = /\ ask.argmaxKernels /\ ask.topkKernel
                              /\ ask.temperature /\ ~ask.fullVocab]

ShapeFits(c) == /\ c.hidden % QuantBlock = 0 /\ QDim(c) % QuantBlock = 0
              /\ c.ffn % QuantBlock = 0

\* Mutant of PartialSize: splits counted for the narrow rows.
PartialSizeHidden(c) ==
  Max({1} \cup {n * SplitFor(c, c.hidden, n) : n \in {QDim(c), KvDim(c), c.hidden, c.ffn, c.vocab}})

\* Elements of the buffers: one split matvec's partials at a time.
PartialSize(c) ==
  Max({1} \cup {n * SplitFor(c, c.ffn, n) : n \in {QDim(c), KvDim(c), c.hidden, c.ffn, c.vocab}})

Size(c) ==
  [x |-> c.hidden, xb |-> c.hidden, xb2 |-> c.hidden, q_raw |-> QDim(c), q |-> QDim(c),
   k_raw |-> KvDim(c), k |-> KvDim(c), v |-> KvDim(c), att |-> QDim(c),
   scores |-> c.heads * c.maxSeq, sm_pmax |-> c.heads * c.maxParts,
   sm_psum |-> c.heads * c.maxParts, sm_stats |-> c.heads * 2,
   att_partial |-> QDim(c) * c.applySplit, hb_gate |-> c.ffn, hb_up |-> c.ffn,
   hb |-> c.ffn, logits |-> c.vocab, sample_out |-> 2, norm_partial |-> c.normParts,
   mv_partial |-> PartialSize(c), am_val |-> c.amParts, am_idx |-> c.amParts,
   am_val2 |-> c.amParts2, am_idx2 |-> c.amParts2, am_out_idx |-> 1,
   cand_val |-> 4 * c.topkParts, cand_idx |-> 4 * c.topkParts,
   kcache |-> c.maxSeq * KvDim(c), vcache |-> c.maxSeq * KvDim(c)]

-----------------------------------------------------------------------------
(* The kernels.  A stretch is n elements of a buffer; only a KV cache is of  *)
(* a layer, and is entered at a position.                                    *)

Of(buffer, n) == [buffer |-> buffer, layer |-> 0, from |-> 0, n |-> n]
Rows(buffer, l, stride, from, n) ==
  [buffer |-> buffer, layer |-> l, from |-> stride * from, n |-> stride * n]

Kernel(need, writes, reads) == [need |-> need, writes |-> writes, reads |-> reads]

SumSq(partial, in, n, parts) == Kernel(parts, {Of(partial, parts)}, {Of(in, n)})
ApplyNorm(out, in, partial, n, parts) ==
  Kernel(n, {Of(out, n)}, {Of(in, n), Of(partial, parts)})
HeadsNorm(out, in, n) == Kernel(n, {Of(out, n)}, {Of(in, n)})
Rope(x, heads, dim) == LET half == dim \div 2
                       IN  Kernel(heads * half, {Of(x, heads * dim)}, {Of(x, heads * dim)})
KvAppend(cache, l, src, n, pos) == Kernel(n, {Rows(cache, l, n, pos, 1)}, {Of(src, n)})
AttentionScores(q, c, l, span, start) ==
  Kernel(c.heads * span, {Of("scores", c.heads * span)},
         {Of(q, QDim(c)), Rows("kcache", l, KvDim(c), start, span)})
ScoresMq4(q, c, l, span, start) ==
  Kernel(span, {Of("scores", 4 * span)},
         {Of(q, 4 * c.headDim), Rows("kcache", l, c.headDim, start, span)})
SoftmaxRows(rows, cols) == Kernel(rows, {Of("scores", rows * cols)}, {Of("scores", rows * cols)})
SoftmaxPartial(rows, cols, parts) ==
  Kernel(rows * parts, {Of("sm_pmax", rows * parts), Of("sm_psum", rows * parts)},
         {Of("scores", rows * cols)})
SoftmaxFinish(rows, parts) ==
  Kernel(rows, {Of("sm_stats", 2 * rows)},
         {Of("sm_pmax", rows * parts), Of("sm_psum", rows * parts)})
SoftmaxScale(rows, cols) ==
  Kernel(rows * cols, {Of("scores", rows * cols)},
         {Of("scores", rows * cols), Of("sm_stats", 2 * rows)})
AttentionApply(c, l, span, start) ==
  Kernel(QDim(c), {Of("att", QDim(c))},
         {Of("scores", c.heads * span), Rows("vcache", l, KvDim(c), start, span)})
ApplyMq4(c, l, span, start, split) ==
  Kernel(c.headDim * split, {Of("att_partial", 4 * c.headDim * split)},
         {Of("scores", 4 * span), Rows("vcache", l, c.headDim, start, span)})
SumParts(out, partial, n, split) == Kernel(n, {Of(out, n)}, {Of(partial, n * split)})
MatvecWhole(out, in, rows, cols) == Kernel(cols, {Of(out, cols)}, {Of(in, rows)})
MatvecSplit(partial, in, rows, cols, split) ==
  Kernel(cols * split, {Of(partial, cols * split)}, {Of(in, rows)})
AddResidual(x, y, n) == Kernel(n, {Of(x, n)}, {Of(x, n), Of(y, n)})
Geglu(out, gate, up, n) == Kernel(n, {Of(out, n)}, {Of(gate, n), Of(up, n)})
ArgmaxSerial(n) == Kernel(1, {Of("sample_out", 2)}, {Of("logits", n)})
ArgmaxPartial(n, parts) == Kernel(parts, {Of("am_val", parts), Of("am_idx", parts)}, {Of("logits", n)})
ArgmaxReduce(n, parts) ==
  Kernel(parts, {Of("am_val2", parts), Of("am_idx2", parts)}, {Of("am_val", n), Of("am_idx", n)})
ArgmaxFinal(n) == Kernel(1, {Of("sample_out", 2), Of("am_out_idx", 1)},
                         {Of("am_val2", n), Of("am_idx2", n)})
Topk4(n, parts) == Kernel(parts, {Of("cand_val", 4 * parts), Of("cand_idx", 4 * parts)},
                          {Of("logits", n)})

-----------------------------------------------------------------------------
(* record_token.                                                            *)

Add(threads, kernel) ==
  <<[threads |-> threads, need |-> kernel.need, writes |-> kernel.writes, reads |-> kernel.reads]>>

Norm(c, out, in, n) == Add(c.normParts, SumSq("norm_partial", in, n, c.normParts))
                         \o Add(n, ApplyNorm(out, in, "norm_partial", n, c.normParts))

Matvec(c, out, in, rows, cols) ==
  LET sp == SplitFor(c, rows, cols)
  IN  IF sp > 1 THEN Add(cols * sp, MatvecSplit("mv_partial", in, rows, cols, sp))
                       \o Add(cols, SumParts(out, "mv_partial", cols, sp))
      ELSE Add(cols, MatvecWhole(out, in, rows, cols))

\* Query, keys and values of the token; the latter two go to the cache.
Project(c, l, pos) ==
  Norm(c, "xb", "x", c.hidden)
    \o Matvec(c, "q_raw", "xb", c.hidden, QDim(c))
    \o Matvec(c, "k_raw", "xb", c.hidden, KvDim(c))
    \o Matvec(c, "v", "xb", c.hidden, KvDim(c))
    \o Add(QDim(c), HeadsNorm("q", "q_raw", QDim(c)))
    \o Add(KvDim(c), HeadsNorm("k", "k_raw", KvDim(c)))
    \o Add(QDim(c) \div 2, Rope("q", c.heads, c.headDim))
    \o Add(KvDim(c) \div 2, Rope("k", c.kvHeads, c.headDim))
    \o Add(KvDim(c), KvAppend("kcache", l, "k", KvDim(c), pos))
    \o Add(KvDim(c), KvAppend("vcache", l, "v", KvDim(c), pos))

Softmax(c, span) ==
  LET parts == SoftmaxParts(c, span)
  IN  IF c.parSoftmax /\ parts > 1
      THEN Add(c.heads * parts, SoftmaxPartial(c.heads, span, parts))
             \o Add(c.heads, SoftmaxFinish(c.heads, parts))
             \o Add(c.heads * span, SoftmaxScale(c.heads, span))
      ELSE Add(c.heads, SoftmaxRows(c.heads, span))

Attend(c, l, pos) ==
  LET start == FirstKey(c, l, pos + 1)
      span == pos + 1 - start
      mq4 == c.mq4 /\ span >= c.minSpan
      sp == c.applySplit
  IN  (IF mq4 THEN Add(span, ScoresMq4("q", c, l, span, start))
       ELSE Add(c.heads * span, AttentionScores("q", c, l, span, start)))
      \o Softmax(c, span)
      \o (IF mq4 THEN Add(c.headDim * sp, ApplyMq4(c, l, span, start, sp))
                        \o Add(QDim(c), SumParts("att", "att_partial", QDim(c), sp))
          ELSE Add(QDim(c), AttentionApply(c, l, span, start)))

Layer(c, l, pos) ==
  Project(c, l, pos) \o Attend(c, l, pos)
    \o Matvec(c, "xb", "att", QDim(c), c.hidden)
    \o Norm(c, "xb2", "xb", c.hidden)
    \o Add(c.hidden, AddResidual("x", "xb2", c.hidden))
    \o Norm(c, "xb", "x", c.hidden)
    \o Matvec(c, "hb_gate", "xb", c.hidden, c.ffn)
    \o Matvec(c, "hb_up", "xb", c.hidden, c.ffn)
    \o Add(c.ffn, Geglu("hb", "hb_gate", "hb_up", c.ffn))
    \o Matvec(c, "xb", "hb", c.ffn, c.hidden)
    \o Norm(c, "xb2", "xb", c.hidden)
    \o Add(c.hidden, AddResidual("x", "xb2", c.hidden))

\* The sampling epilogue the modules allow.
PickToken(c) ==
  IF c.harvest THEN Add(c.topkParts, Topk4(c.vocab, c.topkParts))
  ELSE IF c.argmaxKernels
  THEN Add(c.amParts, ArgmaxPartial(c.vocab, c.amParts))
         \o Add(c.amParts2, ArgmaxReduce(c.amParts, c.amParts2))
         \o Add(1, ArgmaxFinal(c.amParts2))
  ELSE Add(1, ArgmaxSerial(c.vocab))

RecordToken(c, pos, wantLogits) ==
  FlattenSeq([l \in 1..c.layers |-> Layer(c, l - 1, pos)])
    \o Norm(c, "xb", "x", c.hidden)
    \o (IF wantLogits THEN Matvec(c, "logits", "xb", c.hidden, c.vocab) \o PickToken(c)
        ELSE <<>>)

-----------------------------------------------------------------------------
(* plan_token.                                                              *)

\* Mutant of MatvecCount: the reduce pass is not counted.
MatvecCountOne(c, rows, cols) == 1

MatvecCount(c, rows, cols) == IF SplitFor(c, rows, cols) > 1 THEN 2 ELSE 1

\* A projection of which the model has one counts as the head: with one layer
\* every one does, and the last, lm_head, is the one that stays.
PlannedHead(c) ==
  MatvecCount(c, c.hidden, c.vocab)
    + IF c.temperature /\ ~c.fullVocab THEN 1 ELSE IF c.argmaxKernels THEN 3 ELSE 1

PlannedMatvecs(c) ==
  IF c.layers = 1 THEN 0
  ELSE MatvecCount(c, c.hidden, QDim(c)) + 2 * MatvecCount(c, c.hidden, KvDim(c))
         + MatvecCount(c, QDim(c), c.hidden) + 2 * MatvecCount(c, c.hidden, c.ffn)
         + MatvecCount(c, c.ffn, c.hidden)

\* Norms, QK norms, rope, KV appends, attention, activation, residuals.
PlannedLayer(c) == 8 + 2 + PlannedMatvecs(c) + 2 + 2 + (IF c.parSoftmax THEN 6 ELSE 3) + 1 + 2

PlannedPrefill(c) == PlannedLayer(c) * c.layers + 2
PlannedTotal(c) == PlannedPrefill(c) + PlannedHead(c)

-----------------------------------------------------------------------------
(* The session.                                                             *)

PlanInit == /\ config \in {Effective(ask) : ask \in Configs}
            /\ position = 0 /\ logits = FALSE /\ chain = <<>>

\* A pass of prefill() or decode_step().
RecordPass(wantLogits) ==
  /\ position < config.maxSeq /\ ShapeFits(config)
  /\ chain' = RecordToken(config, position, wantLogits)
  /\ logits' = wantLogits
  /\ position' = position + 1
  /\ UNCHANGED config

PlanNext == \E wantLogits \in BOOLEAN : RecordPass(wantLogits)

-----------------------------------------------------------------------------
(* What holds.                                                              *)

Covers(w, s) == /\ w.buffer = s.buffer /\ w.layer = s.layer
                /\ w.from <= s.from /\ s.from + s.n <= w.from + w.n

\* What holds a value before the i-th dispatch: the embedding in x, the keys
\* and values of the earlier positions, what this token's dispatches wrote.
\* The earlier positions and this one's row are adjacent: one stretch.
Cached(cache, l, n) == Rows(cache, l, KvDim(config), 0, n)
Appended(cache, l, i) ==
  \E j \in 1..(i - 1) : Rows(cache, l, KvDim(config), position - 1, 1) \in chain[j].writes

Filled(s, i) ==
  \/ Covers(Of("x", config.hidden), s)
  \/ \E j \in 1..(i - 1) : \E w \in chain[j].writes : Covers(w, s)
  \/ /\ s.buffer \in {"kcache", "vcache"}
     /\ Covers(Cached(s.buffer, s.layer,
                      IF Appended(s.buffer, s.layer, i) THEN position ELSE position - 1), s)

\* What the sampler reads after a chain with logits.
SamplerReads == IF ~config.temperature THEN {Of("sample_out", 2)}
                ELSE IF config.harvest
                THEN {Of("cand_val", 4 * config.topkParts), Of("cand_idx", 4 * config.topkParts)}
                ELSE {Of("logits", config.vocab)}

\* Whatever the position, the window and the kernels there are: every dispatch
\* has its threads, writes within the buffer it is given, reads only what
\* this conversation has put there, and takes no buffer as both the source and
\* the target unless it works in place; and the sampler finds its input
\* (record_token against the constructor's sizes and the kernels).
\* softmax_max_parts a power of two: with another the parts outgrow it.
ChainFits == chain # <<>> /\ config.maxParts \in PartCounts =>
  /\ \A i \in DOMAIN chain :
       /\ chain[i].threads >= chain[i].need
       /\ \A w \in chain[i].writes : w.from + w.n <= Size(config)[w.buffer]
       /\ \A s \in chain[i].reads : Filled(s, i)
       /\ \A w \in chain[i].writes, s \in chain[i].reads :
            w.buffer = s.buffer /\ w.layer = s.layer => w = s
  /\ logits => \A s \in SamplerReads : Filled(s, Len(chain) + 1)

Planned == IF logits THEN PlannedTotal(config) ELSE PlannedPrefill(config)

\* Every layer uses what parallel forms the session has.
Deep == \A l \in 0..(config.layers - 1) :
          Span(config, l, position) >= Max({config.minSpan, 2}) /\ config.maxParts > 1

\* A token never takes more dispatches than planned, and takes as many once
\* every layer is deep: for a model of several layers whose modules have all
\* the parallel kernels or none of them (record_token against plan_token).
AsPlanned ==
  /\ chain # <<>> /\ config.layers > 1 /\ config.mq4 = config.parSoftmax
  /\ config.temperature /\ ~config.fullVocab => config.harvest
  => /\ Len(chain) <= Planned
     /\ Deep \/ ~config.parSoftmax => Len(chain) = Planned
=============================================================================
