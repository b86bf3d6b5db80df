---------------------------- MODULE DecodeSession ----------------------------
(***************************************************************************)
(* vulkore::llm::DecodeSession (examples/llm/decode.cpp) behind the JNI's   *)
(* ChatSession (llm_jni.cpp): the KV cache, the logits the last pass left   *)
(* on the device, prefill(), decode_step(), reset() and the `done` flag.    *)
(*                                                                         *)
(* The network is a function nobody models: the logits are represented by  *)
(* what the pass attended to, layer by layer, so "the right logits" means  *)
(* that every layer saw the right positions holding the right tokens.      *)
(* Resetting only sets pos_ to 0, so stale entries stay in the cache.       *)
(***************************************************************************)
EXTENDS Integers, Sequences

CONSTANTS
  MaxSeq,   \* DecodeConfig::max_seq
  Layers,   \* transformer layers
  Window,   \* layer_window: positions a local layer sees, 0 on a global layer
  Tokens,   \* the vocabulary
  Ends,     \* <end_of_turn> and <eos>
  Prompts,  \* token sequences clients prefill; never empty (there is a BOS)
  Faults,   \* "pass": a Vulkan call of a pass may throw
  None      \* nothing was ever written here

ASSUME SessionAssumption ==
  /\ MaxSeq \in Nat \ {0}
  /\ Window \in [Layers -> Nat]
  /\ Prompts \subseteq Seq(Tokens) \ {<<>>}
  /\ Ends \subseteq Tokens
  /\ None \notin Tokens

VARIABLES
  pos,      \* pos_
  kv,       \* the cached keys and values, position by position
  logits,   \* what the pass behind the logits on the device attended to
  prompt,   \* the rest of the prompt prefill() is running, <<>> outside it
  done,     \* ChatSession::done
  open      \* client: prefill() returned, and no step() ended the turn since

vars == <<pos, kv, logits, prompt, done, open>>

-----------------------------------------------------------------------------
\* Mutant of KvStart: `seq_len < w` where the code has `seq_len <= w`, and
\* one position too few once the window slides.
KvStartShort(l, seqLen) ==
  IF Window[l] = 0 \/ seqLen < Window[l] THEN 0 ELSE seqLen - Window[l] + 1

\* attn_kv_start: the first position layer l attends to.
KvStart(l, seqLen) ==
  IF Window[l] = 0 \/ seqLen <= Window[l] THEN 0 ELSE seqLen - Window[l]

\* What layer l sees of a cache of seqLen positions, and what all layers see.
Seen(cache, l, seqLen) == [i \in KvStart(l, seqLen)..(seqLen - 1) |-> cache[i]]

Attended(cache, seqLen) == [l \in Layers |-> Seen(cache, l, seqLen)]

Init ==
  /\ pos = 0
  /\ kv = [i \in 0..(MaxSeq - 1) |-> None]
  /\ logits = [l \in Layers |-> <<>>]
  /\ prompt = <<>>
  /\ done = FALSE
  /\ open = FALSE

\* One submission of record_token for token t: the pass appends to the cache
\* at pos_ and attends to everything up to it; the lm_head runs if wanted.
Pass(t, wantLogits) ==
  /\ kv' = [kv EXCEPT ![pos] = t]
  /\ logits' = IF wantLogits THEN Attended(kv', pos + 1) ELSE logits
  /\ pos' = pos + 1

\* A pass that throws, before or after the device ran it: pos_ stays.
PassFails(t, wantLogits) ==
  /\ "pass" \in Faults
  /\ kv' \in {kv, [kv EXCEPT ![pos] = t]}
  /\ logits' \in {logits} \cup (IF wantLogits THEN {Attended(kv', pos + 1)} ELSE {})
  /\ UNCHANGED pos

-----------------------------------------------------------------------------
\* prefill() is entered.
Prefill(p) ==
  /\ prompt = <<>>
  /\ prompt' = p
  /\ open' = FALSE
  /\ UNCHANGED <<pos, kv, logits, done>>

\* Mutant of PrefillPass: only the last token is checked against max_seq.
PrefillPassUnbounded ==
  /\ prompt # <<>> /\ (pos < MaxSeq \/ Len(prompt) > 1)
  /\ Pass(Head(prompt), Len(prompt) = 1)
  /\ prompt' = Tail(prompt)
  /\ IF prompt' = <<>> THEN done' = FALSE /\ open' = TRUE
                       ELSE UNCHANGED <<done, open>>

\* One prompt token; only the last pass wants logits.  Then prefill() returns
\* and the JNI clears `done`.
PrefillPass ==
  /\ prompt # <<>> /\ pos < MaxSeq
  /\ Pass(Head(prompt), Len(prompt) = 1)
  /\ prompt' = Tail(prompt)
  /\ IF prompt' = <<>> THEN done' = FALSE /\ open' = TRUE
                       ELSE UNCHANGED <<done, open>>

\* Mutant of PrefillThrows: the client goes on to sample.
PrefillThrowsUnseen ==
  /\ prompt # <<>>
  /\ \/ pos >= MaxSeq /\ UNCHANGED <<pos, kv, logits>>
     \/ pos < MaxSeq /\ PassFails(Head(prompt), Len(prompt) = 1)
  /\ prompt' = <<>> /\ open' = TRUE
  /\ UNCHANGED done

\* prefill() throws in the middle of the prompt: the cache is full, or the
\* pass failed.  What was fed stays, and `done` keeps its value.
PrefillThrows ==
  /\ prompt # <<>>
  /\ \/ pos >= MaxSeq /\ UNCHANGED <<pos, kv, logits>>
     \/ pos < MaxSeq /\ PassFails(Head(prompt), Len(prompt) = 1)
  /\ prompt' = <<>>
  /\ UNCHANGED <<done, open>>

\* Mutant of Step: position() + 2 >= max_seq where the code has + 1.
StepEarly(t) ==
  /\ open /\ prompt = <<>> /\ ~done /\ pos < MaxSeq
  /\ Pass(t, TRUE)
  /\ done' = (t \in Ends \/ pos' + 2 >= MaxSeq)
  /\ open' = (t \notin Ends)
  /\ UNCHANGED prompt

\* step(): decode_step() samples t from the logits at hand and runs a pass on
\* it.  An end token ends the turn; with no room for another token after the
\* next, this piece is the last.
Step(t) ==
  /\ open /\ prompt = <<>> /\ ~done /\ pos < MaxSeq
  /\ Pass(t, TRUE)
  /\ done' = (t \in Ends \/ pos' + 1 >= MaxSeq)
  /\ open' = (t \notin Ends)
  /\ UNCHANGED prompt

\* step() after the last piece returns null at once.
StepNull ==
  /\ open /\ prompt = <<>> /\ done
  /\ open' = FALSE
  /\ UNCHANGED <<pos, kv, logits, prompt, done>>

\* decode_step() throws: the cache is full (a prompt filled it), or its pass
\* failed after t was sampled.  step() sets `done` and returns null.
StepThrows(t) ==
  /\ open /\ prompt = <<>> /\ ~done
  /\ \/ (pos = 0 \/ pos >= MaxSeq) /\ UNCHANGED <<pos, kv, logits>>
     \/ pos \in 1..(MaxSeq - 1) /\ PassFails(t, TRUE)
  /\ done' = TRUE
  /\ open' = FALSE
  /\ UNCHANGED prompt

\* reset(): only the position and the flag; the cache keeps its bytes.
Reset ==
  /\ prompt = <<>>
  /\ pos' = 0 /\ done' = FALSE /\ open' = FALSE
  /\ UNCHANGED <<kv, logits, prompt>>

Next ==
  \/ \E p \in Prompts : Prefill(p)
  \/ PrefillPass \/ PrefillThrows
  \/ \E t \in Tokens : Step(t) \/ StepThrows(t)
  \/ StepNull \/ Reset

Spec == Init /\ [][Next]_vars

-----------------------------------------------------------------------------
(* Properties.                                                              *)

\* Every variable stays in its type; the position never leaves the cache.
TypeOK ==
  /\ pos \in 0..MaxSeq
  /\ kv \in [0..(MaxSeq - 1) -> Tokens \cup {None}]
  /\ prompt \in Seq(Tokens)
  /\ done \in BOOLEAN
  /\ open \in BOOLEAN

\* The tokens fed since the last reset, which the cache stands for.
Log == [i \in 1..pos |-> kv[i - 1]]

\* The last W tokens of the conversation as a local layer should see them,
\* all of them on a global one.
Suffix(l) ==
  {i \in 0..(pos - 1) : Window[l] = 0 \/ pos - i <= Window[l]}

\* The logits on the device are those of the whole conversation.
Current == \A l \in Layers : logits[l] = [i \in Suffix(l) |-> kv[i]]

\* The logits decode_step() samples from are those of the whole present
\* conversation: no token of an older one, of a prompt that failed, or of a
\* missing or surplus position is in what any layer attended to, also right
\* after exceptions and resets.
SamplesWholeContext == open => Current

\* A turn that was cut for want of room has used the cache up to its last
\* position but one: step() neither stops early nor overruns.
CutOnlyWhenFull ==
  open /\ done => pos = MaxSeq - 1 \/ pos = MaxSeq

\* The session is an append-only token log that is sampled only as a whole.
Contract == INSTANCE TokenContext WITH log <- Log, current <- Current

\* Every step of the session and its client is one the contract allows.
KeepsContract == Contract!Spec
==============================================================================
