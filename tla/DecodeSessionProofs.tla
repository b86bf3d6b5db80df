------------------------- MODULE DecodeSessionProofs -------------------------
(***************************************************************************)
(* Proofs about DecodeSession for every max_seq, vocabulary, set of layers  *)
(* and window sizes.  The invariant adds to the properties that the cached  *)
(* positions of the conversation hold tokens, and that no turn is open      *)
(* while a prompt is being fed.                                             *)
(***************************************************************************)
EXTENDS DecodeSession, SequenceTheorems, TLAPS

Written == \A i \in 0..(pos - 1) : kv[i] \in Tokens

IInv ==
  /\ TypeOK
  /\ Written
  /\ open => prompt = <<>>
  /\ SamplesWholeContext
  /\ CutOnlyWhenFull

\* attn_kv_start returns the start of the window's suffix: the positions a
\* layer attends to are the newest Window[l] ones, or all of them.
LEMMA WindowIsSuffix ==
  ASSUME NEW l \in Layers, NEW n \in Nat
  PROVE  \A i : i \in KvStart(l, n)..(n - 1) <=>
                  i \in 0..(n - 1) /\ (Window[l] = 0 \/ n - i <= Window[l])
<1>1. Window[l] \in Nat
  BY SessionAssumption
<1>2. KvStart(l, n) \in Nat
  BY <1>1 DEF KvStart
<1> SUFFICES ASSUME NEW i \in Int
             PROVE  i \in KvStart(l, n)..(n - 1) <=>
                      i \in 0..(n - 1) /\ (Window[l] = 0 \/ n - i <= Window[l])
  BY <1>2
<1>. QED
  BY <1>1 DEF KvStart

\* A pass at pos_ < max_seq keeps the cache typed and the conversation
\* written, and leaves logits that are those of the longer conversation.
LEMMA PassExtends ==
  ASSUME IInv, pos < MaxSeq, NEW t \in Tokens, NEW want \in BOOLEAN,
         Pass(t, want)
  PROVE  /\ pos' \in 1..MaxSeq
         /\ kv' \in [0..(MaxSeq - 1) -> Tokens \cup {None}]
         /\ Written'
         /\ Log' = Append(Log, t)
         /\ want => Current'
<1>1. /\ pos \in 0..(MaxSeq - 1) /\ pos' = pos + 1 /\ pos' \in 1..MaxSeq
      /\ MaxSeq \in Nat
  BY SessionAssumption DEF IInv, TypeOK, Pass
<1>2. kv' \in [0..(MaxSeq - 1) -> Tokens \cup {None}]
  BY <1>1 DEF IInv, TypeOK, Pass
<1>3. Written'
  BY <1>1 DEF IInv, TypeOK, Pass, Written
<1>4. Log' = Append(Log, t)
  <2>1. Log \in Seq(Tokens) /\ Len(Log) = pos
    BY <1>1 DEF Log, IInv, Written
  <2>2. Log' = [i \in 1..(pos + 1) |-> kv'[i - 1]]
    BY <1>1 DEF Log
  <2>3. \A i \in 1..pos : kv'[i - 1] = Log[i]
    BY <1>1 DEF Log, Pass, IInv, TypeOK
  <2>4. kv'[pos] = t
    BY <1>1 DEF Pass, IInv, TypeOK
  <2>5. Log' \in Seq(Tokens) /\ Len(Log') = pos + 1
    BY <1>1, <1>3, <2>2 DEF Written
  <2>6. /\ Append(Log, t) \in Seq(Tokens) /\ Len(Append(Log, t)) = pos + 1
        /\ \A i \in 1..pos : Append(Log, t)[i] = Log[i]
        /\ Append(Log, t)[pos + 1] = t
    BY <2>1, AppendProperties
  <2>7. \A i \in 1..(pos + 1) : Log'[i] = Append(Log, t)[i]
    BY <1>1, <2>2, <2>3, <2>4, <2>6
  <2>. QED
    BY <2>5, <2>6, <2>7, SeqEqual
<1>5. ASSUME want, NEW l \in Layers
      PROVE  logits'[l] = [i \in Suffix(l)' |-> kv'[i]]
  <2>1. logits' = Attended(kv', pos + 1)
    BY <1>5 DEF Pass
  <2>2. logits'[l] = Seen(kv', l, pos + 1)
    BY <2>1 DEF Attended
  <2>3. Suffix(l)' = KvStart(l, pos + 1)..pos
    <3>1. \A i : i \in KvStart(l, pos + 1)..pos <=>
                   i \in 0..pos /\ (Window[l] = 0 \/ pos + 1 - i <= Window[l])
      BY <1>1, WindowIsSuffix, pos + 1 \in Nat, pos + 1 - 1 = pos
    <3>2. \A i : i \in Suffix(l)' <=>
                   i \in 0..pos /\ (Window[l] = 0 \/ pos + 1 - i <= Window[l])
      BY <1>1 DEF Suffix
    <3>. QED
      BY <3>1, <3>2
  <2>4. Seen(kv', l, pos + 1) = [i \in KvStart(l, pos + 1)..pos |-> kv'[i]]
    BY <1>1, pos + 1 - 1 = pos DEF Seen
  <2>. QED
    BY <2>2, <2>3, <2>4
<1>. QED
  BY <1>1, <1>2, <1>3, <1>4, <1>5 DEF Current

\* A pass that throws leaves the conversation as it was.
LEMMA FailedPassKeeps ==
  ASSUME IInv, pos < MaxSeq, NEW t \in Tokens, NEW want, PassFails(t, want)
  PROVE  /\ kv' \in [0..(MaxSeq - 1) -> Tokens \cup {None}]
         /\ Written'
         /\ Log' = Log
<1>1. /\ pos \in 0..(MaxSeq - 1) /\ pos' = pos /\ MaxSeq \in Nat
      /\ kv' = kv \/ kv' = [kv EXCEPT ![pos] = t]
  BY SessionAssumption DEF IInv, TypeOK, PassFails
<1>2. kv' \in [0..(MaxSeq - 1) -> Tokens \cup {None}]
  BY <1>1 DEF IInv, TypeOK
<1>3. \A i \in 0..(pos - 1) : kv'[i] = kv[i]
  BY <1>1 DEF IInv, TypeOK
<1>. QED
  BY <1>1, <1>2, <1>3 DEF IInv, Written, Log

-----------------------------------------------------------------------------
LEMMA InitIInv == Init => IInv
<1> SUFFICES ASSUME Init PROVE IInv
  OBVIOUS
<1>1. TypeOK
  <2>1. prompt \in Seq(Tokens)
    BY EmptySeq DEF Init
  <2>2. pos \in 0..MaxSeq
    BY SessionAssumption DEF Init
  <2>. QED
    BY <2>1, <2>2 DEF Init, TypeOK
<1>. QED
  BY <1>1 DEF Init, IInv, Written, SamplesWholeContext, CutOnlyWhenFull

\* Sequences of prompts: the first token and the rest.
LEMMA PromptParts ==
  ASSUME TypeOK, prompt # <<>>
  PROVE  /\ Head(prompt) \in Tokens /\ Tail(prompt) \in Seq(Tokens)
         /\ Len(prompt) = 1 <=> Tail(prompt) = <<>>
<1>1. prompt \in Seq(Tokens)
  BY DEF TypeOK
<1>2. /\ Head(prompt) \in Tokens /\ Tail(prompt) \in Seq(Tokens)
      /\ Len(Tail(prompt)) = Len(prompt) - 1
  BY <1>1, HeadTailProperties
<1>3. Len(prompt) \in Nat /\ Len(<<>>) = 0
      /\ (Tail(prompt) # <<>> => Len(Tail(prompt)) \in Nat \ {0})
  BY <1>1, <1>2, EmptySeq, LenProperties
<1>4. Len(prompt) = 1 => Tail(prompt) = <<>>
  BY <1>2, <1>3
<1>5. Tail(prompt) = <<>> => Len(prompt) = 1
  BY <1>2, <1>3
<1>. QED
  BY <1>2, <1>4, <1>5

LEMMA StepIInv == IInv /\ [Next]_vars => IInv'
<1> SUFFICES ASSUME IInv, [Next]_vars PROVE IInv'
  OBVIOUS
<1>1. ASSUME NEW p \in Prompts, Prefill(p) PROVE IInv'
  BY <1>1, SessionAssumption
     DEF Prefill, IInv, TypeOK, Written, SamplesWholeContext, CutOnlyWhenFull
<1>2. CASE PrefillPass
  <2>1. Pass(Head(prompt), Len(prompt) = 1) /\ pos < MaxSeq /\ prompt # <<>>
    BY <1>2 DEF PrefillPass
  <2>2. Head(prompt) \in Tokens /\ Tail(prompt) \in Seq(Tokens)
        /\ (Len(prompt) = 1 <=> Tail(prompt) = <<>>)
    BY <2>1, PromptParts DEF IInv
  <2>3. (Len(prompt) = 1) \in BOOLEAN
    OBVIOUS
  <2>4. /\ pos' \in 1..MaxSeq
        /\ kv' \in [0..(MaxSeq - 1) -> Tokens \cup {None}]
        /\ Written'
        /\ Len(prompt) = 1 => Current'
    BY <2>1, <2>2, <2>3, PassExtends
  <2>5. ~open
    BY <2>1 DEF IInv
  <2>6. TypeOK'
    <3>1. done' \in BOOLEAN /\ open' \in BOOLEAN
      BY <1>2 DEF PrefillPass, IInv, TypeOK
    <3>2. prompt' \in Seq(Tokens)
      BY <1>2, <2>2 DEF PrefillPass
    <3>3. pos' \in 0..MaxSeq
      BY <2>4, SessionAssumption
    <3>. QED
      BY <2>4, <3>1, <3>2, <3>3 DEF TypeOK
  <2>7. SamplesWholeContext'
    <3> SUFFICES ASSUME open' PROVE Current'
      BY DEF SamplesWholeContext
    <3>1. prompt' = <<>>
      BY <1>2, <2>5 DEF PrefillPass
    <3>2. Len(prompt) = 1
      BY <1>2, <3>1, <2>2 DEF PrefillPass
    <3>. QED
      BY <2>4, <3>2
  <2>. QED
    BY <1>2, <2>4, <2>5, <2>6, <2>7 DEF PrefillPass, IInv, CutOnlyWhenFull
<1>3. CASE PrefillThrows
  <2>1. prompt # <<>> /\ ~open /\ open' = open /\ prompt' = <<>> /\ done' = done
    BY <1>3 DEF PrefillThrows, IInv
  <2>2. pos' = pos
    BY <1>3 DEF PrefillThrows, PassFails
  <2>3. kv' \in [0..(MaxSeq - 1) -> Tokens \cup {None}] /\ Written'
    <3>1. CASE UNCHANGED <<pos, kv, logits>>
      BY <3>1 DEF IInv, TypeOK, Written
    <3>2. CASE pos < MaxSeq /\ PassFails(Head(prompt), Len(prompt) = 1)
      BY <3>2, <2>1, FailedPassKeeps, PromptParts DEF IInv
    <3>. QED
      BY <1>3, <3>1, <3>2 DEF PrefillThrows
  <2>4. TypeOK'
    BY <2>1, <2>2, <2>3, EmptySeq DEF IInv, TypeOK
  <2>. QED
    BY <2>1, <2>3, <2>4 DEF IInv, SamplesWholeContext, CutOnlyWhenFull
<1>4. ASSUME NEW t \in Tokens, Step(t) PROVE IInv'
  <2>1. /\ pos' \in 1..MaxSeq /\ pos' = pos + 1
        /\ kv' \in [0..(MaxSeq - 1) -> Tokens \cup {None}]
        /\ Written'
        /\ Current'
    BY <1>4, PassExtends DEF Step, Pass
  <2>2. TypeOK'
    BY <1>4, <2>1, SessionAssumption DEF Step, IInv, TypeOK
  <2>3. CutOnlyWhenFull'
    <3>1. open' => t \notin Ends
      BY <1>4 DEF Step
    <3>2. done' => t \in Ends \/ pos' + 1 >= MaxSeq
      BY <1>4 DEF Step
    <3>. QED
      BY <2>1, <3>1, <3>2, SessionAssumption DEF CutOnlyWhenFull
  <2>. QED
    BY <1>4, <2>1, <2>2, <2>3 DEF Step, IInv, SamplesWholeContext
<1>5. CASE StepNull
  BY <1>5 DEF StepNull, IInv, TypeOK, Written, SamplesWholeContext, CutOnlyWhenFull
<1>6. ASSUME NEW t \in Tokens, StepThrows(t) PROVE IInv'
  <2>1. prompt' = <<>> /\ ~open' /\ done'
    BY <1>6 DEF StepThrows
  <2>2. pos' = pos
    BY <1>6 DEF StepThrows, PassFails
  <2>3. kv' \in [0..(MaxSeq - 1) -> Tokens \cup {None}] /\ Written'
    <3>1. CASE UNCHANGED <<pos, kv, logits>>
      BY <3>1 DEF IInv, TypeOK, Written
    <3>2. CASE pos \in 1..(MaxSeq - 1) /\ PassFails(t, TRUE)
      <4>1. pos < MaxSeq
        BY <3>2, SessionAssumption
      <4>. QED
        BY <3>2, <4>1, FailedPassKeeps
    <3>. QED
      BY <1>6, <3>1, <3>2 DEF StepThrows
  <2>4. TypeOK'
    BY <2>1, <2>2, <2>3, <1>6 DEF StepThrows, IInv, TypeOK
  <2>. QED
    BY <2>1, <2>3, <2>4 DEF IInv, SamplesWholeContext, CutOnlyWhenFull
<1>7. CASE Reset
  <2>1. /\ pos' = 0 /\ kv' = kv /\ prompt' = prompt
        /\ done' = FALSE /\ open' = FALSE
    BY <1>7 DEF Reset
  <2>2. TypeOK'
    <3>1. pos' \in 0..MaxSeq
      BY <2>1, SessionAssumption
    <3>. QED
      BY <2>1, <3>1 DEF IInv, TypeOK
  <2>3. Written'
    BY <2>1 DEF Written
  <2>. QED
    BY <2>1, <2>2, <2>3 DEF IInv, SamplesWholeContext, CutOnlyWhenFull
<1>8. CASE UNCHANGED vars
  BY <1>8 DEF vars, IInv, TypeOK, Written, SamplesWholeContext, CutOnlyWhenFull,
              Current, Suffix
<1>. QED
  BY <1>1, <1>2, <1>3, <1>4, <1>5, <1>6, <1>7, <1>8 DEF Next

LEMMA Invariance == Spec => []IInv
<1>1. Init => IInv
  BY InitIInv
<1>2. IInv /\ [Next]_vars => IInv'
  BY StepIInv
<1>. QED
  BY <1>1, <1>2, PTL DEF Spec

\* The position stays inside the cache whatever is fed, sampled or thrown.
THEOREM PositionBounded == Spec => []TypeOK
<1>1. IInv => TypeOK
  BY DEF IInv
<1>. QED
  BY <1>1, Invariance, PTL

\* Every sample is drawn from logits conditioned on the whole conversation.
THEOREM SamplesRight == Spec => []SamplesWholeContext
<1>1. IInv => SamplesWholeContext
  BY DEF IInv
<1>. QED
  BY <1>1, Invariance, PTL

\* A turn is cut for want of room only at the end of the cache.
THEOREM CutsLate == Spec => []CutOnlyWhenFull
<1>1. IInv => CutOnlyWhenFull
  BY DEF IInv
<1>. QED
  BY <1>1, Invariance, PTL
-----------------------------------------------------------------------------
LEMMA InitContract == Init => Contract!Init
<1> SUFFICES ASSUME Init PROVE Contract!Init
  OBVIOUS
<1>1. Log = <<>>
  <2>1. Log \in Seq(Tokens) /\ Len(Log) = 0
    BY DEF Init, Log
  <2>. QED
    BY <2>1, EmptySeq, SeqEqual
<1>. QED
  BY <1>1 DEF Init, Contract!Init, Current

\* Each step maps to one of the contract: a pass of the prompt to Feed, a
\* generated token to Sample, reset() to Clear, everything else to Close.
LEMMA StepContract ==
  IInv /\ [Next]_vars =>
    [Contract!Next /\ Current' \in BOOLEAN /\ open' \in BOOLEAN]_<<Log, Current, open>>
<1> SUFFICES ASSUME IInv, Next
             PROVE  Contract!Next /\ Current' \in BOOLEAN /\ open' \in BOOLEAN
  BY DEF vars, Log, Current, Suffix
<1>1. open' \in BOOLEAN
  BY StepIInv DEF IInv, TypeOK
<1>2. Current' \in BOOLEAN
  BY DEF Current
<1>3. (open => Current) /\ (open' => Current')
  BY StepIInv DEF IInv, SamplesWholeContext
<1>4. ASSUME NEW p \in Prompts, Prefill(p) PROVE Contract!Close
  BY <1>4 DEF Prefill, Contract!Close, Log
<1>5. CASE PrefillPass
  <2>1. Head(prompt) \in Tokens
    BY <1>5, PromptParts DEF PrefillPass, IInv
  <2>2. (Len(prompt) = 1) \in BOOLEAN
    OBVIOUS
  <2>3. Log' = Append(Log, Head(prompt))
    BY <1>5, <2>1, <2>2, PassExtends DEF PrefillPass
  <2>4. Log \in Seq(Tokens)
    <3>1. pos \in Nat
      BY SessionAssumption DEF IInv, TypeOK
    <3>. QED
      BY <3>1 DEF Log, IInv, Written
  <2>5. Len(Log') >= Len(Log) /\ \A i \in 1..Len(Log) : Log'[i] = Log[i]
    BY <2>1, <2>3, <2>4, AppendProperties, LenProperties
  <2>. QED
    BY <1>1, <1>2, <1>3, <1>5, <2>5
       DEF PrefillPass, IInv, Contract!Next, Contract!Feed
<1>6. CASE PrefillThrows
  <2>1. ~open'
    BY <1>6 DEF PrefillThrows, IInv
  <2>2. Log' = Log
    <3>1. CASE UNCHANGED <<pos, kv, logits>>
      BY <3>1 DEF Log
    <3>2. CASE pos < MaxSeq /\ PassFails(Head(prompt), Len(prompt) = 1)
      BY <1>6, <3>2, FailedPassKeeps, PromptParts DEF IInv, PrefillThrows
    <3>. QED
      BY <1>6, <3>1, <3>2 DEF PrefillThrows
  <2>. QED
    BY <1>1, <1>2, <2>1, <2>2 DEF Contract!Next, Contract!Close
<1>7. ASSUME NEW t \in Tokens, Step(t) PROVE Contract!Sample
  <2>1. Log' = Append(Log, t)
    BY <1>7, PassExtends DEF Step
  <2>. QED
    BY <1>3, <1>7, <2>1 DEF Step, Contract!Sample
<1>8. CASE StepNull
  BY <1>1, <1>2, <1>8 DEF StepNull, Log, Contract!Next, Contract!Close
<1>9. ASSUME NEW t \in Tokens, StepThrows(t) PROVE Contract!Close
  <2>1. ~open'
    BY <1>9 DEF StepThrows
  <2>2. Log' = Log
    <3>1. CASE UNCHANGED <<pos, kv, logits>>
      BY <3>1 DEF Log
    <3>2. CASE pos \in 1..(MaxSeq - 1) /\ PassFails(t, TRUE)
      <4>1. pos < MaxSeq
        BY <3>2, SessionAssumption
      <4>. QED
        BY <3>2, <4>1, FailedPassKeeps
    <3>. QED
      BY <1>9, <3>1, <3>2 DEF StepThrows
  <2>. QED
    BY <2>1, <2>2 DEF Contract!Close
<1>10. CASE Reset
  <2>1. Log' \in Seq(Tokens) /\ Len(Log') = 0
    BY <1>10 DEF Reset, Log
  <2>2. Log' = <<>>
    BY <2>1, EmptySeq, SeqEqual
  <2>. QED
    BY <1>1, <1>2, <1>10, <2>2 DEF Reset, Contract!Next, Contract!Clear
<1>. QED
  BY <1>1, <1>2, <1>4, <1>5, <1>6, <1>7, <1>8, <1>9, <1>10
     DEF Next, Contract!Next

\* The session with its cache, its windows and its exceptions implements the
\* append-only token log: nobody can tell that the logits come from a ring
\* cache full of stale bytes.
THEOREM KeepsTheContract == Spec => KeepsContract
<1>1. Init => Contract!Init
  BY InitContract
<1>2. IInv /\ [Next]_vars =>
        [Contract!Next /\ Current' \in BOOLEAN /\ open' \in BOOLEAN]_<<Log, Current, open>>
  BY StepContract
<1>. QED
  BY <1>1, <1>2, Invariance, PTL DEF Spec, KeepsContract, Contract!Spec
==============================================================================
