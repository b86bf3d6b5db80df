------------------------------ MODULE ChatProofs ------------------------------
(***************************************************************************)
(* Proofs about Chat for every context size, vocabulary and set of prompts. *)
(* The invariant says where the one turn that busy stands for can be, that  *)
(* a turn anywhere before its end has an open session, and how far a reply  *)
(* may be ahead of a STOP; then that BOS stands once, at the beginning of a *)
(* conversation, that the counter the guard of send() reads agrees with the *)
(* session once the queues are empty, and that the transcript then is what  *)
(* the model is conditioned on.                                             *)
(***************************************************************************)
EXTENDS Chat, FiniteFacts, SequenceTheorems, TLAPS

Sessions ==
  /\ Running => native = "open"
  /\ native = "closed" => cleared
  /\ cleared => work \in {<<>>, <<Task("close")>>} /\ looper = <<>>
  /\ ~cleared => \A i \in 1..Len(work) : work[i].kind = "turn" => native = "open"

Queues ==
  ~cleared =>
    /\ OneTurn
    /\ Running \/ Answered => work = <<>>
    /\ \A i \in 1..Len(work) : work[i].kind # "close"

Stops ==
  /\ turn.at \in {"idle", "prefill"} => turn.words = <<>>
  /\ stopRequested /\ turn.at = "check" => asked >= 0 /\ Len(turn.words) <= asked + 1
  /\ stopRequested /\ turn.at = "step" => asked >= 0 /\ Len(turn.words) <= asked

IInv == TypeOK /\ Sessions /\ Queues /\ Stops

-----------------------------------------------------------------------------
(* Queues as sequences.                                                     *)

LEMMA Appended ==
  ASSUME NEW S, NEW s \in Seq(S), NEW e \in S
  PROVE  /\ Append(s, e) \in Seq(S) /\ Append(s, e) # <<>>
         /\ Len(s) \in Nat /\ Len(Append(s, e)) = Len(s) + 1
         /\ \A i \in 1..Len(s) : Append(s, e)[i] = s[i]
         /\ Append(s, e)[Len(s) + 1] = e
         /\ Last(Append(s, e)) = e
<1>1. /\ Append(s, e) \in Seq(S) /\ Append(s, e) # <<>>
      /\ Len(s) \in Nat /\ Len(Append(s, e)) = Len(s) + 1
      /\ \A i \in 1..Len(s) : Append(s, e)[i] = s[i]
      /\ Append(s, e)[Len(s) + 1] = e
  BY AppendProperties, LenProperties
<1>. QED
  BY <1>1 DEF Last

LEMMA Taken ==
  ASSUME NEW S, NEW s \in Seq(S), s # <<>>
  PROVE  /\ Head(s) \in S /\ Tail(s) \in Seq(S)
         /\ Len(s) \in Nat \ {0} /\ Len(Tail(s)) = Len(s) - 1
         /\ Head(s) = s[1]
         /\ \A i \in 1..(Len(s) - 1) : Tail(s)[i] = s[i + 1]
         /\ Tail(s) # <<>> => Len(s) > 1 /\ Last(Tail(s)) = Last(s)
         /\ Tail(s) = <<>> => Len(s) = 1 /\ Last(s) = Head(s)
<1>1. /\ Head(s) \in S /\ Tail(s) \in Seq(S) /\ Len(Tail(s)) = Len(s) - 1
      /\ Len(s) \in Nat \ {0} /\ Head(s) = s[1]
  BY HeadTailProperties, LenProperties, EmptySeq
<1>2. \A i \in 1..(Len(s) - 1) : Tail(s)[i] = s[i + 1]
  BY <1>1, HeadTailProperties
<1>3. Tail(s) # <<>> => Len(Tail(s)) \in Nat \ {0}
  BY <1>1, EmptySeq, LenProperties
<1>4. Tail(s) # <<>> => Len(s) > 1 /\ Last(Tail(s)) = Last(s)
  BY <1>1, <1>2, <1>3 DEF Last
<1>5. Tail(s) = <<>> => Len(s) = 1
  BY <1>1, Len(<<>>) = 0
<1>6. Len(s) = 1 => Last(s) = Head(s)
  BY <1>1 DEF Last
<1>. QED
  BY <1>1, <1>2, <1>4, <1>5, <1>6

LEMMA Kinds ==
  /\ \A t \in Tasks : t.kind \in {"load", "new", "full", "close", "turn"}
  /\ \A t \in Tasks : t.kind = "turn" => t.prompt \in Prompts
  /\ \A m \in Posts : m.kind \in {"loaded", "failed", "new", "full", "out", "paint"}
  /\ \A m \in Posts : m.kind \in {"out", "paint"} => m.used \in 0..MaxSeq
  /\ \A m \in Posts : m.kind = "paint" => m.words \in Seq(Words) /\ m.fin \in BOOLEAN
BY DEF Tasks, Posts

LEMMA MakesTasks ==
  /\ \A k \in {"load", "new", "full", "close"} : Task(k) \in Tasks /\ Task(k).kind = k
  /\ \A p \in Prompts :
       /\ [kind |-> "turn", prompt |-> p] \in Tasks
       /\ [kind |-> "turn", prompt |-> p].kind = "turn"
BY DEF Tasks, Task

LEMMA MakesPosts ==
  /\ \A k \in {"loaded", "failed", "new", "full"} : Task(k) \in Posts /\ Task(k).kind = k
  /\ \A u \in 0..MaxSeq :
       [kind |-> "out", used |-> u] \in Posts /\ [kind |-> "out", used |-> u].kind = "out"
  /\ \A w \in Seq(Words), u \in 0..MaxSeq, f \in BOOLEAN :
       Paint(w, u, f) \in Posts /\ Paint(w, u, f).kind = "paint" /\ (Paint(w, u, f).fin <=> f)
BY DEF Posts, Task, Paint
-----------------------------------------------------------------------------
(* Types.                                                                   *)

Busy == [at : {"prefill", "check", "step"}, words : Seq(Words), prompt : Prompts]

LEMMA TurnParts ==
  ASSUME TypeOK
  PROVE  /\ turn.at \in {"idle", "prefill", "check", "step"} /\ turn.words \in Seq(Words)
         /\ turn.at = "idle" => turn = Idle
         /\ turn.at # "idle" => turn \in Busy
<1>1. turn = Idle \/ turn \in Busy
  BY DEF TypeOK, Turns, Busy
<1>2. Idle.at = "idle" /\ Idle.words = <<>> /\ <<>> \in Seq(Words)
  BY EmptySeq DEF Idle
<1>. QED
  BY <1>1, <1>2 DEF Busy

LEMMA IdsTyped ==
  ASSUME NEW p \in Prompts
  PROVE  Ids(p) \in Seq(Tokens) /\ Len(Ids(p)) \in Nat \ {0}
<1>1. PromptTokens[p] \in Seq(Tokens) /\ Len(PromptTokens[p]) \in Nat
  BY ChatAssumption, LenProperties DEF Tokens
<1>2. \A t \in Tokens : <<t>> \in Seq(Tokens) /\ Len(<<t>>) = 1
  OBVIOUS
<1>3. Bos \in Tokens /\ Nl \in Tokens
  BY DEF Tokens
<1>4. \A a, b \in Seq(Tokens) : a \o b \in Seq(Tokens) /\ Len(a \o b) = Len(a) + Len(b)
  BY ConcatProperties
<1>. QED
  BY <1>1, <1>2, <1>3, <1>4 DEF Ids

\* The tokens a prefill that throws has fed still fit into the context.
LEMMA FedTyped ==
  ASSUME TypeOK, NEW p \in Prompts, NEW k \in Fed(Ids(p))
  PROVE  /\ log \o SubSeq(Ids(p), 1, k) \in Seq(Tokens)
         /\ Len(log \o SubSeq(Ids(p), 1, k)) = Len(log) + k
         /\ Len(log) + k \in 0..MaxSeq
<1>1. k \in 0..(Len(Ids(p)) - 1) /\ Len(log) + k <= MaxSeq /\ Len(log) \in Nat
      /\ k \in Nat /\ MaxSeq \in Nat
  <2>1. k \in 0..(Len(Ids(p)) - 1) /\ Len(log) \in Nat /\ MaxSeq \in Nat
    BY ChatAssumption, LenProperties DEF Fed, TypeOK
  <2>2. k \in Nat
    BY <2>1, IdsTyped
  <2>3. Len(log) + k <= MaxSeq
    BY <2>1, <2>2 DEF Fed
  <2>. QED
    BY <2>1, <2>2, <2>3
<1>2. SubSeq(Ids(p), 1, k) \in Seq(Tokens) /\ Len(SubSeq(Ids(p), 1, k)) = k
  <2>1. Ids(p) \in Seq(Tokens) /\ Len(Ids(p)) \in Nat
    BY IdsTyped
  <2>2. \A i \in 1..k : Ids(p)[i] \in Tokens
    BY <1>1, <2>1, ElementOfSeq
  <2>. QED
    BY <1>1, <2>1, <2>2, SubSeqProperties
<1>. QED
  BY <1>1, <1>2, ConcatProperties DEF TypeOK
-----------------------------------------------------------------------------
(* The lock: what each kind of step does to the place of the turn.           *)

\* A tap queues a task while nothing is under way.
LEMMA TapQueues ==
  ASSUME IInv, ~cleared, ~busy, NEW t \in Tasks, t.kind # "close",
         work' = Append(work, t), looper' = looper, turn' = turn, cleared' = cleared,
         busy' <=> t.kind \in {"load", "turn"}
  PROVE  Queues'
<1>1. /\ work' # <<>> /\ Len(work) \in Nat /\ Len(work') = Len(work) + 1
      /\ \A i \in 1..Len(work) : work'[i] = work[i]
      /\ Last(work') = t
  BY Appended DEF IInv, TypeOK
<1>0. \A i \in 1..Len(work) : work[i] \in Tasks
  BY ElementOfSeq DEF IInv, TypeOK
<1>2. ~Queued /\ ~Running /\ ~Answered /\ OneTurn
  BY DEF IInv, Queues, OneTurn
<1>3. \A i \in 1..Len(work) : work[i].kind \in {"new", "full"}
  <2> SUFFICES ASSUME NEW i \in 1..Len(work) PROVE work[i].kind \in {"new", "full"}
    OBVIOUS
  <2>1. CASE i = Len(work)
    <3>1. work # <<>> /\ Last(work) = work[i]
      BY <1>1, <2>1 DEF Last
    <3>2. work[i].kind \notin {"load", "turn", "close"}
      BY <1>2, <3>1 DEF Queued, IInv, Queues
    <3>. QED
      BY <1>0, <3>2, Kinds
  <2>2. CASE i # Len(work)
    BY <1>1, <1>2, <2>2 DEF OneTurn
  <2>. QED
    BY <2>1, <2>2
<1>4. Queued' <=> t.kind \in {"load", "turn"}
  BY <1>1, Kinds DEF Queued
<1>5. ~Running' /\ ~Answered'
  BY <1>2 DEF Running, Answered
<1>6. OneTurn'
  BY <1>1, <1>2, <1>3, <1>4, <1>5 DEF OneTurn, Fin
<1>. QED
  BY <1>1, <1>3, <1>5, <1>6 DEF Queues

\* The worker posts something while it runs a turn.
LEMMA TurnPosts ==
  ASSUME IInv, ~cleared, Running, NEW m \in Posts, looper' = Append(looper, m),
         work' = work, busy' = busy, cleared' = cleared, Fin(m) <=> ~Running'
  PROVE  Queues'
<1>1. /\ looper' # <<>> /\ Len(looper) \in Nat /\ Len(looper') = Len(looper) + 1
      /\ \A i \in 1..Len(looper) : looper'[i] = looper[i]
      /\ Last(looper') = m
  BY Appended DEF IInv, TypeOK
<1>2. busy /\ ~Queued /\ ~Answered /\ OneTurn /\ work = <<>>
  BY DEF IInv, Queues, OneTurn
<1>3. \A i \in 1..Len(looper) : ~Fin(looper[i])
  BY <1>1, <1>2 DEF OneTurn, Answered, Last
<1>4. Answered' <=> ~Running'
  BY <1>1 DEF Answered, Fin
<1>5. \A i \in 1..Len(looper) : ~Fin(looper'[i])
  BY <1>1, <1>3
<1>6. ~Queued'
  BY <1>2 DEF Queued
<1>7. Len(work') = 0
  BY <1>2, EmptySeq
<1>8. \A i \in 1..(Len(looper') - 1) : ~Fin(looper[i])'
  BY <1>1, <1>5 DEF Fin
<1>. QED
  BY <1>2, <1>4, <1>6, <1>7, <1>8 DEF Queues, OneTurn

\* The worker goes on with a turn and posts nothing.
LEMMA TurnGoesOn ==
  ASSUME IInv, Running, Running', looper' = looper, work' = work, busy' = busy,
         cleared' = cleared
  PROVE  Queues'
BY DEF IInv, Queues, OneTurn, Queued, Answered, Fin

\* The worker takes a reset and posts its end.
LEMMA ResetPosts ==
  ASSUME IInv, NEW k \in {"new", "full"}, Takes(k), Post(Task(k)),
         turn' = turn, busy' = busy, cleared' = cleared
  PROVE  Queues'
<1> SUFFICES ASSUME ~cleared PROVE Queues'
  BY DEF Queues
<1>1. work # <<>> /\ Head(work).kind = k /\ work' = Tail(work) /\ ~Running
  BY DEF Takes, Running
<1>2. looper' = Append(looper, Task(k)) /\ Task(k) \in Posts /\ Task(k).kind = k
  BY MakesPosts DEF Post
<1>3. /\ Len(work) \in Nat \ {0} /\ Len(work') = Len(work) - 1 /\ Head(work) = work[1]
      /\ \A i \in 1..(Len(work) - 1) : work'[i] = work[i + 1]
      /\ work' # <<>> => Len(work) > 1 /\ Last(work') = Last(work)
      /\ work' = <<>> => Last(work) = Head(work)
  BY <1>1, Taken DEF IInv, TypeOK
<1>4. /\ looper' # <<>> /\ Len(looper) \in Nat /\ Len(looper') = Len(looper) + 1
      /\ \A i \in 1..Len(looper) : looper'[i] = looper[i]
      /\ Last(looper') = Task(k)
  BY <1>2, Appended DEF IInv, TypeOK
<1>5. ~Answered /\ OneTurn /\ \A i \in 1..Len(work) : work[i].kind # "close"
  BY <1>1 DEF IInv, Queues
<1>6. Queued' <=> Queued
  BY <1>1, <1>3 DEF Queued
<1>7. ~Answered' /\ ~Running'
  BY <1>1, <1>2, <1>4 DEF Answered, Fin, Running
<1>8. \A i \in 1..Len(looper) : ~Fin(looper[i])
  BY <1>4, <1>5 DEF OneTurn, Answered, Last
<1>9. \A i \in 1..(Len(looper') - 1) : ~Fin(looper[i])'
  BY <1>4, <1>8 DEF Fin
<1>10. \A i \in 1..(Len(work') - 1) : work'[i].kind \in {"new", "full"}
  BY <1>3, <1>5 DEF OneTurn
<1>11. \A i \in 1..Len(work') : work'[i].kind # "close"
  BY <1>3, <1>5
<1>. QED
  BY <1>1, <1>5, <1>6, <1>7, <1>9, <1>10, <1>11 DEF Queues, OneTurn

\* The worker takes the load or the turn: it is the last task of the queue.
LEMMA TakesLast ==
  ASSUME IInv, ~cleared, NEW k \in {"load", "turn"}, Takes(k)
  PROVE  /\ work' = <<>> /\ Queued /\ ~Running /\ ~Answered /\ busy /\ OneTurn
         /\ Len(work) = 1 /\ work[1] \in Tasks /\ work[1].kind = k /\ Head(work) = work[1]
<1>1. work # <<>> /\ Head(work).kind = k /\ work' = Tail(work) /\ ~Running
  BY DEF Takes, Running
<1>2. /\ Len(work) \in Nat \ {0} /\ Head(work) = work[1] /\ Head(work) \in Tasks
      /\ work' # <<>> => Len(work) > 1
      /\ work' = <<>> => Len(work) = 1 /\ Last(work) = Head(work)
  BY <1>1, Taken DEF IInv, TypeOK
<1>3. OneTurn
  BY DEF IInv, Queues
<1>4. work' = <<>>
  BY <1>1, <1>2, <1>3 DEF OneTurn
<1>5. Queued
  BY <1>1, <1>2, <1>4 DEF Queued
<1>. QED
  BY <1>1, <1>2, <1>3, <1>4, <1>5 DEF OneTurn

\* The UI thread runs the first post: the turn is over if it was the last of one.
LEMMA LooperTakes ==
  ASSUME IInv, ~cleared, looper # <<>>, looper' = Tail(looper), work' = work,
         turn' = turn, cleared' = cleared,
         busy' <=> busy /\ ~Fin(Head(looper))
  PROVE  Queues'
<1>1. /\ Len(looper) \in Nat \ {0} /\ Len(looper') = Len(looper) - 1
      /\ Head(looper) = looper[1]
      /\ \A i \in 1..(Len(looper) - 1) : looper'[i] = looper[i + 1]
      /\ looper' # <<>> => Len(looper) > 1 /\ Last(looper') = Last(looper)
      /\ looper' = <<>> => Last(looper) = Head(looper)
  BY Taken DEF IInv, TypeOK
<1>2. OneTurn /\ (Running \/ Answered => work = <<>>)
      /\ \A i \in 1..Len(work) : work[i].kind # "close"
  BY DEF IInv, Queues
<1>3. \A i \in 1..(Len(looper') - 1) : ~Fin(looper[i])'
  BY <1>1, <1>2 DEF OneTurn, Fin
<1>4. (Queued' <=> Queued) /\ (Running' <=> Running)
  BY DEF Queued, Running
<1>5. CASE Fin(Head(looper))
  <2>1. looper' = <<>> /\ Answered
    BY <1>1, <1>2, <1>5 DEF OneTurn, Answered
  <2>2. ~Answered'
    BY <2>1 DEF Answered
  <2>. QED
    BY <1>2, <1>3, <1>4, <1>5, <2>1, <2>2 DEF Queues, OneTurn
<1>6. CASE ~Fin(Head(looper))
  <2>1. Answered' <=> Answered
    BY <1>1, <1>6 DEF Answered, Fin
  <2>. QED
    BY <1>2, <1>3, <1>4, <1>6, <2>1 DEF Queues, OneTurn
<1>. QED
  BY <1>5, <1>6
\* A message fits the type of the transcript.
LEMMA SendTyped ==
  ASSUME TypeOK, NEW p \in Prompts, SendTurn(p)
  PROVE  messages' \in Seq(ChatMsg)
<1>1. User(p) \in ChatMsg /\ Gemma(<<>>) \in ChatMsg
  <2>1. PromptTokens[p] \in Seq(Tokens) /\ <<>> \in Seq(Tokens)
    BY ChatAssumption, EmptySeq DEF Tokens
  <2>. QED
    BY <2>1 DEF User, Gemma, ChatMsg
<1>2. <<User(p), Gemma(<<>>)>> \in Seq(ChatMsg)
  BY <1>1
<1>3. messages \in Seq(ChatMsg)
  BY DEF TypeOK
<1>. QED
  BY <1>2, <1>3, ConcatProperties DEF SendTurn

\* So does whatever a post of the worker makes of it.
LEMMA LooperTyped ==
  ASSUME TypeOK, NEW m \in Posts,
         LoadReturns(m) \/ ResetReturns(m) \/ OutReturns(m) \/ Painted(m)
  PROVE  /\ messages' \in Seq(ChatMsg)
         /\ busy' \in BOOLEAN /\ loaded' \in BOOLEAN /\ ctxUsed' \in 0..MaxSeq
<1>1. messages \in Seq(ChatMsg)
  BY DEF TypeOK
<1>2. \A w \in Seq(Words) : Gemma(w) \in ChatMsg
  BY DEF Gemma, Tokens, ChatMsg
<1>3. \A x \in {"out", "cleared"} : Notice(x) \in ChatMsg
  BY EmptySeq DEF Notice, ChatMsg
<1>4. \A r \in ChatMsg : Append(messages, r) \in Seq(ChatMsg)
  BY <1>1, AppendProperties
<1>5. \A r \in ChatMsg : ReplaceLast(r) => messages' \in Seq(ChatMsg)
  <2> SUFFICES ASSUME NEW r \in ChatMsg, ReplaceLast(r) PROVE messages' \in Seq(ChatMsg)
    OBVIOUS
  <2>1. CASE messages = <<>>
    <3>1. <<>> \in Seq(ChatMsg)
      BY EmptySeq
    <3>2. messages' = Append(<<>>, r) /\ r \in ChatMsg
      BY <2>1 DEF ReplaceLast
    <3>. QED
      BY <3>1, <3>2, AppendProperties
  <2>2. CASE messages # <<>>
    <3>1. Front(messages) \in Seq(ChatMsg)
      <4>1. Len(messages) \in Nat
        BY <1>1, LenProperties
      <4>2. \A i \in 1..(Len(messages) - 1) : messages[i] \in ChatMsg
        BY <1>1, <4>1, ElementOfSeq
      <4>. QED
        BY <4>1, <4>2, SubSeqProperties DEF Front
    <3>. QED
      BY <2>2, <3>1, AppendProperties DEF ReplaceLast
  <2>. QED
    BY <2>1, <2>2
<1>6. MaxSeq \in Nat
  BY ChatAssumption
<1>7. CASE LoadReturns(m)
  BY <1>7, <1>1 DEF LoadReturns, TypeOK
<1>8. CASE ResetReturns(m)
  <2>1. <<>> \in Seq(ChatMsg) /\ 0 \in 0..MaxSeq
    BY <1>6, EmptySeq
  <2>2. Append(messages, Notice("cleared")) \in Seq(ChatMsg)
    BY <1>3, <1>4
  <2>. QED
    BY <1>8, <2>1, <2>2 DEF ResetReturns, TypeOK
<1>9. CASE OutReturns(m)
  BY <1>9, <1>3, <1>5, Kinds DEF OutReturns, TypeOK
<1>10. CASE Painted(m)
  BY <1>10, <1>2, <1>5, Kinds DEF Painted, TypeOK
<1>. QED
  BY <1>7, <1>8, <1>9, <1>10

\* A turn ends with a final post, whatever ended it.
LEMMA TurnOver ==
  ASSUME IInv, Running, NEW m \in Posts, Fin(m), Post(m), turn' = Idle,
         log' \in Seq(Tokens), Len(log') \in 0..MaxSeq, done' \in BOOLEAN, current' \in BOOLEAN,
         UNCHANGED <<native, ui, stopRequested, cleared, work, asked, raced>>
  PROVE  IInv'
<1> USE DEF ui
<1>1. looper' \in Seq(Posts)
  BY Appended DEF Post, IInv, TypeOK
<1>2. Len(log') <= MaxSeq
  BY ChatAssumption
<1>3. TypeOK'
  BY <1>1, <1>2 DEF IInv, TypeOK, Turns
<1>4. turn'.at = "idle" /\ turn'.words = <<>> /\ ~Running'
  BY DEF Idle, Running
<1>5. Sessions'
  BY <1>4 DEF IInv, Sessions, Post
<1>6. Queues'
  <2>1. CASE cleared
    BY <2>1 DEF Queues
  <2>2. CASE ~cleared
    BY <1>4, <2>2, TurnPosts DEF Post
  <2>. QED
    BY <2>1, <2>2
<1>7. Stops'
  BY <1>4 DEF Stops
<1>. QED
  BY <1>3, <1>5, <1>6, <1>7 DEF IInv

-----------------------------------------------------------------------------
(* The invariant.                                                           *)

LEMMA InitIInv == Init => IInv
<1> SUFFICES ASSUME Init PROVE IInv
  OBVIOUS
<1>1. TypeOK
  <2>1. /\ <<>> \in Seq(Tokens) /\ <<>> \in Seq(Tasks) /\ <<>> \in Seq(Posts)
        /\ <<>> \in Seq(ChatMsg)
        /\ Len(<<>>) = 0
    BY EmptySeq
  <2>2. MaxSeq \in Nat /\ 0 \in 0..MaxSeq
    BY ChatAssumption
  <2>3. /\ native \in {"none", "open", "closed"} /\ current \in BOOLEAN /\ done \in BOOLEAN
        /\ busy \in BOOLEAN /\ loaded \in BOOLEAN /\ stopRequested \in BOOLEAN
        /\ cleared \in BOOLEAN /\ raced \in BOOLEAN /\ asked \in Nat \cup {-1}
        /\ turn \in Turns /\ ctxUsed \in 0..MaxSeq
    BY <2>2 DEF Init, Turns
  <2>4. /\ log \in Seq(Tokens) /\ Len(log) <= MaxSeq
        /\ work \in Seq(Tasks) /\ looper \in Seq(Posts)
    BY <2>1, <2>2 DEF Init
  <2>5. messages \in Seq(ChatMsg)
    BY <2>1 DEF Init
  <2>. QED
    BY <2>3, <2>4, <2>5 DEF TypeOK
<1>2. Len(<<>>) = 0
  BY EmptySeq
<1>. QED
  BY <1>1, <1>2 DEF Init, IInv, Sessions, Queues, Stops, OneTurn, Queued, Running,
                    Answered, Idle

\* Facts of every step about the records in the queues.
LEMMA Queueing ==
  ASSUME TypeOK
  PROVE  /\ \A t \in Tasks : /\ Append(work, t) \in Seq(Tasks)
                             /\ Len(work) \in Nat /\ Len(Append(work, t)) = Len(work) + 1
                             /\ \A i \in 1..Len(work) : Append(work, t)[i] = work[i]
                             /\ Append(work, t)[Len(work) + 1] = t
         /\ \A m \in Posts : Append(looper, m) \in Seq(Posts)
         /\ work # <<>> => Tail(work) \in Seq(Tasks)
         /\ looper # <<>> => Tail(looper) \in Seq(Posts) /\ Head(looper) \in Posts
BY Appended, Taken DEF TypeOK

\* Taking a task leaves tasks that were there.
LEMMA TakesOld ==
  ASSUME TypeOK, NEW k, Takes(k)
  PROVE  /\ turn.at = "idle" /\ work # <<>> /\ work' \in Seq(Tasks)
         /\ work[1].kind = k /\ Head(work) = work[1] /\ work[1] \in Tasks
         /\ Len(work) \in Nat \ {0} /\ Len(work') = Len(work) - 1
         /\ \A i \in 1..Len(work') : work'[i] = work[i + 1]
<1>1. work # <<>> /\ work' = Tail(work) /\ Head(work).kind = k /\ turn.at = "idle"
  BY DEF Takes
<1>. QED
  BY <1>1, Taken DEF TypeOK

LEMMA StepIInv == IInv /\ [Next]_vars => IInv'
<1> SUFFICES ASSUME IInv, [Next]_vars PROVE IInv'
  OBVIOUS
<1> USE DEF ui, device
<1>t. TypeOK /\ Sessions /\ Queues /\ Stops
  BY DEF IInv
<1>q. MaxSeq \in Nat \ {0} /\ Len(log) \in 0..MaxSeq /\ log \in Seq(Tokens)
  BY <1>t, ChatAssumption, LenProperties DEF TypeOK
<1>f. ~busy /\ ~cleared => ~Running
  BY <1>t DEF Queues, OneTurn
<1>c. cleared => work \in {<<>>, <<Task("close")>>} /\ looper = <<>>
  BY <1>t DEF Sessions

<1>1. CASE Load
  <2>1. /\ ~cleared /\ ~busy /\ work' = Append(work, Task("load")) /\ Task("load") \in Tasks
        /\ Task("load").kind = "load"
        /\ UNCHANGED <<native, device, loaded, ctxUsed, stopRequested, cleared, looper, turn>>
    BY <1>1, MakesTasks DEF Load
  <2>2. TypeOK'
    BY <1>1, <1>t, <2>1, Queueing DEF Load, TypeOK, vars
  <2>3. Sessions'
    BY <1>1, <1>t, <2>1, Queueing DEF Sessions, Running, Load
  <2>4. Queues'
    BY <1>1, <2>1, TapQueues DEF Load
  <2>5. Stops'
    BY <1>1, <1>t, <1>f, <2>1 DEF Stops, Running, Load
  <2>. QED
    BY <2>2, <2>3, <2>4, <2>5 DEF IInv
<1>2. ASSUME NEW p \in Prompts, SendFull(p) PROVE IInv'
  <2>1. /\ ~cleared /\ ~busy /\ work' = Append(work, Task("full")) /\ Task("full") \in Tasks
        /\ Task("full").kind = "full"
        /\ UNCHANGED <<native, device, loaded, ctxUsed, stopRequested, cleared, looper, turn>>
    BY <1>2, MakesTasks DEF SendFull, Sendable
  <2>2. TypeOK'
    BY <1>2, <1>t, <2>1, Queueing DEF SendFull, TypeOK, vars
  <2>3. Sessions'
    BY <1>2, <1>t, <2>1, Queueing DEF Sessions, Running, SendFull, Sendable
  <2>4. Queues'
    BY <1>2, <2>1, TapQueues DEF SendFull
  <2>5. Stops'
    BY <1>2, <1>t, <1>f, <2>1 DEF Stops, Running, SendFull
  <2>. QED
    BY <2>2, <2>3, <2>4, <2>5 DEF IInv
<1>3. ASSUME NEW p \in Prompts, SendTurn(p) PROVE IInv'
  <2>1. /\ ~cleared /\ ~busy /\ work' = Append(work, [kind |-> "turn", prompt |-> p])
        /\ [kind |-> "turn", prompt |-> p] \in Tasks
        /\ [kind |-> "turn", prompt |-> p].kind = "turn"
        /\ UNCHANGED <<native, device, loaded, ctxUsed, stopRequested, cleared, looper, turn>>
    BY <1>3, MakesTasks DEF SendTurn, Sendable
  <2>2. TypeOK'
    BY <1>3, <1>t, <2>1, Queueing, SendTyped DEF SendTurn, TypeOK, vars
  <2>3. Sessions'
    BY <1>3, <1>t, <2>1, Queueing DEF Sessions, Running, SendTurn, Sendable
  <2>4. Queues'
    BY <1>3, <2>1, TapQueues DEF SendTurn
  <2>5. Stops'
    BY <1>3, <1>t, <1>f, <2>1 DEF Stops, Running, SendTurn
  <2>. QED
    BY <2>2, <2>3, <2>4, <2>5 DEF IInv
<1>4. CASE NewChat
  <2>1. /\ ~cleared /\ ~busy /\ work' = Append(work, Task("new")) /\ Task("new") \in Tasks
        /\ Task("new").kind = "new"
        /\ UNCHANGED <<native, device, loaded, ctxUsed, stopRequested, cleared, looper, turn>>
    BY <1>4, MakesTasks DEF NewChat
  <2>2. TypeOK'
    BY <1>4, <1>t, <2>1, Queueing DEF NewChat, TypeOK, vars
  <2>3. Sessions'
    BY <1>4, <1>t, <2>1, Queueing DEF Sessions, Running, NewChat
  <2>4. Queues'
    BY <1>4, <2>1, TapQueues DEF NewChat
  <2>5. Stops'
    BY <1>4, <1>t, <1>f, <2>1 DEF Stops, Running, NewChat
  <2>. QED
    BY <2>2, <2>3, <2>4, <2>5 DEF IInv
<1>5. CASE Stop
  <2>1. Len(turn.words) \in Nat
    BY <1>t, TurnParts, LenProperties
  <2>2. TypeOK'
    BY <1>5, <1>t, <2>1 DEF Stop, TypeOK
  <2>3. Sessions'
    BY <1>5, <1>t DEF Stop, Sessions, Running
  <2>4. Queues'
    BY <1>5, <1>t DEF Stop, Queues, OneTurn, Queued, Running, Answered, Fin
  <2>5. Stops'
    BY <1>5, <1>t, <2>1 DEF Stop, Stops
  <2>. QED
    BY <2>2, <2>3, <2>4, <2>5 DEF IInv
<1>6. CASE OnCleared
  <2>1. work' = <<Task("close")>> /\ work' \in Seq(Tasks) /\ looper' = <<>> /\ looper' \in Seq(Posts)
    BY <1>6, MakesTasks, EmptySeq DEF OnCleared
  <2>2. TypeOK'
    BY <1>6, <1>t, <2>1 DEF OnCleared, TypeOK
  <2>3. Sessions'
    BY <1>6, <1>t, <2>1 DEF OnCleared, Sessions, Running
  <2>4. Queues' /\ Stops'
    BY <1>6, <1>t DEF OnCleared, Queues, Stops
  <2>. QED
    BY <2>2, <2>3, <2>4 DEF IInv
<1>7. CASE Looper
  <2> DEFINE m == Head(looper)
  <2>1. /\ ~cleared /\ looper # <<>> /\ looper' = Tail(looper) /\ m \in Posts
        /\ Tail(looper) \in Seq(Posts)
        /\ UNCHANGED <<native, device, stopRequested, cleared, work, turn, asked, raced>>
    BY <1>7, <1>t, Queueing DEF Looper
  <2>2. LoadReturns(m) \/ ResetReturns(m) \/ OutReturns(m) \/ Painted(m)
    BY <1>7 DEF Looper
  <2>3. TypeOK'
    BY <1>t, <1>q, <2>1, <2>2, LooperTyped DEF TypeOK
  <2>4. Sessions'
    BY <1>t, <2>1 DEF Sessions, Running
  <2>5. busy' <=> busy /\ ~Fin(m)
    BY <2>1, <2>2, Kinds, <1>t DEF LoadReturns, ResetReturns, OutReturns, Painted, Fin, TypeOK
  <2>6. Queues'
    BY <2>1, <2>5, LooperTakes
  <2>7. Stops'
    BY <1>t, <2>1 DEF Stops
  <2>. QED
    BY <2>3, <2>4, <2>6, <2>7 DEF IInv
<1>8. CASE RunLoad
  <2>1. Takes("load") /\ ~cleared
    <3>1. Takes("load")
      BY <1>8 DEF RunLoad
    <3>2. \A t \in {<<Task("close")>>} : Head(t).kind = "close"
      BY DEF Task
    <3>. QED
      BY <1>c, <3>1, <3>2 DEF Takes
  <2>2. /\ work' = <<>> /\ Queued /\ ~Running /\ ~Answered /\ busy /\ OneTurn
    BY <2>1, TakesLast
  <2>3. PICK k \in {"loaded", "failed"} : looper' = Append(looper, Task(k))
    BY <1>8, <2>1 DEF RunLoad, Post
  <2>4. Task(k) \in Posts /\ Task(k).kind = k
    BY MakesPosts
  <2>5. /\ looper' # <<>> /\ Len(looper) \in Nat /\ Len(looper') = Len(looper) + 1
        /\ looper' \in Seq(Posts)
        /\ \A i \in 1..Len(looper) : looper'[i] = looper[i]
        /\ Last(looper') = Task(k)
    BY <1>t, <2>3, <2>4, Appended DEF TypeOK
  <2>6. UNCHANGED <<device, ui, stopRequested, cleared, turn, asked, raced>>
        /\ native' \in {"open", native}
    BY <1>8 DEF RunLoad
  <2>7. TypeOK'
    BY <1>t, <2>2, <2>5, <2>6, EmptySeq DEF TypeOK
  <2>8. Sessions'
    <3>1. Len(work') = 0
      BY <2>2, EmptySeq
    <3>. QED
      BY <1>t, <2>1, <2>2, <2>6, <3>1 DEF Sessions, Running
  <2>9. Queues'
    <3>1. Len(work') = 0 /\ ~Queued' /\ ~Running'
      BY <2>2, <2>6, EmptySeq DEF Queued, Running
    <3>2. Answered'
      BY <2>4, <2>5 DEF Answered, Fin
    <3>3. \A i \in 1..Len(looper) : ~Fin(looper[i])
      BY <2>2, <2>5 DEF OneTurn, Answered, Last
    <3>4. \A i \in 1..(Len(looper') - 1) : ~Fin(looper[i])'
      BY <2>5, <3>3 DEF Fin
    <3>. QED
      BY <2>2, <2>6, <3>1, <3>2, <3>4 DEF Queues, OneTurn
  <2>10. Stops'
    BY <1>t, <2>6 DEF Stops
  <2>. QED
    BY <2>7, <2>8, <2>9, <2>10 DEF IInv
<1>9. ASSUME NEW k \in {"new", "full"}, RunReset(k) PROVE IInv'
  <2>1. /\ Takes(k) /\ Post(Task(k))
        /\ UNCHANGED <<native, ui, stopRequested, cleared, turn, asked, raced>>
        /\ (log' = <<>> /\ done' = FALSE /\ current' = FALSE) \/ UNCHANGED <<device>>
    BY <1>9 DEF RunReset
  <2>2. Task(k) \in Posts
    BY MakesPosts
  <2>3. looper' \in Seq(Posts)
    <3>1. Append(looper, Task(k)) \in Seq(Posts) /\ looper \in Seq(Posts)
      BY <1>t, <2>2, Appended DEF TypeOK
    <3>. QED
      BY <2>1, <3>1 DEF Post
  <2>4. log' \in Seq(Tokens) /\ Len(log') <= MaxSeq
    <3>1. <<>> \in Seq(Tokens) /\ Len(<<>>) = 0
      BY EmptySeq
    <3>2. CASE log' = <<>>
      BY <1>q, <3>1, <3>2
    <3>3. CASE log' = log
      BY <1>q, <3>3
    <3>. QED
      BY <2>1, <3>2, <3>3
  <2>5. TypeOK'
    BY <1>t, <2>1, <2>3, <2>4, TakesOld DEF TypeOK
  <2>6. Sessions'
    <3>1. cleared => FALSE
      <4>1. \A t \in {<<Task("close")>>} : Head(t).kind = "close"
        BY DEF Task
      <4>. QED
        BY <1>c, <2>1, <4>1 DEF Takes
    <3>2. \A i \in 1..Len(work') : i + 1 \in 1..Len(work) /\ work'[i] = work[i + 1]
      BY <1>t, <2>1, TakesOld
    <3>. QED
      BY <1>t, <2>1, <3>1, <3>2 DEF Sessions, Running
  <2>7. Queues'
    BY <2>1, ResetPosts
  <2>8. Stops'
    BY <1>t, <2>1 DEF Stops
  <2>. QED
    BY <2>5, <2>6, <2>7, <2>8 DEF IInv
<1>10. CASE BeginTurn
  <2>1. Takes("turn") /\ ~cleared
    <3>1. Takes("turn")
      BY <1>10 DEF BeginTurn
    <3>2. \A t \in {<<Task("close")>>} : Head(t).kind = "close"
      BY DEF Task
    <3>. QED
      BY <1>c, <3>1, <3>2 DEF Takes
  <2>2. /\ work' = <<>> /\ Queued /\ ~Running /\ ~Answered /\ busy /\ OneTurn
        /\ Len(work) = 1 /\ work[1] \in Tasks /\ work[1].kind = "turn" /\ Head(work) = work[1]
    BY <2>1, TakesLast
  <2>3. /\ turn' = [at |-> "prefill", words |-> <<>>, prompt |-> work[1].prompt]
        /\ UNCHANGED <<native, device, ui, stopRequested, cleared, looper, asked, raced>>
    BY <1>10, <2>2 DEF BeginTurn
  <2>4. turn' \in Busy /\ turn'.at = "prefill" /\ turn'.words = <<>>
    BY <2>2, <2>3, Kinds, EmptySeq DEF Busy
  <2>5. TypeOK'
    BY <1>t, <2>2, <2>3, <2>4, EmptySeq DEF TypeOK, Turns, Busy
  <2>6. native = "open" /\ Len(work') = 0
    BY <1>t, <2>1, <2>2, EmptySeq DEF Sessions
  <2>7. Sessions'
    BY <1>t, <2>1, <2>3, <2>6 DEF Sessions
  <2>8. Queues'
    BY <2>2, <2>3, <2>4, <2>6 DEF Queues, OneTurn, Queued, Running, Answered, Fin
  <2>9. Stops'
    BY <2>4 DEF Stops
  <2>. QED
    BY <2>5, <2>7, <2>8, <2>9 DEF IInv
<1>11. CASE Prefilled
  <2>1. /\ turn.at = "prefill" /\ Running /\ turn \in Busy /\ turn.prompt \in Prompts
    BY <1>11, <1>t, TurnParts DEF Prefilled, Running, Busy
  <2>2. log' \in Seq(Tokens) /\ Len(log') <= MaxSeq
    BY <1>11, <1>q, <2>1, IdsTyped, ConcatProperties DEF Prefilled
  <2>3. turn' \in Busy /\ turn'.at = "check" /\ turn'.words = turn.words
    BY <1>11, <2>1 DEF Prefilled, Busy
  <2>4. TypeOK'
    BY <1>11, <1>t, <2>2, <2>3 DEF Prefilled, TypeOK, Turns, Busy
  <2>5. Running'
    BY <2>3 DEF Running
  <2>6. Sessions'
    BY <1>11, <1>t, <2>1 DEF Prefilled, Sessions
  <2>7. Queues'
    BY <1>11, <2>1, <2>5, TurnGoesOn DEF Prefilled
  <2>8. Stops'
    BY <1>11, <2>3 DEF Prefilled, Stops
  <2>. QED
    BY <2>4, <2>6, <2>7, <2>8 DEF IInv
<1>12. CASE PrefillFails
  <2>1. turn.at = "prefill" /\ Running /\ turn.prompt \in Prompts
    BY <1>12, <1>t, TurnParts DEF PrefillFails, Running, Busy
  <2>2. PICK k \in Fed(Ids(turn.prompt)) : log' = log \o SubSeq(Ids(turn.prompt), 1, k)
    BY <1>12 DEF PrefillFails
  <2>3. log' \in Seq(Tokens) /\ Len(log') \in 0..MaxSeq
    BY <1>t, <2>1, <2>2, FedTyped
  <2> DEFINE m == [kind |-> "out", used |-> Len(log')]
  <2>4. m \in Posts /\ Fin(m)
    BY <2>3, MakesPosts DEF Fin
  <2>5. /\ Post(m) /\ turn' = Idle /\ current' \in BOOLEAN /\ done' \in BOOLEAN
        /\ UNCHANGED <<native, ui, stopRequested, cleared, work, asked, raced>>
    BY <1>12, <1>t DEF PrefillFails, TypeOK
  <2>. QED
    BY <2>1, <2>3, <2>4, <2>5, TurnOver
<1>13. CASE Check
  <2>1. CASE stopRequested
    <3>1. /\ Running /\ EndTurn(turn.words, Len(log))
          /\ UNCHANGED <<native, device, ui, stopRequested, cleared, work, asked, raced>>
      BY <1>13, <2>1 DEF Check, Running
    <3>2. Paint(turn.words, Len(log), TRUE) \in Posts /\ Fin(Paint(turn.words, Len(log), TRUE))
      BY <1>t, <1>q, MakesPosts, TurnParts DEF Fin
    <3>3. log' \in Seq(Tokens) /\ Len(log') \in 0..MaxSeq /\ done' \in BOOLEAN /\ current' \in BOOLEAN
      BY <1>t, <1>q, <3>1 DEF TypeOK
    <3>. QED
      BY <3>1, <3>2, <3>3, TurnOver DEF EndTurn
  <2>2. CASE ~stopRequested
    <3>1. /\ turn.at = "check" /\ Running /\ turn \in Busy
      BY <1>13, <1>t, TurnParts DEF Check, Running
    <3>2. turn' \in Busy /\ turn'.at = "step" /\ turn'.words = turn.words
      BY <1>13, <2>2, <3>1 DEF Check, Busy
    <3>3. UNCHANGED <<native, device, ui, stopRequested, cleared, work, looper, asked, raced>>
      BY <1>13, <2>2 DEF Check
    <3>4. TypeOK'
      BY <1>t, <3>2, <3>3 DEF TypeOK, Turns, Busy
    <3>5. Running'
      BY <3>2 DEF Running
    <3>6. Sessions'
      BY <1>t, <3>1, <3>3 DEF Sessions
    <3>7. Queues'
      BY <3>1, <3>3, <3>5, TurnGoesOn
    <3>8. Stops'
      BY <2>2, <3>2, <3>3 DEF Stops
    <3>. QED
      BY <3>4, <3>6, <3>7, <3>8 DEF IInv
  <2>. QED
    BY <2>1, <2>2
<1>14. CASE StepNull
  <2>1. /\ Running /\ EndTurn(turn.words, Len(log))
        /\ UNCHANGED <<native, ui, stopRequested, cleared, work, asked, raced>>
        /\ done' \in BOOLEAN /\ current' \in BOOLEAN
    BY <1>14, <1>t DEF StepNull, Running, TypeOK
  <2>2. log' \in Seq(Tokens) /\ Len(log') \in 0..MaxSeq /\ Len(log) \in 0..MaxSeq
    BY <1>14, <1>q DEF StepNull
  <2> DEFINE m == Paint(turn.words, Len(log), TRUE)
  <2>3. m \in Posts /\ Fin(m)
    BY <1>t, <2>2, MakesPosts, TurnParts DEF Fin
  <2>4. Post(m) /\ turn' = Idle
    BY <2>1 DEF EndTurn
  <2>. QED
    BY <2>1, <2>2, <2>3, <2>4, TurnOver
<1>15. CASE StepFails
  <2>1. /\ Running /\ EndTurn(turn.words, Len(log))
        /\ UNCHANGED <<native, ui, stopRequested, cleared, work, asked, raced>>
        /\ done' \in BOOLEAN /\ current' \in BOOLEAN
    BY <1>15, <1>t DEF StepFails, Running, TypeOK
  <2>2. log' \in Seq(Tokens) /\ Len(log') \in 0..MaxSeq /\ Len(log) \in 0..MaxSeq
    BY <1>15, <1>q DEF StepFails
  <2> DEFINE m == Paint(turn.words, Len(log), TRUE)
  <2>3. m \in Posts /\ Fin(m)
    BY <1>t, <2>2, MakesPosts, TurnParts DEF Fin
  <2>4. Post(m) /\ turn' = Idle
    BY <2>1 DEF EndTurn
  <2>. QED
    BY <2>1, <2>2, <2>3, <2>4, TurnOver
<1>16. ASSUME NEW t \in Ends, StepEnds(t) PROVE IInv'
  <2>1. /\ Running /\ EndTurn(turn.words, Len(log'))
        /\ UNCHANGED <<native, ui, stopRequested, cleared, work, asked, raced>>
        /\ done' \in BOOLEAN /\ current' \in BOOLEAN
    BY <1>16, <1>t DEF StepEnds, Running, TypeOK
  <2>2. log' \in Seq(Tokens) /\ Len(log') \in 0..MaxSeq /\ Len(log') \in 0..MaxSeq
    <3>1. t \in Tokens /\ log' = Append(log, t) /\ Len(log) < MaxSeq
      BY <1>16 DEF StepEnds, Tokens
    <3>. QED
      BY <1>q, <3>1, Appended
  <2> DEFINE m == Paint(turn.words, Len(log'), TRUE)
  <2>3. m \in Posts /\ Fin(m)
    BY <1>t, <2>2, MakesPosts, TurnParts DEF Fin
  <2>4. Post(m) /\ turn' = Idle
    BY <2>1 DEF EndTurn
  <2>. QED
    BY <2>1, <2>2, <2>3, <2>4, TurnOver
<1>17. ASSUME NEW t \in Words, StepWord(t) PROVE IInv'
  <2>1. /\ turn.at = "step" /\ Running /\ turn \in Busy /\ log' = Append(log, t)
        /\ t \in Tokens /\ Len(log) < MaxSeq /\ done' \in BOOLEAN /\ current' \in BOOLEAN
        /\ turn' = [turn EXCEPT !.at = "check", !.words = Append(@, t)]
        /\ UNCHANGED <<native, ui, stopRequested, cleared, work, asked, raced>>
    BY <1>17, <1>t, TurnParts DEF StepWord, Running, Tokens
  <2>2. log' \in Seq(Tokens) /\ Len(log') \in 0..MaxSeq
    BY <1>q, <2>1, Appended
  <2>3. turn.words \in Seq(Words) /\ Append(turn.words, t) \in Seq(Words)
        /\ Len(Append(turn.words, t)) = Len(turn.words) + 1 /\ Len(turn.words) \in Nat
    BY <1>t, TurnParts, Appended
  <2>4. turn' \in Busy /\ turn'.at = "check" /\ turn'.words = Append(turn.words, t)
    BY <2>1, <2>3 DEF Busy
  <2>5. Running'
    BY <2>4 DEF Running
  <2> DEFINE m == Paint(turn'.words, Len(log'), FALSE)
  <2>6. m \in Posts /\ ~Fin(m)
    BY <2>2, <2>3, <2>4, MakesPosts DEF Fin
  <2>7. Post(m) \/ looper' = looper
    BY <1>17 DEF StepWord
  <2>8. looper' \in Seq(Posts)
    BY <1>t, <2>6, <2>7, Queueing DEF Post, TypeOK
  <2>9. TypeOK'
    BY <1>t, <2>1, <2>2, <2>4, <2>8 DEF TypeOK, Turns, Busy
  <2>10. Sessions'
    BY <1>t, <2>1, <2>5, <2>7 DEF Sessions, Post
  <2>11. Queues'
    <3>1. CASE looper' = looper
      BY <2>1, <2>5, <3>1, TurnGoesOn
    <3>2. CASE looper' = Append(looper, m) /\ ~cleared
      BY <2>1, <2>5, <2>6, <3>2, TurnPosts
    <3>. QED
      BY <2>7, <3>1, <3>2 DEF Post
  <2>12. Stops'
    BY <1>t, <2>1, <2>3, <2>4 DEF Stops, TypeOK
  <2>. QED
    BY <2>9, <2>10, <2>11, <2>12 DEF IInv
<1>18. CASE RunClose
  <2>1. /\ Takes("close") /\ native' \in {"closed", native}
        /\ UNCHANGED <<device, ui, stopRequested, cleared, looper, turn, asked, raced>>
    BY <1>18 DEF RunClose
  <2>2. /\ turn.at = "idle" /\ work' \in Seq(Tasks) /\ work[1].kind = "close" /\ Len(work) \in Nat \ {0}
        /\ work # <<>> /\ work' = Tail(work)
    BY <1>t, <2>1, TakesOld DEF Takes
  <2>3. cleared
    BY <1>t, <2>2 DEF Queues
  <2>4. TypeOK'
    BY <1>t, <2>1, <2>2 DEF TypeOK
  <2>5. Sessions'
    <3>1. Tail(<<Task("close")>>) = <<>>
      OBVIOUS
    <3>. QED
      BY <1>t, <1>c, <2>1, <2>2, <2>3, <3>1 DEF Sessions, Running
  <2>6. Queues' /\ Stops'
    BY <1>t, <2>1, <2>3 DEF Queues, Stops
  <2>. QED
    BY <2>4, <2>5, <2>6 DEF IInv
<1>19. CASE UNCHANGED vars
  BY <1>19, <1>t DEF vars, IInv, TypeOK, Sessions, Queues, Stops, OneTurn, Queued,
                    Running, Answered, Fin
<1>. QED
  BY <1>1, <1>2, <1>3, <1>4, <1>5, <1>6, <1>7, <1>8, <1>9, <1>10, <1>11, <1>12,
     <1>13, <1>14, <1>15, <1>16, <1>17, <1>18, <1>19 DEF Next, Tap, Worker, Gone

LEMMA Invariance == Spec => []IInv
<1>1. Init => IInv
  BY InitIInv
<1>2. IInv /\ [Next]_vars => IInv'
  BY StepIInv
<1>. QED
  BY <1>1, <1>2, PTL DEF Spec

\* The context counter, the position and every queue stay well-formed.
THEOREM TypeCorrect == Spec => []TypeOK
<1>1. IInv => TypeOK
  BY DEF IInv
<1>. QED
  BY <1>1, Invariance, PTL

\* No turn runs before create() or after destroy(), whenever onCleared() comes.
THEOREM SessionOutlivesTurns == Spec => []CallsOpenSession
<1>1. IInv => CallsOpenSession
  BY DEF IInv, Sessions, CallsOpenSession
<1>. QED
  BY <1>1, Invariance, PTL

\* busy is a mutual exclusion lock over the UI thread's and the worker's queues.
THEOREM OneTurnAtATime == Spec => []BusyIsOneTurn
<1>1. IInv => BusyIsOneTurn
  BY DEF IInv, Queues, BusyIsOneTurn
<1>. QED
  BY <1>1, Invariance, PTL

\* The native calls the UI thread makes never overlap the worker's.
THEOREM UiReadsAlone == Spec => []ReadsAlone
<1>1. IInv => ReadsAlone
  <2> SUFFICES ASSUME IInv, ~cleared, looper # <<>>, Head(looper).kind \in {"loaded", "out"}
               PROVE  ~Running /\ work = <<>>
    BY DEF ReadsAlone
  <2>1. Len(looper) \in Nat \ {0} /\ Head(looper) = looper[1] /\ Fin(looper[1])
    BY Taken DEF IInv, TypeOK, Fin
  <2>2. OneTurn /\ (Running \/ Answered => work = <<>>)
    BY DEF IInv, Queues
  <2>3. Len(looper) = 1
    <3>1. \A n \in Nat \ {0} : n # 1 => 1 \in 1..(n - 1)
      OBVIOUS
    <3>. QED
      BY <2>1, <2>2, <3>1 DEF OneTurn
  <2>4. Answered
    BY <2>1, <2>3 DEF Answered, Last
  <2>. QED
    BY <2>2, <2>4 DEF OneTurn
<1>. QED
  BY <1>1, Invariance, PTL

\* A STOP of an earlier turn never cuts a reply.
THEOREM StopsAreFresh == Spec => []NoStaleStop
<1>1. IInv => NoStaleStop
  BY DEF IInv, Stops, NoStaleStop
<1>. QED
  BY <1>1, Invariance, PTL

\* A STOP that reaches the loop ends the reply after at most one more piece.
THEOREM StopsSoon == Spec => []StopSoon
<1>1. IInv => StopSoon
  <2> SUFFICES ASSUME IInv, stopRequested, Running PROVE Len(turn.words) <= asked + 1
    BY DEF StopSoon
  <2>1. TypeOK /\ Stops
    BY DEF IInv
  <2>2. asked \in Nat \cup {-1} /\ Len(turn.words) \in Nat /\ Len(<<>>) = 0
        /\ turn.at \in {"prefill", "check", "step"}
    BY <2>1, TurnParts, LenProperties, EmptySeq DEF TypeOK, Running
  <2>3. CASE turn.at = "prefill"
    BY <2>1, <2>2, <2>3 DEF Stops
  <2>4. CASE turn.at \in {"check", "step"}
    BY <2>1, <2>2, <2>4 DEF Stops
  <2>. QED
    BY <2>2, <2>3, <2>4
<1>. QED
  BY <1>1, Invariance, PTL

-----------------------------------------------------------------------------
(* The client side of the session's contract.                               *)

Fresh == turn.at \in {"check", "step"} => current

Open == turn.at \in {"check", "step"}

LEMMA InitContext == Init => Fresh /\ Context!Init
<1> SUFFICES ASSUME Init PROVE Fresh /\ Context!Init
  OBVIOUS
<1>1. turn.at = "idle" /\ current = FALSE /\ log = <<>>
  BY DEF Init, Idle
<1>. QED
  BY <1>1 DEF Fresh, Context!Init

\* Steps that do not touch the session and do not change whether the token
\* loop runs are stutters; ending the loop closes the turn.
LEMMA StepContext ==
  IInv /\ Fresh /\ [Next]_vars =>
    /\ Fresh'
    /\ [Context!Next /\ current' \in BOOLEAN /\ Open' \in BOOLEAN]_<<log, current, Open>>
<1> SUFFICES ASSUME IInv, Fresh, [Next]_vars
             PROVE  /\ Fresh'
                    /\ [Context!Next /\ current' \in BOOLEAN /\ Open' \in BOOLEAN]_<<log, current, Open>>
  OBVIOUS
<1> USE DEF ui, device
<1>t. TypeOK /\ log \in Seq(Tokens) /\ Len(log) \in Nat
  BY LenProperties DEF IInv, TypeOK
<1>b. current' \in BOOLEAN /\ Open' \in BOOLEAN
  <2>1. TypeOK'
    BY StepIInv DEF IInv
  <2>. QED
    BY <2>1 DEF TypeOK, Open
<1>s. ASSUME UNCHANGED <<log, current>>, Open' <=> Open
      PROVE  /\ Fresh'
             /\ [Context!Next /\ current' \in BOOLEAN /\ Open' \in BOOLEAN]_<<log, current, Open>>
  BY <1>s DEF Fresh, Open
<1>e. ASSUME log' = log, ~Open'
      PROVE  Fresh' /\ Context!Next
  BY <1>e DEF Fresh, Open, Context!Next, Context!Close
<1>1. CASE Tap
  BY <1>1, <1>s DEF Tap, Load, Stop, NewChat, OnCleared, SendFull, SendTurn, Open
<1>2. CASE Looper
  BY <1>2, <1>s DEF Looper, Open
<1>3. CASE RunLoad \/ RunClose
  BY <1>3, <1>s DEF RunLoad, RunClose, Open
<1>4. ASSUME NEW k \in {"new", "full"}, RunReset(k)
      PROVE  /\ Fresh'
             /\ [Context!Next /\ current' \in BOOLEAN /\ Open' \in BOOLEAN]_<<log, current, Open>>
  <2>1. ~Open /\ ~Open' /\ turn' = turn
    BY <1>4 DEF RunReset, Takes, Open
  <2>2. log' = <<>> \/ UNCHANGED <<log, current>>
    BY <1>4 DEF RunReset
  <2>3. CASE log' = <<>>
    BY <1>b, <2>1, <2>3 DEF Fresh, Open, Context!Next, Context!Clear
  <2>4. CASE UNCHANGED <<log, current>>
    BY <1>s, <2>1, <2>4
  <2>. QED
    BY <2>2, <2>3, <2>4
<1>5. CASE BeginTurn
  <2>1. ~Open /\ ~Open' /\ UNCHANGED <<log, current>>
    BY <1>5 DEF BeginTurn, Takes, Open
  <2>. QED
    BY <1>s, <2>1
<1>6. CASE Prefilled
  <2>1. turn.prompt \in Prompts /\ ~Open /\ current'
    BY <1>6, <1>t, TurnParts DEF Prefilled, Open, Busy
  <2>2. Len(log') >= Len(log) /\ \A i \in 1..Len(log) : log'[i] = log[i]
    BY <1>6, <1>t, <2>1, IdsTyped, ConcatProperties DEF Prefilled
  <2>. QED
    BY <1>b, <2>1, <2>2 DEF Fresh, Open, Context!Next, Context!Feed
<1>7. CASE PrefillFails
  <2>1. turn.prompt \in Prompts /\ ~Open
    BY <1>7, <1>t, TurnParts DEF PrefillFails, Open, Busy
  <2>2. PICK k \in Fed(Ids(turn.prompt)) : log' = log \o SubSeq(Ids(turn.prompt), 1, k)
    BY <1>7 DEF PrefillFails
  <2>3. ~Open'
    BY <1>7 DEF PrefillFails, Idle, Open
  <2>4. SubSeq(Ids(turn.prompt), 1, k) \in Seq(Tokens)
    <3>1. Ids(turn.prompt) \in Seq(Tokens) /\ Len(Ids(turn.prompt)) \in Nat
      BY <2>1, IdsTyped
    <3>2. k \in 0..(Len(Ids(turn.prompt)) - 1)
      BY DEF Fed
    <3>3. \A i \in 1..k : Ids(turn.prompt)[i] \in Tokens
      BY <3>1, <3>2, ElementOfSeq
    <3>. QED
      BY <3>1, <3>2, <3>3, SubSeqProperties
  <2>5. Len(log') >= Len(log) /\ \A i \in 1..Len(log) : log'[i] = log[i]
    BY <1>t, <2>2, <2>4, ConcatProperties, LenProperties
  <2>. QED
    BY <1>b, <2>1, <2>3, <2>5 DEF Fresh, Open, Context!Next, Context!Feed
<1>8. CASE Check
  <2>1. Open /\ UNCHANGED <<log, current>>
    BY <1>8 DEF Check, Open
  <2>2. CASE stopRequested
    BY <1>8, <1>b, <1>e, <2>1, <2>2 DEF Check, EndTurn, Idle, Open
  <2>3. CASE ~stopRequested
    <3>1. turn \in Busy
      BY <1>8, <1>t, TurnParts DEF Check
    <3>2. turn'.at = "step"
      BY <1>8, <2>3, <3>1 DEF Check, Busy
    <3>. QED
      BY <1>s, <2>1, <3>2 DEF Open
  <2>. QED
    BY <2>2, <2>3
<1>9. CASE StepNull \/ StepFails
  <2>1. log' = log /\ turn' = Idle
    BY <1>9 DEF StepNull, StepFails, EndTurn
  <2>2. ~Open'
    BY <2>1 DEF Idle, Open
  <2>. QED
    BY <1>b, <1>e, <2>1, <2>2
<1>10. ASSUME NEW t \in Ends \cup Words, StepEnds(t) \/ StepWord(t)
       PROVE  Fresh' /\ Context!Next
  <2>1. Open /\ current' /\ log' = Append(log, t) /\ t \in Tokens
    BY <1>10 DEF StepEnds, StepWord, Open, Tokens
  <2>. QED
    BY <2>1 DEF Fresh, Open, Context!Next, Context!Sample
<1>11. CASE UNCHANGED vars
  BY <1>11, <1>s DEF vars, Open
<1>. QED
  BY <1>b, <1>1, <1>2, <1>3, <1>4, <1>5, <1>6, <1>7, <1>8, <1>9, <1>10, <1>11
     DEF Next, Worker, Gone

\* The worker and the UI thread together are a client the session's contract
\* allows: no sample after a failed prefill, a STOP, a reset or an end token.
THEOREM ClientKeepsContract == Spec => KeepsContract
<1>1. Init => Fresh /\ Context!Init
  BY InitContext
<1>2. IInv /\ Fresh /\ [Next]_vars =>
        /\ Fresh'
        /\ [Context!Next /\ current' \in BOOLEAN /\ Open' \in BOOLEAN]_<<log, current, Open>>
  BY StepContext
<1>. QED
  BY <1>1, <1>2, Invariance, PTL DEF Spec, KeepsContract, Context!Spec, Open

-----------------------------------------------------------------------------
(* One beginning, and the counter.                                          *)


\* The token loop runs on a conversation that has begun.
Begun == turn.at \in {"check", "step"} => log # <<>>

\* What the counter becomes when the looper runs m, after a load too, whose
\* counter is zero.
Shown(m) == IF m.kind \in {"out", "paint"} THEN m.used ELSE 0

\* Until a load has come back there are only loads, and no conversation.
Loading ==
  ~cleared =>
    /\ \A i \in 1..Len(looper) : looper[i].kind \in {"loaded", "failed"} <=> ~loaded
    /\ \A i \in 1..Len(work) : work[i].kind = "load" <=> ~loaded
    /\ ~loaded => ctxUsed = 0 /\ log = <<>> /\ ~Running

\* Between turns the last post brings the counter to the position.
Counted ==
  ~cleared /\ ~Running /\ work = <<>> =>
    IF looper = <<>> THEN ctxUsed = Len(log) ELSE Shown(Last(looper)) = Len(log)

\* The last task of a cleared view model destroys the session.
Ended == cleared => work = <<Task("close")>> \/ native # "open"

\* A load that succeeded left a session.
Opened ==
  ~cleared /\ (loaded \/ \E i \in 1..Len(looper) : looper[i].kind = "loaded") => native = "open"

CInv == Loading /\ Opened /\ Counted /\ Ended

-----------------------------------------------------------------------------
(* BOS.                                                                     *)

\* One more token, or the beginning of a prompt, keeps BOS where it is.
LEMMA Extended ==
  ASSUME TypeOK, OneBos, NEW s \in Seq(Tokens), log # <<>> \/ s = <<>> \/ s[1] = Bos,
         \A i \in 1..Len(s) : s[i] = Bos => i = 1 /\ log = <<>>
  PROVE  \A i \in DOMAIN (log \o s) : (log \o s)[i] = Bos <=> i = 1
<1>1. /\ log \in Seq(Tokens) /\ Len(log) \in Nat /\ Len(s) \in Nat
      /\ DOMAIN log = 1..Len(log) /\ DOMAIN s = 1..Len(s)
      /\ log \o s \in Seq(Tokens) /\ Len(log \o s) = Len(log) + Len(s)
      /\ DOMAIN (log \o s) = 1..(Len(log) + Len(s))
      /\ \A i \in 1..(Len(log) + Len(s)) :
           (log \o s)[i] = IF i <= Len(log) THEN log[i] ELSE s[i - Len(log)]
  BY ConcatProperties, LenProperties DEF TypeOK
<1>2. log = <<>> <=> Len(log) = 0
  BY <1>1, EmptySeq
<1>3. s = <<>> => Len(s) = 0
  BY <1>1, EmptySeq
<1> SUFFICES ASSUME NEW i \in 1..(Len(log) + Len(s))
             PROVE  (log \o s)[i] = Bos <=> i = 1
  BY <1>1
<1>4. CASE i <= Len(log)
  BY <1>1, <1>4 DEF OneBos
<1>5. CASE ~(i <= Len(log))
  <2>1. i - Len(log) \in 1..Len(s) /\ (log \o s)[i] = s[i - Len(log)] /\ Len(s) # 0
    BY <1>1, <1>5
  <2>2. CASE Len(log) = 0
    BY <1>2, <1>3, <2>1, <2>2
  <2>3. CASE Len(log) # 0
    BY <1>1, <1>2, <2>1, <2>3
  <2>. QED
    BY <2>2, <2>3
<1>. QED
  BY <1>4, <1>5

\* The ids of a prompt have BOS exactly at the start of an empty conversation.
LEMMA IdsBos ==
  ASSUME NEW p \in Prompts, NEW k \in 0..Len(Ids(p))
  PROVE  /\ SubSeq(Ids(p), 1, k) \in Seq(Tokens)
         /\ log # <<>> \/ SubSeq(Ids(p), 1, k) = <<>> \/ SubSeq(Ids(p), 1, k)[1] = Bos
         /\ \A i \in 1..Len(SubSeq(Ids(p), 1, k)) :
              SubSeq(Ids(p), 1, k)[i] = Bos => i = 1 /\ log = <<>>
         /\ SubSeq(Ids(p), 1, Len(Ids(p))) = Ids(p)
<1>1. PromptTokens[p] \in Seq(Tokens) /\ PromptTokens[p] \in Seq(Prompts)
      /\ Len(PromptTokens[p]) \in Nat
  BY ChatAssumption, LenProperties DEF Tokens
<1>2. \A t \in Tokens : <<t>> \in Seq(Tokens) /\ Len(<<t>>) = 1 /\ <<t>>[1] = t
  OBVIOUS
<1>3. Bos \in Tokens /\ Nl \in Tokens
  BY DEF Tokens
<1>4. Ids(p) \in Seq(Tokens) /\ Len(Ids(p)) = Len(PromptTokens[p]) + 1
      /\ Ids(p)[1] = (IF log = <<>> THEN Bos ELSE Nl)
      /\ \A i \in 2..Len(Ids(p)) : Ids(p)[i] = PromptTokens[p][i - 1]
  BY <1>1, <1>2, <1>3, ConcatProperties DEF Ids
<1>5. \A i \in 2..Len(Ids(p)) : Ids(p)[i] # Bos
  <2> SUFFICES ASSUME NEW i \in 2..Len(Ids(p)) PROVE Ids(p)[i] # Bos
    OBVIOUS
  <2>1. i - 1 \in 1..Len(PromptTokens[p])
    BY <1>1, <1>4
  <2>2. PromptTokens[p][i - 1] \in Prompts
    BY <1>1, <2>1, ElementOfSeq
  <2>. QED
    BY <1>4, <2>2, ChatAssumption
<1>6. k \in Nat /\ \A i \in 1..k : Ids(p)[i] \in Tokens
  BY <1>1, <1>4, ElementOfSeq
<1>7. /\ SubSeq(Ids(p), 1, k) \in Seq(Tokens) /\ Len(SubSeq(Ids(p), 1, k)) = k
      /\ \A i \in 1..k : SubSeq(Ids(p), 1, k)[i] = Ids(p)[i]
  BY <1>1, <1>4, <1>6, SubSeqProperties
<1>8. \A i \in 1..k : SubSeq(Ids(p), 1, k)[i] = Bos => i = 1 /\ log = <<>>
  <2> SUFFICES ASSUME NEW i \in 1..k, Ids(p)[i] = Bos PROVE i = 1 /\ log = <<>>
    BY <1>7
  <2>1. i = 1
    BY <1>1, <1>4, <1>5, <1>6
  <2>. QED
    BY <1>4, <2>1, ChatAssumption
<1>9. k = 0 => SubSeq(Ids(p), 1, k) = <<>>
  BY <1>7, EmptySeq
<1>10. k # 0 => SubSeq(Ids(p), 1, k)[1] = (IF log = <<>> THEN Bos ELSE Nl)
  BY <1>4, <1>6, <1>7
<1>11. SubSeq(Ids(p), 1, Len(Ids(p))) = Ids(p)
  BY <1>1, <1>4
<1>. QED
  BY <1>7, <1>8, <1>9, <1>10, <1>11

LEMMA StepBos == IInv /\ Begun /\ OneBos /\ [Next]_vars => Begun' /\ OneBos'
<1> SUFFICES ASSUME IInv, Begun, OneBos, [Next]_vars PROVE Begun' /\ OneBos'
  OBVIOUS
<1> USE DEF ui, device
<1>t. TypeOK /\ log \in Seq(Tokens) /\ Len(log) \in Nat
  BY LenProperties DEF IInv, TypeOK
<1>i. Idle.at = "idle" /\ Len(<<>>) = 0
  BY EmptySeq DEF Idle
<1>1. CASE log' = log /\ (turn'.at \in {"check", "step"} => turn.at \in {"check", "step"})
  BY <1>1 DEF Begun, OneBos
<1>2. ASSUME NEW k, RunReset(k) PROVE Begun' /\ OneBos'
  BY <1>2, <1>i DEF RunReset, Takes, Begun, OneBos
<1>3. CASE Prefilled
  <2>1. turn.prompt \in Prompts
    BY <1>3, <1>t, TurnParts DEF Prefilled, Busy
  <2> DEFINE s == Ids(turn.prompt)
  <2>2. s \in Seq(Tokens) /\ Len(s) \in Nat \ {0} /\ Len(s) \in 0..Len(s)
    BY <2>1, IdsTyped
  <2>3. /\ log # <<>> \/ s = <<>> \/ s[1] = Bos
        /\ \A i \in 1..Len(s) : s[i] = Bos => i = 1 /\ log = <<>>
    BY <2>1, <2>2, IdsBos
  <2>4. log' = log \o s
    BY <1>3 DEF Prefilled
  <2> HIDE DEF s
  <2>5. OneBos'
    BY <1>t, <2>2, <2>3, <2>4, Extended DEF OneBos
  <2>6. log' # <<>>
    BY <1>t, <1>i, <2>2, <2>4, ConcatProperties
  <2>. QED
    BY <2>5, <2>6 DEF Begun
<1>4. CASE PrefillFails
  <2>1. turn.prompt \in Prompts
    BY <1>4, <1>t, TurnParts DEF PrefillFails, Busy
  <2>2. PICK k \in Fed(Ids(turn.prompt)) : log' = log \o SubSeq(Ids(turn.prompt), 1, k)
    BY <1>4 DEF PrefillFails
  <2>3. k \in 0..Len(Ids(turn.prompt))
    BY <2>1, IdsTyped DEF Fed
  <2> DEFINE s == SubSeq(Ids(turn.prompt), 1, k)
  <2>4. /\ s \in Seq(Tokens)
        /\ log # <<>> \/ s = <<>> \/ s[1] = Bos
        /\ \A i \in 1..Len(s) : s[i] = Bos => i = 1 /\ log = <<>>
    BY <2>1, <2>3, IdsBos
  <2>5. log' = log \o s
    BY <2>2
  <2> HIDE DEF s
  <2>6. OneBos'
    BY <1>t, <2>4, <2>5, Extended DEF OneBos
  <2>7. turn'.at = "idle"
    BY <1>4, <1>i DEF PrefillFails
  <2>. QED
    BY <2>6, <2>7 DEF Begun
<1>5. ASSUME NEW t \in Ends \cup Words, log' = Append(log, t), turn.at = "step"
      PROVE  Begun' /\ OneBos'
  <2>1. t \in Tokens /\ t # Bos /\ log # <<>>
    BY <1>5, ChatAssumption DEF Tokens, Begun
  <2>2. /\ Len(log') = Len(log) + 1 /\ log' \in Seq(Tokens) /\ log' # <<>>
        /\ \A i \in 1..Len(log) : log'[i] = log[i]
        /\ log'[Len(log) + 1] = t
    BY <1>5, <1>t, <2>1, Appended
  <2>3. DOMAIN log = 1..Len(log) /\ DOMAIN log' = 1..(Len(log) + 1)
    BY <1>t, <2>2, LenProperties
  <2>4. Len(log) # 0
    BY <1>t, <2>1, EmptySeq
  <2>5. OneBos'
    <3> SUFFICES ASSUME NEW i \in 1..(Len(log) + 1) PROVE log'[i] = Bos <=> i = 1
      BY <2>3 DEF OneBos
    <3>1. CASE i = Len(log) + 1
      BY <1>t, <2>1, <2>2, <2>4, <3>1
    <3>2. CASE i # Len(log) + 1
      <4>1. i \in 1..Len(log)
        BY <1>t, <3>2
      <4>. QED
        BY <2>2, <2>3, <4>1 DEF OneBos
    <3>. QED
      BY <3>1, <3>2
  <2>. QED
    BY <2>2, <2>5 DEF Begun
<1>6. CASE Tap
  BY <1>1, <1>6 DEF Tap, Load, Stop, NewChat, OnCleared, SendFull, SendTurn
<1>7. CASE Looper
  BY <1>1, <1>7 DEF Looper
<1>8. CASE RunLoad \/ RunClose
  BY <1>1, <1>8 DEF RunLoad, RunClose
<1>9. CASE BeginTurn
  BY <1>1, <1>9 DEF BeginTurn
<1>10. CASE Check
  BY <1>1, <1>i, <1>10 DEF Check, EndTurn
<1>11. CASE StepNull \/ StepFails
  BY <1>1, <1>i, <1>11 DEF StepNull, StepFails, EndTurn
<1>12. ASSUME NEW t \in Ends, StepEnds(t) PROVE Begun' /\ OneBos'
  BY <1>5, <1>12 DEF StepEnds
<1>13. ASSUME NEW t \in Words, StepWord(t) PROVE Begun' /\ OneBos'
  BY <1>5, <1>13 DEF StepWord
<1>14. CASE UNCHANGED vars
  BY <1>1, <1>14 DEF vars
<1>. QED
  BY <1>2, <1>3, <1>4, <1>6, <1>7, <1>8, <1>9, <1>10, <1>11, <1>12, <1>13, <1>14
     DEF Next, Worker, Gone

\* A conversation has one BOS, its first token, through failed prompts, stopped
\* replies and resets.
THEOREM OneBeginning == Spec => []OneBos
<1>1. Init => Begun /\ OneBos
  <2>1. DOMAIN <<>> = {}
    OBVIOUS
  <2>. QED
    BY <2>1 DEF Init, Begun, OneBos, Idle
<1>2. Spec => [](Begun /\ OneBos)
  BY <1>1, StepBos, Invariance, PTL DEF Spec
<1>. QED
  BY <1>2, PTL

-----------------------------------------------------------------------------
(* The counter.                                                             *)

\* A user queues a task: a load while there is none, anything else after it.
LEMMA TapCounts ==
  ASSUME IInv, CInv, ~cleared, ~busy, NEW t \in Tasks, work' = Append(work, t),
         t.kind = "load" <=> ~loaded,
         UNCHANGED <<native, log, loaded, ctxUsed, cleared, looper, turn>>
  PROVE  CInv'
<1>1. /\ work' # <<>> /\ Len(work) \in Nat /\ Len(work') = Len(work) + 1
      /\ \A i \in 1..Len(work) : work'[i] = work[i]
      /\ work'[Len(work) + 1] = t
  BY Appended DEF IInv, TypeOK
<1>2. \A i \in 1..Len(work') : work'[i].kind = "load" <=> ~loaded
  <2> SUFFICES ASSUME NEW i \in 1..Len(work') PROVE work'[i].kind = "load" <=> ~loaded
    OBVIOUS
  <2>1. CASE i = Len(work) + 1
    BY <1>1, <2>1
  <2>2. CASE i # Len(work) + 1
    <3>1. i \in 1..Len(work)
      BY <1>1, <2>2
    <3>. QED
      BY <1>1, <3>1 DEF CInv, Loading
  <2>. QED
    BY <2>1, <2>2
<1>3. Loading'
  BY <1>2 DEF CInv, Loading, Running
<1>. QED
  BY <1>1, <1>3 DEF CInv, Opened, Counted, Ended

\* The worker posts a message that carries the position.
LEMMA PostCounts ==
  ASSUME IInv, CInv, NEW m \in Posts, Post(m), work' = <<>> \/ Running', cleared' = cleared,
         loaded' = loaded, ctxUsed' = ctxUsed, native' = native \/ ~cleared,
         cleared => work' = work, ~cleared /\ native = "open" => native' = "open",
         m.kind = "loaded" => native' = "open",
         Running' \/ Shown(m) = Len(log'),
         m.kind \in {"loaded", "failed"} <=> ~loaded,
         ~loaded => log' = <<>> /\ ~Running',
         ~cleared => work' = <<>>
  PROVE  CInv'
<1>1. CASE cleared
  <2>1. Loading' /\ Opened' /\ Counted'
    BY <1>1 DEF Loading, Opened, Counted
  <2>. QED
    BY <1>1, <2>1 DEF CInv, Ended
<1>2. CASE ~cleared
  <2>1. looper' = Append(looper, m)
    BY <1>2 DEF Post
  <2>2. /\ looper' # <<>> /\ Len(looper) \in Nat /\ Len(looper') = Len(looper) + 1
        /\ \A i \in 1..Len(looper) : looper'[i] = looper[i]
        /\ looper'[Len(looper) + 1] = m /\ Last(looper') = m
    BY <2>1, Appended DEF IInv, TypeOK
  <2>3. \A i \in 1..Len(looper') : looper'[i].kind \in {"loaded", "failed"} <=> ~loaded
    <3> SUFFICES ASSUME NEW i \in 1..Len(looper')
                 PROVE  looper'[i].kind \in {"loaded", "failed"} <=> ~loaded
      OBVIOUS
    <3>1. CASE i = Len(looper) + 1
      BY <2>2, <3>1
    <3>2. CASE i # Len(looper) + 1
      <4>1. i \in 1..Len(looper)
        BY <2>2, <3>2
      <4>. QED
        BY <1>2, <2>2, <4>1 DEF CInv, Loading
    <3>. QED
      BY <3>1, <3>2
  <2>4. Len(work') = 0
    BY <1>2, EmptySeq
  <2>5. Loading'
    BY <1>2, <2>3, <2>4 DEF CInv, Loading
  <2>6. Counted'
    BY <2>2 DEF Counted, Shown
  <2>7. Opened'
    <3> SUFFICES ASSUME loaded \/ \E i \in 1..Len(looper') : looper'[i].kind = "loaded"
                 PROVE  native' = "open"
      BY DEF Opened
    <3>1. CASE loaded \/ m.kind = "loaded"
      BY <1>2, <3>1 DEF CInv, Opened
    <3>2. CASE \E i \in 1..Len(looper) : looper'[i].kind = "loaded"
      BY <1>2, <2>2, <3>2 DEF CInv, Opened
    <3>3. \A i \in 1..Len(looper') : i \in 1..Len(looper) \/ i = Len(looper) + 1
      BY <2>2
    <3>. QED
      BY <2>2, <3>1, <3>2, <3>3
  <2>. QED
    BY <1>2, <2>5, <2>6, <2>7 DEF CInv, Ended
<1>. QED
  BY <1>1, <1>2

\* The worker goes on with a turn.
LEMMA RunCounts ==
  ASSUME IInv, CInv, Running, Running', UNCHANGED <<work, looper, loaded, ctxUsed, cleared, native>>
  PROVE  CInv'
<1>1. cleared \/ loaded
  BY DEF CInv, Loading
<1>. QED
  BY <1>1 DEF CInv, Loading, Opened, Counted, Ended

\* A turn ends with a post of the position.
LEMMA EndCounts ==
  ASSUME IInv, CInv, Running, NEW m \in Posts, m.kind \in {"out", "paint"}, m.used = Len(log'),
         Post(m), turn' = Idle, UNCHANGED <<work, loaded, ctxUsed, cleared, native>>
  PROVE  CInv'
<1>1. ~Running'
  BY DEF Running, Idle
<1>2. ~cleared => work = <<>>
  BY DEF IInv, Queues
<1>3. Shown(m) = Len(log')
  BY DEF Shown
<1>4. ~cleared => loaded
  BY DEF CInv, Loading
<1>5. CASE cleared
  BY <1>5 DEF CInv, Loading, Opened, Counted, Ended, Post
<1>6. CASE ~cleared
  BY <1>1, <1>2, <1>3, <1>4, <1>6, PostCounts
<1>. QED
  BY <1>5, <1>6

LEMMA StepCounted == IInv /\ CInv /\ [Next]_vars => CInv'
<1> SUFFICES ASSUME IInv, CInv, [Next]_vars PROVE CInv'
  OBVIOUS
<1> USE DEF ui, device
<1>t. TypeOK /\ log \in Seq(Tokens) /\ Len(log) \in 0..MaxSeq /\ MaxSeq \in Nat
  BY ChatAssumption, LenProperties DEF IInv, TypeOK
<1>i. Idle.at = "idle" /\ Len(<<>>) = 0 /\ <<>> \in Seq(Words)
  BY EmptySeq DEF Idle
<1>w. turn.words \in Seq(Words)
  BY <1>t, TurnParts
<1>1. CASE Load
  BY <1>1, TapCounts, MakesTasks DEF Load
<1>2. ASSUME NEW p \in Prompts, SendFull(p) \/ SendTurn(p) PROVE CInv'
  BY <1>2, TapCounts, MakesTasks DEF SendFull, SendTurn, Sendable
<1>3. CASE NewChat
  BY <1>3, TapCounts, MakesTasks DEF NewChat
<1>4. CASE Stop
  BY <1>4 DEF Stop, CInv, Loading, Opened, Counted, Ended, Running
<1>5. CASE OnCleared
  BY <1>5 DEF OnCleared, CInv, Loading, Opened, Counted, Ended
<1>6. CASE Looper
  <2>1. ~cleared /\ looper # <<>> /\ looper' = Tail(looper)
        /\ UNCHANGED <<native, log, cleared, work, turn>>
    BY <1>6 DEF Looper
  <2> DEFINE m == Head(looper)
  <2>2. /\ m \in Posts /\ Len(looper) \in Nat \ {0} /\ Len(looper') = Len(looper) - 1
        /\ m = looper[1]
        /\ \A i \in 1..(Len(looper) - 1) : looper'[i] = looper[i + 1]
        /\ looper' # <<>> => Last(looper') = Last(looper)
        /\ looper' = <<>> => Last(looper) = m
    BY <1>t, <2>1, Taken DEF TypeOK
  <2>3. m.kind \in {"loaded", "failed"} <=> ~loaded
    <3>1. 1 \in 1..Len(looper)
      BY <2>2
    <3>. QED
      BY <2>1, <2>2, <3>1 DEF CInv, Loading
  <2>4. LoadReturns(m) \/ ResetReturns(m) \/ OutReturns(m) \/ Painted(m)
    BY <1>6 DEF Looper
  <2>5. Ended' /\ (Running' <=> Running)
    BY <2>1 DEF CInv, Ended, Running
  <2> HIDE DEF m
  <2>6. CASE LoadReturns(m)
    <3>1. Fin(m) /\ ~loaded /\ ctxUsed' = 0 /\ log' = <<>>
      BY <2>1, <2>3, <2>6 DEF LoadReturns, Fin, CInv, Loading
    <3>2. OneTurn
      BY <2>1 DEF IInv, Queues
    <3>3. looper' = <<>>
      <4>1. \A n \in Nat \ {0} : n # 1 => 1 \in 1..(n - 1)
        OBVIOUS
      <4>2. Len(looper) = 1
        BY <2>2, <3>1, <3>2, <4>1 DEF OneTurn
      <4>3. looper' \in Seq(Posts)
        BY <1>t, <2>1, Taken DEF TypeOK
      <4>. QED
        BY <2>2, <4>2, <4>3, EmptySeq
    <3>4. Answered
      <4>1. Last(looper) = m
        BY <2>2, <3>3
      <4>. QED
        BY <2>1, <3>1, <4>1 DEF Answered
    <3>5. work = <<>> /\ ~Running
      BY <2>1, <3>2, <3>4 DEF IInv, Queues, OneTurn
    <3>8. Len(looper') = 0 /\ Len(work') = 0 /\ work' = <<>>
      BY <1>i, <2>1, <3>3, <3>5
    <3>9. native' = native /\ ~cleared /\ ~Running'
      BY <2>1, <2>5, <3>5
    <3>10. (\A i \in 1..Len(looper') : FALSE) /\ (\A i \in 1..Len(work') : FALSE)
      BY <3>8
    <3>6. Loading' /\ Counted'
      <4>1. Loading'
        BY <3>1, <3>9, <3>10 DEF Loading
      <4>2. Counted'
        BY <1>i, <3>1, <3>3 DEF Counted
      <4>. QED
        BY <4>1, <4>2
    <3>7. Opened'
      <4>1. m.kind = "loaded" => native = "open"
        <5>1. 1 \in 1..Len(looper)
          BY <2>2
        <5>. QED
          BY <2>1, <2>2, <5>1 DEF CInv, Opened
      <4>2. loaded' => m.kind = "loaded"
        BY <2>6 DEF LoadReturns
      <4>. QED
        BY <3>9, <3>10, <4>1, <4>2 DEF Opened
    <3>. QED
      BY <2>5, <3>6, <3>7 DEF CInv
  <2>7. CASE ResetReturns(m) \/ OutReturns(m) \/ Painted(m)
    <3>1. ctxUsed' = Shown(m) /\ loaded' = loaded /\ loaded
      BY <2>3, <2>7 DEF ResetReturns, OutReturns, Painted, Shown
    <3>2. \A i \in 1..Len(looper') : looper'[i].kind \notin {"loaded", "failed"}
      <4> SUFFICES ASSUME NEW i \in 1..Len(looper')
                   PROVE  looper'[i].kind \notin {"loaded", "failed"}
        OBVIOUS
      <4>1. i + 1 \in 1..Len(looper) /\ looper'[i] = looper[i + 1]
        BY <2>2
      <4>. QED
        BY <2>1, <3>1, <4>1 DEF CInv, Loading
    <3>3. Loading'
      BY <2>1, <3>1, <3>2 DEF CInv, Loading
    <3>4. Counted'
      BY <2>1, <2>2, <2>5, <3>1 DEF CInv, Counted, Shown
    <3>5. Opened'
      BY <2>1, <3>1 DEF CInv, Opened
    <3>. QED
      BY <2>5, <3>3, <3>4, <3>5 DEF CInv
  <2>. QED
    BY <2>4, <2>6, <2>7
<1>7. CASE RunLoad
  <2>1. ~cleared
    <3>1. Head(<<Task("close")>>).kind = "close"
      BY DEF Task
    <3>. QED
      BY <1>7, <3>1 DEF RunLoad, Takes, IInv, Sessions
  <2>2. work' = <<>> /\ Len(work) = 1 /\ work[1].kind = "load"
    BY <1>7, <2>1, TakesLast DEF RunLoad
  <2>3. ~loaded /\ log = <<>> /\ ~Running
    BY <2>1, <2>2 DEF CInv, Loading
  <2>4. PICK k \in {"loaded", "failed"} :
          Post(Task(k)) /\ native' = (IF k = "loaded" THEN "open" ELSE native)
    BY <1>7 DEF RunLoad
  <2>5. Task(k) \in Posts /\ Task(k).kind = k /\ Shown(Task(k)) = 0
    BY MakesPosts DEF Shown
  <2>6. UNCHANGED <<log, ctxUsed, loaded, cleared, turn>> /\ ~Running'
    BY <1>7, <2>3 DEF RunLoad, Running
  <2>7. /\ ~cleared /\ native = "open" => native' = "open"
        /\ Task(k).kind = "loaded" => native' = "open"
        /\ Shown(Task(k)) = Len(log')
    BY <1>i, <2>3, <2>4, <2>5, <2>6
  <2>. QED
    BY <2>1, <2>2, <2>3, <2>4, <2>5, <2>6, <2>7, PostCounts
<1>8. ASSUME NEW k \in {"new", "full"}, RunReset(k) PROVE CInv'
  <2>1. ~cleared
    <3>1. Head(<<Task("close")>>).kind = "close"
      BY DEF Task
    <3>. QED
      BY <1>8, <3>1 DEF RunReset, Takes, IInv, Sessions
  <2>2. Task(k) \in Posts /\ Task(k).kind = k /\ Shown(Task(k)) = 0
    BY MakesPosts DEF Shown
  <2>3. /\ turn.at = "idle" /\ work # <<>> /\ work' \in Seq(Tasks)
        /\ work[1].kind = k /\ Len(work) \in Nat \ {0} /\ Len(work') = Len(work) - 1
        /\ \A i \in 1..Len(work') : work'[i] = work[i + 1]
    BY <1>8, <1>t, TakesOld DEF RunReset
  <2>4. loaded
    BY <2>1, <2>3 DEF CInv, Loading
  <2>5. looper' = Append(looper, Task(k))
    BY <1>8, <2>1 DEF RunReset, Post
  <2>6. /\ looper' # <<>> /\ Len(looper) \in Nat /\ Len(looper') = Len(looper) + 1
        /\ \A i \in 1..Len(looper) : looper'[i] = looper[i]
        /\ looper'[Len(looper) + 1] = Task(k) /\ Last(looper') = Task(k)
    BY <2>2, <2>5, Appended DEF IInv, TypeOK
  <2>7. \A i \in 1..Len(looper') : looper'[i].kind \notin {"loaded", "failed"}
    <3> SUFFICES ASSUME NEW i \in 1..Len(looper')
                 PROVE  looper'[i].kind \notin {"loaded", "failed"}
      OBVIOUS
    <3>1. CASE i = Len(looper) + 1
      BY <2>2, <2>6, <3>1
    <3>2. CASE i # Len(looper) + 1
      <4>1. i \in 1..Len(looper)
        BY <2>6, <3>2
      <4>. QED
        BY <2>1, <2>4, <2>6, <4>1 DEF CInv, Loading
    <3>. QED
      BY <3>1, <3>2
  <2>8. \A i \in 1..Len(work') : work'[i].kind # "load"
    <3> SUFFICES ASSUME NEW i \in 1..Len(work') PROVE work'[i].kind # "load"
      OBVIOUS
    <3>1. i + 1 \in 1..Len(work) /\ work'[i] = work[i + 1]
      BY <2>3
    <3>. QED
      BY <2>1, <2>4, <3>1 DEF CInv, Loading
  <2>9. /\ loaded' = loaded /\ ctxUsed' = ctxUsed /\ cleared' = cleared
        /\ native = "open" => log' = <<>>
        /\ native # "open" => log' = log
    BY <1>8 DEF RunReset
  <2>10. Loading' /\ Ended'
    BY <2>1, <2>4, <2>7, <2>8, <2>9 DEF Loading, Ended
  <2>11. Len(log') = 0
    <3>1. native = "open"
      BY <2>1, <2>4 DEF CInv, Opened
    <3>. QED
      BY <1>i, <2>9, <3>1
  <2>12. Counted'
    BY <2>2, <2>6, <2>11 DEF Counted, Shown
  <2>13. Opened'
    BY <1>8, <2>1, <2>4 DEF RunReset, CInv, Opened
  <2>. QED
    BY <2>10, <2>12, <2>13 DEF CInv
<1>9. CASE BeginTurn
  <2>1. ~cleared
    <3>1. Head(<<Task("close")>>).kind = "close"
      BY DEF Task
    <3>. QED
      BY <1>9, <3>1 DEF BeginTurn, Takes, IInv, Sessions
  <2>2. work' = <<>> /\ Len(work) = 1 /\ work[1].kind = "turn"
    BY <1>9, <2>1, TakesLast DEF BeginTurn
  <2>3. loaded /\ Running'
    BY <1>9, <2>1, <2>2 DEF CInv, Loading, BeginTurn, Running
  <2>. QED
    BY <1>9, <1>i, <2>1, <2>2, <2>3 DEF BeginTurn, CInv, Loading, Opened, Counted, Ended
<1>10. CASE Prefilled
  <2>1. Running /\ Running'
    <3>1. turn \in Busy
      BY <1>10, <1>t, TurnParts DEF Prefilled
    <3>. QED
      BY <1>10, <3>1 DEF Prefilled, Running, Busy
  <2>. QED
    BY <1>10, <2>1, RunCounts DEF Prefilled
<1>11. CASE PrefillFails
  <2>1. turn.prompt \in Prompts /\ Running
    BY <1>11, <1>t, TurnParts DEF PrefillFails, Busy, Running
  <2>2. Len(log') \in 0..MaxSeq
    BY <1>11, <1>t, <2>1, FedTyped DEF PrefillFails
  <2> DEFINE m == [kind |-> "out", used |-> Len(log')]
  <2>3. m \in Posts /\ m.kind = "out" /\ m.used = Len(log')
    BY <2>2, MakesPosts
  <2>4. Post(m) /\ turn' = Idle
    BY <1>11 DEF PrefillFails
  <2> HIDE DEF m
  <2>. QED
    BY <1>11, <2>1, <2>3, <2>4, EndCounts DEF PrefillFails
<1>12. ASSUME Running, EndTurn(turn.words, Len(log')), Len(log') \in 0..MaxSeq,
              UNCHANGED <<work, loaded, ctxUsed, cleared, native>>
       PROVE  CInv'
  <2> DEFINE m == Paint(turn.words, Len(log'), TRUE)
  <2>1. m \in Posts /\ m.kind = "paint"
    BY <1>w, <1>12, MakesPosts
  <2>2. m.used = Len(log')
    BY DEF Paint
  <2>3. Post(m) /\ turn' = Idle
    BY <1>12 DEF EndTurn
  <2> HIDE DEF m
  <2>. QED
    BY <1>12, <2>1, <2>2, <2>3, EndCounts
<1>13. CASE Check
  <2>1. Running /\ log' = log
    BY <1>13 DEF Check, Running
  <2>2. CASE stopRequested
    BY <1>12, <1>13, <1>t, <2>1, <2>2 DEF Check
  <2>3. CASE ~stopRequested
    <3>1. turn \in Busy
      BY <1>t, <2>1, TurnParts DEF Running
    <3>2. Running'
      BY <1>13, <2>3, <3>1 DEF Check, Running, Busy
    <3>. QED
      BY <1>13, <2>1, <2>3, <3>2, RunCounts DEF Check
  <2>. QED
    BY <2>2, <2>3
<1>14. CASE StepNull \/ StepFails
  BY <1>12, <1>14, <1>t DEF StepNull, StepFails, Running
<1>15. ASSUME NEW t \in Ends, StepEnds(t) PROVE CInv'
  <2>1. Len(log') \in 0..MaxSeq
    <3>1. t \in Tokens
      BY DEF Tokens
    <3>2. Len(log') = Len(log) + 1 /\ Len(log) < MaxSeq
      BY <1>15, <1>t, <3>1, Appended DEF StepEnds
    <3>. QED
      BY <1>t, <3>2
  <2>. QED
    BY <1>12, <1>15, <2>1 DEF StepEnds, Running
<1>16. ASSUME NEW t \in Words, StepWord(t) PROVE CInv'
  <2>1. turn \in Busy
    BY <1>16, <1>t, TurnParts DEF StepWord
  <2>2. turn'.at = "check" /\ turn'.words = Append(turn.words, t) /\ Running /\ Running'
    BY <1>16, <2>1 DEF StepWord, Busy, Running
  <2>3. Len(log') \in 0..MaxSeq
    <3>1. t \in Tokens
      BY DEF Tokens
    <3>2. Len(log') = Len(log) + 1 /\ Len(log) < MaxSeq
      BY <1>16, <1>t, <3>1, Appended DEF StepWord
    <3>. QED
      BY <1>t, <3>2
  <2>4. CASE looper' = looper
    BY <1>16, <2>2, <2>4, RunCounts DEF StepWord
  <2>5. CASE Post(Paint(turn'.words, Len(log'), FALSE))
    <3> DEFINE m == Paint(turn'.words, Len(log'), FALSE)
    <3>1. turn'.words \in Seq(Words)
      BY <1>w, <2>2, Appended
    <3>2. m \in Posts /\ m.kind = "paint"
      BY <2>3, <3>1, MakesPosts
    <3>3. Post(m)
      BY <2>5
    <3> HIDE DEF m
    <3>4. ~cleared => work = <<>> /\ loaded
      BY <2>2 DEF IInv, Queues, CInv, Loading
    <3>5. CASE cleared
      BY <1>16, <3>3, <3>5 DEF StepWord, Post, CInv, Loading, Opened, Counted, Ended
    <3>6. CASE ~cleared
      BY <1>16, <2>2, <3>2, <3>3, <3>4, <3>6, PostCounts DEF StepWord
    <3>. QED
      BY <3>5, <3>6
  <2>. QED
    BY <1>16, <2>4, <2>5 DEF StepWord
<1>17. CASE RunClose
  <2>1. cleared
    <3>1. work # <<>> /\ work[1].kind = "close" /\ Len(work) \in Nat \ {0}
      BY <1>17, <1>t, TakesOld DEF RunClose
    <3>. QED
      BY <3>1 DEF IInv, Queues
  <2>. QED
    BY <1>17, <2>1 DEF RunClose, CInv, Loading, Opened, Counted, Ended
<1>18. CASE UNCHANGED vars
  BY <1>18 DEF vars, CInv, Loading, Opened, Counted, Ended, Running
<1>. QED
  BY <1>1, <1>2, <1>3, <1>4, <1>5, <1>6, <1>7, <1>8, <1>9, <1>10, <1>11, <1>13,
     <1>14, <1>15, <1>16, <1>17, <1>18 DEF Next, Tap, Worker, Gone

\* Whenever nothing is under way the counter on screen, which send() relies on,
\* is the session's position.
THEOREM CounterKept == Spec => []CounterTrue
<1>1. Init => CInv
  <2>1. Len(<<>>) = 0
    BY EmptySeq
  <2>. QED
    BY <2>1 DEF Init, CInv, Loading, Opened, Counted, Ended, Running, Idle
<1>2. IInv /\ CInv => CounterTrue
  <2>1. Task("close") = Task("close") /\ <<Task("close")>> # <<>>
    OBVIOUS
  <2>. QED
    BY <2>1 DEF CInv, Counted, Ended, CounterTrue, Quiet, Running
<1>3. Spec => []CInv
  BY <1>1, StepCounted, Invariance, PTL DEF Spec
<1>. QED
  BY <1>2, <1>3, Invariance, PTL

-----------------------------------------------------------------------------
(* The transcript.                                                          *)

\* The recursive functions of TextOf and ToldBy.
SeenUpTo(f, s, i) ==
  IF i = 0 THEN <<>>
  ELSE IF s[i] \in Prompts \cup Words THEN Append(f[i - 1], s[i]) ELSE f[i - 1]
Seen(f, s, n) == f = [i \in 0..n |-> SeenUpTo(f, s, i)]

\* Every text of a set, followed by one, and by one cut short.
Then(told, more)    == {t \o more : t \in told}
ThenCut(told, more) == {t \o SubSeq(more, 1, k) : t \in told, k \in 0..(Len(more) - 1)}

ToldUpTo(f, s, i) ==
  IF i = 0 THEN {<<>>}
  ELSE IF s[i].who = "cleared" THEN {<<>>}
  ELSE IF s[i].who = "out" /\ i > 1
  THEN ThenCut(f[i - 2], s[i - 1].text)
  ELSE Then(f[i - 1], s[i].text)
ToldAll(f, s, n) == f = [i \in 0..n |-> ToldUpTo(f, s, i)]

\* They depend on what they look at only.
LEMMA ToldSame ==
  ASSUME NEW f, NEW g, NEW s, NEW t, NEW i \in Nat,
         i # 0 => f[i - 1] = g[i - 1] /\ s[i] = t[i],
         i > 1 => f[i - 2] = g[i - 2] /\ s[i - 1] = t[i - 1]
  PROVE  ToldUpTo(f, s, i) = ToldUpTo(g, t, i)
BY DEF ToldUpTo

LEMMA SeenExists ==
  ASSUME NEW s, NEW n \in Nat
  PROVE  \E f : Seen(f, s, n)
<1> DEFINE S == {k \in Nat : \E f : Seen(f, s, k)}
<1>1. 0 \in S
  <2> DEFINE f == [i \in 0..0 |-> <<>>]
  <2>1. Seen(f, s, 0)
    BY DEF Seen, SeenUpTo
  <2>. QED
    BY <2>1
<1>2. ASSUME NEW k \in S PROVE k + 1 \in S
  <2>1. PICK f : Seen(f, s, k)
    OBVIOUS
  <2> DEFINE g == [i \in 0..(k + 1) |-> IF i = k + 1 THEN SeenUpTo(f, s, i) ELSE f[i]]
  <2>2. k \in Nat /\ k + 1 \in Nat
    OBVIOUS
  <2>3. \A i \in 0..k : f[i] = SeenUpTo(f, s, i)
    BY <2>1 DEF Seen
  <2>4. /\ \A i \in 0..k : g[i] = f[i]
        /\ g[k + 1] = SeenUpTo(f, s, k + 1)
    BY <2>2
  <2>5. ASSUME NEW i \in 0..(k + 1) PROVE g[i] = SeenUpTo(g, s, i)
    <3>1. i # 0 => i - 1 \in 0..k /\ g[i - 1] = f[i - 1]
      BY <2>2, <2>4
    <3>2. g[i] = SeenUpTo(f, s, i)
      BY <2>2, <2>3, <2>4
    <3> HIDE DEF g
    <3>. QED
      BY <3>1, <3>2 DEF SeenUpTo
  <2>6. g = [i \in 0..(k + 1) |-> g[i]]
    OBVIOUS
  <2> HIDE DEF g
  <2>7. Seen(g, s, k + 1)
    BY <2>5, <2>6 DEF Seen
  <2>. QED
    BY <2>2, <2>7
<1>3. S \in SUBSET Nat
  OBVIOUS
<1> HIDE DEF S
<1>4. S = Nat
  BY <1>1, <1>2, <1>3, EveryNumber
<1>. QED
  BY <1>4 DEF S

LEMMA ToldExists ==
  ASSUME NEW s, NEW n \in Nat
  PROVE  \E f : ToldAll(f, s, n)
<1> DEFINE S == {k \in Nat : \E f : ToldAll(f, s, k)}
<1>1. 0 \in S
  <2> DEFINE f == [i \in 0..0 |-> {<<>>}]
  <2>1. ToldAll(f, s, 0)
    BY DEF ToldAll, ToldUpTo
  <2>. QED
    BY <2>1
<1>2. ASSUME NEW k \in S PROVE k + 1 \in S
  <2>1. PICK f : ToldAll(f, s, k)
    OBVIOUS
  <2> DEFINE g == [i \in 0..(k + 1) |-> IF i = k + 1 THEN ToldUpTo(f, s, i) ELSE f[i]]
  <2>2. k \in Nat /\ k + 1 \in Nat
    OBVIOUS
  <2>3. \A i \in 0..k : f[i] = ToldUpTo(f, s, i)
    BY <2>1 DEF ToldAll
  <2>4. /\ \A i \in 0..k : g[i] = f[i]
        /\ g[k + 1] = ToldUpTo(f, s, k + 1)
    BY <2>2
  <2>5. ASSUME NEW i \in 0..(k + 1) PROVE g[i] = ToldUpTo(g, s, i)
    <3>1. i # 0 => i - 1 \in 0..k /\ g[i - 1] = f[i - 1]
      BY <2>2, <2>4
    <3>2. i > 1 => i - 2 \in 0..k /\ g[i - 2] = f[i - 2]
      BY <2>2, <2>4
    <3>3. g[i] = ToldUpTo(f, s, i)
      BY <2>2, <2>3, <2>4
    <3> HIDE DEF g
    <3>4. i \in Nat
      BY <2>2
    <3>. QED
      BY <3>1, <3>2, <3>3, <3>4, ToldSame
  <2>6. g = [i \in 0..(k + 1) |-> g[i]]
    OBVIOUS
  <2> HIDE DEF g
  <2>7. ToldAll(g, s, k + 1)
    BY <2>5, <2>6 DEF ToldAll
  <2>. QED
    BY <2>2, <2>7
<1>3. S \in SUBSET Nat
  OBVIOUS
<1> HIDE DEF S
<1>4. S = Nat
  BY <1>1, <1>2, <1>3, EveryNumber
<1>. QED
  BY <1>4 DEF S

LEMMA TextIsSeen ==
  ASSUME NEW s, Len(s) \in Nat
  PROVE  \E f : Seen(f, s, Len(s)) /\ TextOf(s) = f[Len(s)]
<1> DEFINE seen == CHOOSE f : Seen(f, s, Len(s))
<1>1. Seen(seen, s, Len(s))
  BY SeenExists
<1>2. TextOf(s) = seen[Len(s)]
  BY DEF TextOf, Seen, SeenUpTo
<1>. QED
  BY <1>1, <1>2

LEMMA ToldIsAll ==
  ASSUME NEW s, Len(s) \in Nat
  PROVE  \E f : ToldAll(f, s, Len(s)) /\ ToldBy(s) = f[Len(s)]
<1> DEFINE told == CHOOSE f : ToldAll(f, s, Len(s))
<1>1. ToldAll(told, s, Len(s))
  BY ToldExists
<1>2. ToldBy(s) = told[Len(s)]
  BY DEF ToldBy, ToldAll, ToldUpTo, Then, ThenCut
<1>. QED
  BY <1>1, <1>2

\* Sequences with a common beginning agree on it.
LEMMA SeenAgree ==
  ASSUME NEW s, NEW t, NEW n \in Nat, NEW m \in Nat, n <= m, NEW f, NEW g,
         Seen(f, s, n), Seen(g, t, m), \A i \in 1..n : s[i] = t[i]
  PROVE  \A i \in 0..n : f[i] = g[i]
<1> DEFINE S == {k \in Nat : k <= n => f[k] = g[k]}
<1>1. \A i \in 0..n : f[i] = SeenUpTo(f, s, i) /\ g[i] = SeenUpTo(g, t, i)
  <2>1. (\A i \in 0..n : i \in 0..m) /\ \A i \in 0..m : g[i] = SeenUpTo(g, t, i)
    BY DEF Seen
  <2>2. \A i \in 0..n : f[i] = SeenUpTo(f, s, i)
    BY DEF Seen
  <2>. QED
    BY <2>1, <2>2
<1>2. 0 \in S
  BY <1>1 DEF SeenUpTo
<1>3. ASSUME NEW k \in S PROVE k + 1 \in S
  <2> SUFFICES ASSUME k + 1 <= n PROVE f[k + 1] = g[k + 1]
    OBVIOUS
  <2>1. k \in 0..n /\ k + 1 \in 1..n /\ (k + 1) - 1 = k /\ f[k] = g[k] /\ k + 1 # 0
    OBVIOUS
  <2>. QED
    BY <1>1, <2>1 DEF SeenUpTo
<1>4. S \in SUBSET Nat
  OBVIOUS
<1> HIDE DEF S
<1>5. S = Nat
  BY <1>2, <1>3, <1>4, EveryNumber
<1>. QED
  BY <1>5 DEF S

LEMMA ToldAgree ==
  ASSUME NEW s, NEW t, NEW n \in Nat, NEW m \in Nat, n <= m, NEW f, NEW g,
         ToldAll(f, s, n), ToldAll(g, t, m), \A i \in 1..n : s[i] = t[i]
  PROVE  \A i \in 0..n : f[i] = g[i]
<1> DEFINE S == {k \in Nat : \A i \in 0..k : i <= n => f[i] = g[i]}
<1>1. \A i \in 0..n : f[i] = ToldUpTo(f, s, i) /\ g[i] = ToldUpTo(g, t, i)
  <2>1. (\A i \in 0..n : i \in 0..m) /\ \A i \in 0..m : g[i] = ToldUpTo(g, t, i)
    BY DEF ToldAll
  <2>2. \A i \in 0..n : f[i] = ToldUpTo(f, s, i)
    BY DEF ToldAll
  <2>. QED
    BY <2>1, <2>2
<1>2. 0 \in S
  <2>1. f[0] = {<<>>} /\ g[0] = {<<>>}
    BY <1>1 DEF ToldUpTo
  <2>2. \A i \in 0..0 : i = 0
    OBVIOUS
  <2>. QED
    BY <2>1, <2>2
<1>3. ASSUME NEW k \in S PROVE k + 1 \in S
  <2> SUFFICES ASSUME k + 1 <= n PROVE f[k + 1] = g[k + 1]
    OBVIOUS
  <2>1. k \in 0..n /\ k + 1 \in 1..n /\ (k + 1) - 1 = k /\ f[k] = g[k] /\ k + 1 # 0
    OBVIOUS
  <2>2. k + 1 > 1 => f[(k + 1) - 2] = g[(k + 1) - 2] /\ s[k] = t[k]
    BY <2>1
  <2>3. s[k + 1] = t[k + 1]
    BY <2>1
  <2>4. ToldUpTo(f, s, k + 1) = ToldUpTo(g, t, k + 1)
    BY <2>1, <2>2, <2>3, ToldSame
  <2>. QED
    BY <1>1, <2>1, <2>4
<1>4. S \in SUBSET Nat
  OBVIOUS
<1> HIDE DEF S
<1>5. S = Nat
  BY <1>2, <1>3, <1>4, EveryNumber
<1>. QED
  BY <1>5 DEF S

LEMMA TextNext ==
  ASSUME NEW s \in Seq(Tokens), NEW e \in Tokens
  PROVE  TextOf(Append(s, e))
           = IF e \in Prompts \cup Words THEN Append(TextOf(s), e) ELSE TextOf(s)
<1> DEFINE t == Append(s, e)  n == Len(s)
<1>1. /\ n \in Nat /\ Len(t) = n + 1 /\ t[n + 1] = e
      /\ \A i \in 1..n : s[i] = t[i]
  BY Appended
<1> HIDE DEF t, n
<1>2. PICK f : Seen(f, s, n) /\ TextOf(s) = f[n]
  BY <1>1, TextIsSeen DEF n
<1>3. Len(t) \in Nat
  BY <1>1
<1>4. PICK g : Seen(g, t, n + 1) /\ TextOf(t) = g[n + 1]
  BY <1>1, <1>3, TextIsSeen
<1>5. f[n] = g[n]
  <2>1. n + 1 \in Nat /\ n <= n + 1 /\ n \in 0..n
    BY <1>1
  <2>. QED
    BY <1>1, <1>2, <1>4, <2>1, SeenAgree
<1>6. g[n + 1] = SeenUpTo(g, t, n + 1)
  BY <1>1, <1>4 DEF Seen
<1>7. n + 1 # 0 /\ (n + 1) - 1 = n
  BY <1>1
<1>. QED
  BY <1>1, <1>2, <1>4, <1>5, <1>6, <1>7 DEF SeenUpTo, t

LEMMA TextTyped ==
  ASSUME NEW s \in Seq(Tokens)
  PROVE  TextOf(s) \in Seq(Tokens) /\ (s = <<>> => TextOf(s) = <<>>)
<1>1. Len(s) \in Nat /\ \A i \in 1..Len(s) : s[i] \in Tokens
  OBVIOUS
<1>2. PICK n \in Nat : n = Len(s)
  BY <1>1
<1>3. PICK f : Seen(f, s, n) /\ TextOf(s) = f[n]
  BY <1>1, <1>2, TextIsSeen
<1>4. \A i \in 0..n : f[i] = SeenUpTo(f, s, i)
  BY <1>3 DEF Seen
<1> DEFINE S == {k \in Nat : k <= n => f[k] \in Seq(Tokens)}
<1>5. f[0] = <<>>
  BY <1>4 DEF SeenUpTo
<1>6. 0 \in S
  <2>1. <<>> \in Seq(Tokens)
    OBVIOUS
  <2>. QED
    BY <1>5, <2>1
<1>7. ASSUME NEW k \in S PROVE k + 1 \in S
  <2> SUFFICES ASSUME k + 1 <= n PROVE f[k + 1] \in Seq(Tokens)
    OBVIOUS
  <2>1. k + 1 \in 0..n /\ k + 1 \in 1..Len(s) /\ f[k] \in Seq(Tokens) /\ (k + 1) - 1 = k /\ k + 1 # 0
    BY <1>2
  <2>2. s[k + 1] \in Tokens
    BY <1>1, <2>1
  <2>3. f[k + 1] = Append(f[k], s[k + 1]) \/ f[k + 1] = f[k]
    BY <1>4, <2>1 DEF SeenUpTo
  <2>4. Append(f[k], s[k + 1]) \in Seq(Tokens)
    BY <2>1, <2>2, Appended
  <2>. QED
    BY <2>1, <2>3, <2>4
<1>8. S \in SUBSET Nat
  OBVIOUS
<1> HIDE DEF S
<1>9. S = Nat
  BY <1>6, <1>7, <1>8, EveryNumber
<1>10. f[n] \in Seq(Tokens)
  BY <1>9 DEF S
<1>. QED
  BY <1>2, <1>3, <1>5, <1>10, Len(<<>>) = 0

\* Text stays text.
LEMMA TextOfMore ==
  ASSUME NEW s \in Seq(Tokens), NEW t \in Seq(Prompts \cup Words), NEW n \in 0..Len(t)
  PROVE  TextOf(s \o SubSeq(t, 1, n)) = TextOf(s) \o SubSeq(t, 1, n)
<1>1. Len(t) \in Nat /\ n \in Nat /\ t \in Seq(Tokens) /\ TextOf(s) \in Seq(Tokens)
  <2>1. t \in Seq(Tokens)
    BY DEF Tokens
  <2>. QED
    BY <2>1, TextTyped, LenProperties
<1>p. ASSUME NEW k \in Nat, k + 1 <= Len(t)
      PROVE  /\ SubSeq(t, 1, k) \in Seq(Tokens) /\ t[k + 1] \in Prompts \cup Words
             /\ t[k + 1] \in Tokens
             /\ \A b \in Seq(Tokens) : b \o SubSeq(t, 1, k + 1) = Append(b \o SubSeq(t, 1, k), t[k + 1])
  <2>1. SubSeq(t, 1, k) \in Seq(Tokens) /\ SubSeq(t, 1, k + 1) \in Seq(Tokens)
    BY <1>1, <1>p, SubSeqProperties
  <2>2. t[k + 1] \in Prompts \cup Words
    BY <1>1, <1>p, k + 1 \in 1..Len(t), ElementOfSeq
  <2>3. SubSeq(t, 1, k + 1) = Append(SubSeq(t, 1, k), t[k + 1])
    BY <1>1, <1>p
  <2>4. \A b \in Seq(Tokens) : b \o Append(SubSeq(t, 1, k), t[k + 1]) = Append(b \o SubSeq(t, 1, k), t[k + 1])
    BY <2>1, <2>2 DEF Tokens
  <2>. QED
    BY <2>1, <2>2, <2>3, <2>4 DEF Tokens
<1> DEFINE S == {k \in Nat : k <= Len(t) => TextOf(s \o SubSeq(t, 1, k)) = TextOf(s) \o SubSeq(t, 1, k)}
<1>2. 0 \in S
  <2>1. SubSeq(t, 1, 0) = <<>>
    BY <1>1
  <2>2. s \o <<>> = s /\ TextOf(s) \o <<>> = TextOf(s)
    BY <1>1
  <2>. QED
    BY <2>1, <2>2
<1>3. ASSUME NEW k \in S PROVE k + 1 \in S
  <2> SUFFICES ASSUME k + 1 <= Len(t)
               PROVE  TextOf(s \o SubSeq(t, 1, k + 1)) = TextOf(s) \o SubSeq(t, 1, k + 1)
    OBVIOUS
  <2> DEFINE b == s \o SubSeq(t, 1, k)  e == t[k + 1]
  <2>1. k \in Nat /\ k <= Len(t) /\ TextOf(b) = TextOf(s) \o SubSeq(t, 1, k)
    BY <1>1
  <2>2. /\ SubSeq(t, 1, k) \in Seq(Tokens) /\ e \in Prompts \cup Words /\ e \in Tokens
        /\ s \o SubSeq(t, 1, k + 1) = Append(b, e)
        /\ TextOf(s) \o SubSeq(t, 1, k + 1) = Append(TextOf(s) \o SubSeq(t, 1, k), e)
    BY <1>1, <1>p, <2>1
  <2>3. b \in Seq(Tokens)
    BY <2>2, ConcatProperties
  <2> HIDE DEF b, e
  <2>4. TextOf(Append(b, e)) = Append(TextOf(b), e)
    BY <2>2, <2>3, TextNext
  <2>. QED
    BY <2>1, <2>2, <2>4
<1>4. S \in SUBSET Nat
  OBVIOUS
<1> HIDE DEF S
<1>5. S = Nat
  BY <1>2, <1>3, <1>4, EveryNumber
<1>6. n \in Nat /\ n <= Len(t)
  BY <1>1
<1>. QED
  BY <1>5, <1>6 DEF S

\* A notice that the history was cleared, a message, and one cut short.
LEMMA ToldNext ==
  ASSUME NEW n \in Nat, NEW s, Len(s) = n, NEW t, Len(t) = n + 1, \A i \in 1..n : s[i] = t[i],
         NEW e, t[n + 1] = e
  PROVE  /\ e.who = "cleared" => ToldBy(t) = {<<>>}
         /\ e.who \in {"user", "gemma"} => ToldBy(t) = Then(ToldBy(s), e.text)
<1>1. /\ n \in Nat /\ Len(t) = n + 1 /\ t[n + 1] = e
      /\ \A i \in 1..n : s[i] = t[i]
  OBVIOUS
<1>2. PICK f : ToldAll(f, s, n) /\ ToldBy(s) = f[n]
  BY <1>1, ToldIsAll
<1>3. Len(t) \in Nat
  BY <1>1
<1>4. PICK g : ToldAll(g, t, n + 1) /\ ToldBy(t) = g[n + 1]
  BY <1>1, <1>3, ToldIsAll
<1>5. f[n] = g[n]
  <2>1. n + 1 \in Nat /\ n <= n + 1 /\ n \in 0..n
    BY <1>1
  <2>2. PICK m \in Nat : m = n + 1
    BY <2>1
  <2>3. ToldAll(f, s, n) /\ ToldAll(g, t, m) /\ n <= m /\ \A i \in 1..n : s[i] = t[i]
    BY <1>1, <1>2, <1>4, <2>2
  <2>4. \A i \in 0..n : f[i] = g[i]
    BY <2>3, ToldAgree
  <2>. QED
    BY <2>1, <2>4
<1>6. g[n + 1] = ToldUpTo(g, t, n + 1)
  BY <1>1, <1>4 DEF ToldAll
<1>7. n + 1 # 0 /\ (n + 1) - 1 = n
  BY <1>1
<1>. QED
  BY <1>1, <1>2, <1>4, <1>5, <1>6, <1>7 DEF ToldUpTo

LEMMA ToldNothing == ToldBy(<<>>) = {<<>>}
<1>1. Len(<<>>) = 0
  OBVIOUS
<1>2. PICK f : ToldAll(f, <<>>, 0) /\ ToldBy(<<>>) = f[0]
  BY <1>1, ToldIsAll
<1>. QED
  BY <1>2 DEF ToldAll, ToldUpTo

LEMMA ToldPrefix ==
  ASSUME NEW n \in Nat, NEW m \in Nat, n <= m, NEW s, Len(s) = n, NEW t, Len(t) = m,
         \A i \in 1..n : s[i] = t[i]
  PROVE  \E g : ToldAll(g, t, m) /\ ToldBy(t) = g[m] /\ g[n] = ToldBy(s)
<1>2. PICK f : ToldAll(f, s, n) /\ ToldBy(s) = f[n]
  BY ToldIsAll
<1>4. PICK g : ToldAll(g, t, m) /\ ToldBy(t) = g[m]
  BY ToldIsAll
<1>5. \A i \in 0..n : f[i] = g[i]
  BY <1>2, <1>4, ToldAgree
<1>. QED
  BY <1>2, <1>4, <1>5, n \in 0..n

LEMMA ToldCut ==
  ASSUME NEW n \in Nat, NEW s, Len(s) = n, NEW t, Len(t) = n + 2, \A i \in 1..n : s[i] = t[i],
         t[n + 2].who = "out"
  PROVE  ToldBy(t) = ThenCut(ToldBy(s), t[n + 1].text)
<1>1. PICK m \in Nat : m = n + 2
  OBVIOUS
<1>2. PICK g : ToldAll(g, t, m) /\ ToldBy(t) = g[m] /\ g[n] = ToldBy(s)
  BY <1>1, ToldPrefix
<1>3. g[m] = ToldUpTo(g, t, m)
  BY <1>1, <1>2, m \in 0..m DEF ToldAll
<1>4. m # 0 /\ m - 2 = n /\ m > 1 /\ m - 1 = n + 1 /\ t[m].who = "out" /\ t[m].who # "cleared"
  BY <1>1
<1>. QED
  BY <1>2, <1>3, <1>4 DEF ToldUpTo

\* A question and what came of it, at the end of a transcript.
LEMMA Exchange ==
  ASSUME NEW base \in Seq(ChatMsg), NEW p \in Prompts, NEW m \in ChatMsg
  PROVE  LET t == Append(Append(base, User(p)), m)
         IN  /\ t \in Seq(ChatMsg) /\ t # <<>>
             /\ Front(t) = Append(base, User(p))
             /\ m.who = "cleared" => ToldBy(t) = {<<>>}
             /\ m.who \in {"user", "gemma"} =>
                  ToldBy(t) = Then(Then(ToldBy(base), PromptTokens[p]), m.text)
             /\ m.who = "out" => ToldBy(t) = ThenCut(ToldBy(base), PromptTokens[p])
<1> DEFINE n == Len(base)  s == Append(base, User(p))  t == Append(s, m)
<1>1. User(p) \in ChatMsg /\ User(p).who = "user" /\ User(p).text = PromptTokens[p]
  BY ChatAssumption DEF User, ChatMsg, Tokens
<1>2. /\ s \in Seq(ChatMsg) /\ n \in Nat /\ Len(s) = n + 1 /\ s[n + 1] = User(p)
      /\ \A i \in 1..n : s[i] = base[i]
  BY <1>1, Appended
<1> HIDE DEF s
<1>3. /\ t \in Seq(ChatMsg) /\ t # <<>> /\ Len(t) = n + 2 /\ t[n + 2] = m
      /\ \A i \in 1..(n + 1) : t[i] = s[i]
  <2>1. /\ t \in Seq(ChatMsg) /\ t # <<>> /\ Len(t) = Len(s) + 1 /\ t[Len(s) + 1] = m
        /\ \A i \in 1..Len(s) : t[i] = s[i]
    BY <1>2, Appended
  <2>2. Len(s) + 1 = n + 2
    BY <1>2
  <2>. QED
    BY <1>2, <2>1, <2>2
<1>4. Front(t) = s
  <2>1. Front(t) = SubSeq(t, 1, Len(t) - 1)
    BY DEF Front
  <2>2. Len(t) - 1 = Len(s) /\ Len(s) \in Nat
    BY <1>2, <1>3
  <2>3. SubSeq(t, 1, Len(s)) = s
    BY <1>2, <1>3
  <2>. QED
    BY <2>1, <2>2, <2>3
<1> HIDE DEF t, n
<1>5. ToldBy(s) = Then(ToldBy(base), PromptTokens[p])
  <2>1. PICK e : e = User(p)
    OBVIOUS
  <2>2. n \in Nat /\ Len(base) = n /\ Len(s) = n + 1 /\ s[n + 1] = e /\ \A i \in 1..n : base[i] = s[i]
    BY <1>2, <2>1 DEF n
  <2>3. e.who \in {"user", "gemma"} => ToldBy(s) = Then(ToldBy(base), e.text)
    BY <2>2, ToldNext
  <2>. QED
    BY <1>1, <2>1, <2>3
<1>6. /\ m.who = "cleared" => ToldBy(t) = {<<>>}
      /\ m.who \in {"user", "gemma"} => ToldBy(t) = Then(ToldBy(s), m.text)
  <2>1. PICK k \in Nat : k = n + 1
    BY <1>2
  <2>2. Len(s) = k /\ Len(t) = k + 1 /\ t[k + 1] = m /\ \A i \in 1..k : s[i] = t[i]
    BY <1>2, <1>3, <2>1
  <2>. QED
    BY <2>2, ToldNext
<1>7. m.who = "out" => ToldBy(t) = ThenCut(ToldBy(base), PromptTokens[p])
  <2>1. \A i \in 1..n : base[i] = t[i]
    BY <1>2, <1>3
  <2>2. t[n + 1].text = PromptTokens[p]
    BY <1>1, <1>2, <1>3
  <2>3. n \in Nat /\ Len(base) = n /\ Len(t) = n + 2 /\ t[n + 2] = m
    BY <1>2, <1>3 DEF n
  <2>. QED
    BY <2>1, <2>2, <2>3, ToldCut
<1>. QED
  BY <1>3, <1>4, <1>5, <1>6, <1>7 DEF t, s

\* A notice that the history was cleared.
LEMMA ToldCleared ==
  ASSUME NEW s \in Seq(ChatMsg)
  PROVE  ToldBy(Append(s, Notice("cleared"))) = {<<>>}
<1>1. Notice("cleared") \in ChatMsg /\ Notice("cleared").who = "cleared"
  BY EmptySeq DEF Notice, ChatMsg
<1>2. PICK n \in Nat : n = Len(s)
  BY LenProperties
<1> DEFINE t == Append(s, Notice("cleared"))
<1>3. /\ Len(t) = n + 1 /\ t[n + 1] = Notice("cleared")
      /\ \A i \in 1..n : s[i] = t[i]
  BY <1>1, <1>2, Appended
<1> HIDE DEF t
<1>4. ToldBy(t) = {<<>>}
  BY <1>1, <1>2, <1>3, ToldNext
<1>. QED
  BY <1>4 DEF t

\* The prompt's template adds nothing a user sees.
LEMMA TextOfPrompt ==
  ASSUME TypeOK, NEW p \in Prompts
  PROVE  /\ TextOf(log \o Ids(p)) = Visible \o PromptTokens[p]
         /\ \A k \in 0..(Len(Ids(p)) - 1) :
              \E j \in 0..(Len(PromptTokens[p]) - 1) :
                TextOf(log \o SubSeq(Ids(p), 1, k)) = Visible \o SubSeq(PromptTokens[p], 1, j)
<1> DEFINE b == IF log = <<>> THEN Bos ELSE Nl
           pt == PromptTokens[p]
           s == Append(log, b)
<1>1. /\ log \in Seq(Tokens) /\ b \in Tokens /\ b \notin Prompts \cup Words
      /\ pt \in Seq(Prompts \cup Words) /\ pt \in Seq(Tokens) /\ pt # <<>>
  <2>1. log \in Seq(Tokens)
    BY DEF TypeOK
  <2>2. b \in Tokens /\ b \notin Prompts \cup Words
    BY ChatAssumption DEF Tokens
  <2>3. pt \in Seq(Prompts) /\ pt # <<>>
    BY ChatAssumption
  <2>4. pt \in Seq(Prompts \cup Words) /\ pt \in Seq(Tokens)
    BY <2>3 DEF Tokens
  <2>. QED
    BY <2>1, <2>2, <2>3, <2>4
<1>2. Len(pt) \in Nat \ {0}
  BY <1>1, EmptySeq, LenProperties
<1>3. s \in Seq(Tokens) /\ TextOf(s) = Visible
  BY <1>1, TextNext, Appended DEF Visible
<1>4. \A k \in 0..Len(pt) : TextOf(s \o SubSeq(pt, 1, k)) = Visible \o SubSeq(pt, 1, k)
  BY <1>1, <1>3, TextOfMore
<1>5. Ids(p) = <<b>> \o pt /\ Len(Ids(p)) = Len(pt) + 1
  <2>1. Ids(p) = <<b>> \o pt
    BY DEF Ids
  <2>. QED
    BY <1>1, <2>1
<1> HIDE DEF b, pt
<1>6. log \o Ids(p) = s \o pt /\ SubSeq(pt, 1, Len(pt)) = pt
  BY <1>1, <1>2, <1>5
<1>7. ASSUME NEW k \in 1..(Len(Ids(p)) - 1)
      PROVE  log \o SubSeq(Ids(p), 1, k) = s \o SubSeq(pt, 1, k - 1)
  <2>1. SubSeq(<<b>> \o pt, 1, k) = <<b>> \o SubSeq(pt, 1, k - 1)
    BY <1>1, <1>2, <1>5
  <2>2. SubSeq(pt, 1, k - 1) \in Seq(Tokens)
    <3>1. k - 1 \in 0..Len(pt)
      BY <1>2, <1>5
    <3>. QED
      BY <1>1, <3>1
  <2>3. \A x \in Seq(Tokens) : log \o (<<b>> \o x) = Append(log, b) \o x
    BY <1>1
  <2>. QED
    BY <1>5, <2>1, <2>2, <2>3
<1>8. TextOf(log \o Ids(p)) = Visible \o pt
  <2>1. Len(pt) \in 0..Len(pt)
    BY <1>2
  <2>2. TextOf(s \o SubSeq(pt, 1, Len(pt))) = Visible \o SubSeq(pt, 1, Len(pt))
    BY <1>4, <2>1
  <2>. QED
    BY <1>6, <2>2
<1>9. ASSUME NEW k \in 0..(Len(Ids(p)) - 1)
      PROVE  \E j \in 0..(Len(pt) - 1) :
               TextOf(log \o SubSeq(Ids(p), 1, k)) = Visible \o SubSeq(pt, 1, j)
  <2>1. CASE k = 0
    <3>1. SubSeq(Ids(p), 1, k) = <<>> /\ SubSeq(pt, 1, 0) = <<>>
      BY <1>1, <1>5, <2>1
    <3>2. log \o <<>> = log /\ Visible \o <<>> = Visible
      BY <1>1, TextTyped DEF Visible
    <3>. QED
      BY <1>2, <3>1, <3>2, 0 \in 0..(Len(pt) - 1) DEF Visible
  <2>2. CASE k # 0
    <3>1. k \in 1..(Len(Ids(p)) - 1) /\ k - 1 \in 0..(Len(pt) - 1) /\ k - 1 \in 0..Len(pt)
      BY <1>2, <1>5, <2>2
    <3>. QED
      BY <1>4, <1>7, <3>1
  <2>. QED
    BY <2>1, <2>2
<1>. QED
  BY <1>8, <1>9 DEF pt
-----------------------------------------------------------------------------
(* Where the conversation is.                                               *)

TurnQueued == work # <<>> /\ Last(work).kind = "turn"
Replied    == Answered /\ Last(looper).kind \in {"out", "paint"}
Between    == ~TurnQueued /\ ~Running /\ ~Replied

Painting  == \E i \in 1..Len(looper) : looper[i].kind = "paint"
Resetting == \E i \in 1..Len(looper) : looper[i].kind \in {"new", "full"}

\* The transcript ends with the question of a turn and the place of its reply.
Placed(base, p) == \E words \in Seq(Words) : messages = Append(Append(base, User(p)), Gemma(words))

\* The model has not been told the question.
Waiting(p) == \E base \in Seq(ChatMsg) : Placed(base, p) /\ Visible \in ToldBy(base)

\* It has been told the question and made a part of its reply.
Replying(p, words) ==
  \E base \in Seq(ChatMsg) :
    Placed(base, p) /\ \E v \in ToldBy(base) : Visible = (v \o PromptTokens[p]) \o words

\* It has been told a part of the question.
Cut(p) ==
  \E base \in Seq(ChatMsg) :
    /\ Placed(base, p)
    /\ \E v \in ToldBy(base), k \in 0..(Len(PromptTokens[p]) - 1) :
         Visible = v \o SubSeq(PromptTokens[p], 1, k)

\* No turn is under way: a reset is the only thing the screen does not show.
Calm == ~Painting /\ IF Resetting THEN log = <<>> ELSE Visible \in Told

Stages ==
  /\ Between => Calm
  /\ TurnQueued => work = <<Last(work)>> /\ looper = <<>> /\ Waiting(Last(work).prompt)
  /\ turn.at = "prefill" => looper = <<>> /\ Waiting(turn.prompt)
  /\ turn.at \in {"check", "step"} => ~Resetting /\ Replying(turn.prompt, turn.words)
  /\ Replied => ~Resetting
  /\ Replied /\ Last(looper).kind = "paint" => \E p \in Prompts : Replying(p, Last(looper).words)
  /\ Replied /\ Last(looper).kind = "out" => \E p \in Prompts : Cut(p)

InStep == ~cleared /\ ~raced => Stages

-----------------------------------------------------------------------------
(* How each kind of step moves it.                                           *)

\* A post at the end of the looper's queue.
LEMMA Posted ==
  ASSUME TypeOK, NEW m \in Posts, looper' = Append(looper, m)
  PROVE  /\ looper' # <<>> /\ Last(looper') = m
         /\ Painting' <=> Painting \/ m.kind = "paint"
         /\ Resetting' <=> Resetting \/ m.kind \in {"new", "full"}
         /\ Answered' <=> Fin(m)
<1>1. /\ looper' # <<>> /\ Last(looper') = m /\ Len(looper) \in Nat
      /\ Len(looper') = Len(looper) + 1 /\ looper'[Len(looper) + 1] = m
      /\ \A i \in 1..Len(looper) : looper'[i] = looper[i]
  BY Appended DEF TypeOK
<1>2. /\ \A i \in 1..Len(looper') : i \in 1..Len(looper) \/ i = Len(looper) + 1
      /\ \A i \in 1..Len(looper) : i \in 1..Len(looper')
      /\ Len(looper) + 1 \in 1..Len(looper')
  BY <1>1
<1>3. Answered' <=> Fin(m)
  BY <1>1 DEF Answered, Fin
<1>. QED
  BY <1>1, <1>2, <1>3 DEF Painting, Resetting

\* The looper's first post.
LEMMA Ran ==
  ASSUME TypeOK, looper # <<>>, looper' = Tail(looper)
  PROVE  /\ Painting' => Painting
         /\ Painting => Painting' \/ Head(looper).kind = "paint"
         /\ Resetting' => Resetting
         /\ Resetting => Resetting' \/ Head(looper).kind \in {"new", "full"}
         /\ Head(looper).kind = "paint" => Painting
         /\ Head(looper).kind \in {"new", "full"} => Resetting
<1>1. /\ Len(looper) \in Nat \ {0} /\ Len(looper') = Len(looper) - 1
      /\ Head(looper) = looper[1]
      /\ \A i \in 1..(Len(looper) - 1) : looper'[i] = looper[i + 1]
  BY Taken DEF TypeOK
<1>2. \A i \in 1..Len(looper') : i + 1 \in 1..Len(looper) /\ looper'[i] = looper[i + 1]
  BY <1>1
<1>3. ASSUME NEW i \in 1..Len(looper), i # 1 PROVE i - 1 \in 1..Len(looper') /\ looper'[i - 1] = looper[i]
  <2>1. i - 1 \in 1..(Len(looper) - 1) /\ (i - 1) + 1 = i
    BY <1>1, <1>3
  <2>. QED
    BY <1>1, <2>1
<1>4. 1 \in 1..Len(looper)
  BY <1>1
<1>. QED
  BY <1>1, <1>2, <1>3, <1>4 DEF Painting, Resetting

\* While nothing happens to the queues and to the conversation, nothing moves.
LEMMA StaysInStep ==
  ASSUME InStep, UNCHANGED <<log, messages, work, looper, turn>>, cleared' \/ cleared' = cleared,
         raced' = raced
  PROVE  InStep'
BY DEF InStep, Stages, Between, TurnQueued, Running, Replied, Answered, Fin, Calm, Painting,
       Resetting, Waiting, Replying, Cut, Placed, Visible, Told

\* Between turns.
LEMMA Calms ==
  ASSUME ~TurnQueued', ~Running', ~Replied', Calm'
  PROVE  Stages'
BY DEF Stages, Running

\* A tap that queues something other than a turn.
LEMMA TapCalm ==
  ASSUME IInv, InStep, ~cleared, ~busy, NEW t \in Tasks, t.kind # "turn",
         work' = Append(work, t), UNCHANGED <<log, messages, looper, turn, cleared, raced>>
  PROVE  InStep'
<1> SUFFICES ASSUME ~raced PROVE Stages'
  BY DEF InStep
<1>1. OneTurn /\ ~Queued /\ ~Running /\ ~Answered
  BY DEF IInv, Queues, OneTurn
<1>2. work' # <<>> /\ Last(work') = t
  BY Appended DEF IInv, TypeOK
<1>3. ~TurnQueued' /\ ~Running' /\ ~Replied'
  BY <1>1, <1>2 DEF TurnQueued, Running, Replied, Answered, Fin
<1>4. Calm
  BY <1>1 DEF InStep, Stages, Between, TurnQueued, Replied, Queued
<1>5. Calm'
  BY <1>4 DEF Calm, Painting, Resetting, Visible, Told
<1>. QED
  BY <1>3, <1>5, Calms

\* A turn ends, with what it has come to.
LEMMA TurnEnds ==
  ASSUME IInv, ~cleared, Running, ~Resetting, NEW m \in Posts, m.kind \in {"out", "paint"}, Fin(m),
         Post(m), turn' = Idle, work' = work,
         m.kind = "paint" => \E p \in Prompts : Replying(p, m.words)',
         m.kind = "out" => \E p \in Prompts : Cut(p)'
  PROVE  Stages'
<1>1. looper' = Append(looper, m) /\ work = <<>>
  BY DEF Post, IInv, Queues
<1>2. Answered' /\ Replied' /\ Last(looper') = m /\ ~Resetting'
  BY <1>1, Posted DEF Replied, IInv
<1>3. ~TurnQueued' /\ turn'.at = "idle"
  BY <1>1 DEF TurnQueued, Idle
<1>4. /\ Between' = FALSE
      /\ turn'.at \notin {"prefill", "check", "step"}
  BY <1>2, <1>3 DEF Between
<1>. QED
  BY <1>2, <1>3, <1>4 DEF Stages

\* The UI thread sends a message while no reset is under way.
LEMMA Sends ==
  ASSUME IInv, InStep, NEW p \in Prompts, SendTurn(p)
  PROVE  InStep'
<1> SUFFICES ASSUME ~raced' PROVE Stages'
  BY DEF InStep
<1> DEFINE t == [kind |-> "turn", prompt |-> p]
<1>1. /\ ~cleared /\ ~busy /\ work' = Append(work, t) /\ UNCHANGED <<log, looper, turn>>
      /\ messages' = messages \o <<User(p), Gemma(<<>>)>>
      /\ ~raced /\ ~InFlight({"new", "full"})
  BY DEF SendTurn, Sendable, device, ui
<1>2. OneTurn /\ ~Queued /\ ~Running /\ ~Answered
  BY <1>1 DEF IInv, Queues, OneTurn
<1>3. TypeOK /\ Len(work) \in Nat /\ Len(looper) \in Nat
  BY LenProperties DEF IInv, TypeOK
<1>4. DOMAIN work = 1..Len(work) /\ DOMAIN looper = 1..Len(looper)
  BY <1>3 DEF TypeOK
<1>5. work = <<>>
  <2> SUFFICES ASSUME work # <<>> PROVE FALSE
    OBVIOUS
  <2>1. Len(work) \in 1..Len(work) /\ Last(work) = work[Len(work)]
    BY <1>3, EmptySeq DEF TypeOK, Last
  <2>2. work[Len(work)] \in Tasks
    BY <1>3, <2>1, ElementOfSeq DEF TypeOK
  <2>3. work[Len(work)].kind \notin {"load", "turn", "new", "full", "close"}
    BY <1>1, <1>2, <1>4, <2>1 DEF Queued, InFlight, IInv, Queues
  <2>. QED
    BY <2>2, <2>3, Kinds
<1>6. Calm /\ ~Resetting /\ ~Painting
  BY <1>1, <1>2, <1>4 DEF InStep, Stages, Between, TurnQueued, Replied, Queued, Calm, Resetting, InFlight
<1>7. looper = <<>>
  <2> SUFFICES ASSUME looper # <<>> PROVE FALSE
    OBVIOUS
  <2>1. Len(looper) \in 1..Len(looper) /\ Last(looper) = looper[Len(looper)]
    BY <1>3, EmptySeq DEF TypeOK, Last
  <2>2. looper[Len(looper)] \in Posts
    BY <1>3, <2>1, ElementOfSeq DEF TypeOK
  <2>3. looper[Len(looper)].kind \notin {"loaded", "failed", "out", "paint", "new", "full"}
    BY <1>2, <1>6, <2>1 DEF Answered, Fin, Painting, Resetting
  <2>. QED
    BY <2>2, <2>3, Kinds
<1>8. work' = <<t>> /\ Last(work') = t
  BY <1>1, <1>5 DEF Last
<1>9. messages' = Append(Append(messages, User(p)), Gemma(<<>>))
  BY <1>1, <1>3 DEF TypeOK
<1>10. Waiting(p)'
  <2>1. PICK base \in Seq(ChatMsg) : base = messages
    BY <1>3 DEF TypeOK
  <2>2. Placed(base, p)' /\ Visible' \in ToldBy(base)
    <3>1. <<>> \in Seq(Words)
      BY EmptySeq
    <3>2. Visible' \in ToldBy(base)
      BY <1>1, <1>6, <2>1 DEF Calm, Visible, Told
    <3>. QED
      BY <1>9, <2>1, <3>1, <3>2 DEF Placed
  <2>. QED
    BY <2>1, <2>2 DEF Waiting
<1>11. ~Running' /\ ~Answered' /\ looper' = <<>> /\ turn'.at = "idle"
  BY <1>1, <1>2, <1>7 DEF Running, Answered
<1>. QED
  BY <1>8, <1>10, <1>11 DEF Stages, Between, TurnQueued, Replied, Running

\* The UI thread runs what the worker has posted.
LEMMA Runs ==
  ASSUME IInv, CInv, InStep, Looper
  PROVE  InStep'
<1> DEFINE m == Head(looper)
<1>1. /\ ~cleared /\ looper # <<>> /\ looper' = Tail(looper) /\ m \in Posts
      /\ UNCHANGED <<log, cleared, work, turn, raced>>
      /\ LoadReturns(m) \/ ResetReturns(m) \/ OutReturns(m) \/ Painted(m)
      /\ TypeOK
  BY Taken DEF Looper, device, IInv, TypeOK
<1>2. /\ Len(looper) \in Nat \ {0} /\ m = looper[1]
      /\ looper' # <<>> => Len(looper) > 1 /\ Last(looper') = Last(looper)
      /\ looper' = <<>> => Len(looper) = 1 /\ Last(looper) = m
  BY <1>1, Taken DEF TypeOK
<1>3. OneTurn
  BY <1>1 DEF IInv, Queues
<1> SUFFICES ASSUME ~raced PROVE Stages'
  BY <1>1 DEF InStep
<1>4. Stages
  BY <1>1 DEF InStep
<1>5. /\ Painting' => Painting
      /\ Resetting' => Resetting
      /\ Resetting => Resetting' \/ m.kind \in {"new", "full"}
      /\ m.kind = "paint" => Painting
      /\ m.kind \in {"new", "full"} => Resetting
  BY <1>1, Ran
<1>6. looper' # <<>> => ~Fin(m) /\ (Answered' <=> Answered)
  <2> SUFFICES ASSUME looper' # <<>> PROVE ~Fin(m) /\ (Answered' <=> Answered)
    OBVIOUS
  <2>1. 1 \in 1..(Len(looper) - 1)
    BY <1>2
  <2>. QED
    BY <1>1, <1>2, <1>3, <2>1 DEF OneTurn, Answered, Fin
<1>7. looper' = <<>> => ~Answered'
  BY DEF Answered
<1>8. (TurnQueued' <=> TurnQueued) /\ (Running' <=> Running)
  BY <1>1 DEF TurnQueued, Running
<1>9. ~TurnQueued /\ turn.at # "prefill"
  BY <1>1, <1>4 DEF Stages
<1> HIDE DEF m
\* Before the reply, in front of it, and the reply itself.
<1>10. CASE Between
  <2>1. Calm /\ ~Painting /\ m.kind # "paint"
    BY <1>4, <1>5, <1>10 DEF Stages, Calm
  <2>2. ~Replied
    BY <1>10 DEF Between
  <2>3. m.kind # "out"
    <3> SUFFICES ASSUME m.kind = "out" PROVE FALSE
      OBVIOUS
    <3>1. Fin(m)
      BY DEF Fin
    <3>2. Last(looper) = m
      BY <1>2, <1>6, <3>1
    <3>. QED
      BY <1>1, <2>2, <3>1, <3>2 DEF Replied, Answered
  <2>4. ~Replied'
    BY <1>1, <1>2, <1>6, <1>7, <2>2 DEF Replied
  <2>5. Calm'
    <3>1. CASE LoadReturns(m)
      <4>1. messages' = messages /\ m.kind \notin {"new", "full"}
        BY <3>1 DEF LoadReturns
      <4>2. (Resetting' <=> Resetting) /\ ~Painting' /\ Visible' = Visible /\ Told' = Told
        BY <1>1, <1>5, <2>1, <4>1 DEF Visible, Told
      <4>. QED
        BY <1>1, <2>1, <4>2 DEF Calm
    <3>2. CASE ResetReturns(m)
      <4>1. log = <<>> /\ log' = <<>>
        BY <1>1, <1>5, <2>1, <3>2 DEF ResetReturns, Calm
      <4>2. Visible' = <<>>
        BY <4>1, TextTyped, EmptySeq DEF Visible
      <4>3. Told' = {<<>>}
        BY <1>1, <3>2, ToldNothing, ToldCleared DEF ResetReturns, Told, TypeOK
      <4>. QED
        BY <1>5, <2>1, <4>1, <4>2, <4>3 DEF Calm
    <3>. QED
      BY <1>1, <2>1, <2>3, <3>1, <3>2 DEF OutReturns, Painted
  <2>. QED
    BY <1>8, <1>10, <2>4, <2>5, Calms DEF Between
<1>11. CASE Running \/ Replied
  <2>1. ~Resetting /\ ~Resetting'
    <3>1. Running => turn.at \in {"check", "step"}
      BY <1>1, <1>9, TurnParts DEF Running
    <3>. QED
      BY <1>4, <1>5, <1>11, <3>1 DEF Stages
  <2>2. m.kind \notin {"loaded", "failed", "new", "full"}
    <3>1. m.kind \in {"loaded", "failed"} => Fin(m) /\ Last(looper) = m
      BY <1>2, <1>6 DEF Fin
    <3>2. m.kind \in {"loaded", "failed"} => Answered /\ ~Replied
      BY <1>1, <3>1 DEF Answered, Replied
    <3>. QED
      BY <1>3, <1>5, <1>11, <2>1, <3>2 DEF OneTurn
  <2>3. OutReturns(m) \/ Painted(m)
    BY <1>1, <2>2 DEF LoadReturns, ResetReturns
  <2>4. PICK r : ReplaceLast(r) /\ r = (IF m.kind = "paint" THEN Gemma(m.words) ELSE Notice("out"))
    BY <2>3 DEF OutReturns, Painted
  <2>5. /\ m.kind \in {"out", "paint"} /\ (m.kind = "paint" => m.words \in Seq(Words))
        /\ r \in ChatMsg
    <3>1. m.kind \in {"out", "paint"} /\ (m.kind = "paint" => m.words \in Seq(Words))
      BY <1>1, <2>3, Kinds DEF OutReturns, Painted
    <3>2. \A w \in Seq(Words) : Gemma(w) \in ChatMsg
      BY DEF Gemma, ChatMsg, Tokens
    <3>3. Notice("out") \in ChatMsg
      BY EmptySeq DEF Notice, ChatMsg
    <3>. QED
      BY <2>4, <3>1, <3>2, <3>3
  <2>6. ASSUME NEW base \in Seq(ChatMsg), NEW p \in Prompts, Placed(base, p)
        PROVE  messages' = Append(Append(base, User(p)), r)
    <3>1. PICK words \in Seq(Words) : messages = Append(Append(base, User(p)), Gemma(words))
      BY <2>6 DEF Placed
    <3>2. Gemma(words) \in ChatMsg
      BY DEF Gemma, ChatMsg, Tokens
    <3>3. messages # <<>> /\ Front(messages) = Append(base, User(p))
      BY <3>1, <3>2, Exchange
    <3>. QED
      BY <2>4, <3>3 DEF ReplaceLast
  <2>7. ASSUME NEW p \in Prompts, NEW words, Replying(p, words), ~Fin(m)
        PROVE  Replying(p, words)'
    <3>1. PICK base \in Seq(ChatMsg) : Placed(base, p)
                                       /\ \E v \in ToldBy(base) : Visible = (v \o PromptTokens[p]) \o words
      BY <2>7 DEF Replying
    <3>2. m.kind = "paint"
      BY <2>5, <2>7 DEF Fin
    <3>3. Placed(base, p)'
      BY <2>4, <2>5, <2>6, <3>1, <3>2 DEF Placed
    <3>. QED
      BY <1>1, <3>1, <3>3 DEF Replying, Visible
  <2>8. ASSUME NEW p \in Prompts, Cut(p), ~Fin(m)
        PROVE  Cut(p)'
    <3>1. PICK base \in Seq(ChatMsg) :
            /\ Placed(base, p)
            /\ \E v \in ToldBy(base), k \in 0..(Len(PromptTokens[p]) - 1) :
                 Visible = v \o SubSeq(PromptTokens[p], 1, k)
      BY <2>8 DEF Cut
    <3>2. m.kind = "paint"
      BY <2>5, <2>8 DEF Fin
    <3>3. Placed(base, p)'
      BY <2>4, <2>5, <2>6, <3>1, <3>2 DEF Placed
    <3>. QED
      BY <1>1, <3>1, <3>3 DEF Cut, Visible
  <2>9. CASE Running
    <3>1. ~Answered /\ ~Fin(m) /\ ~Answered' /\ ~Replied'
      <4>1. ~Answered
        BY <1>3, <2>9 DEF OneTurn
      <4>2. ~Fin(m)
        BY <1>1, <1>2, <1>6, <4>1 DEF Answered
      <4>. QED
        BY <1>6, <1>7, <4>1, <4>2 DEF Replied
    <3>2. turn.at \in {"check", "step"} /\ turn.prompt \in Prompts
      BY <1>1, <1>9, <2>9, TurnParts DEF Running, Busy
    <3>3. Replying(turn.prompt, turn.words)'
      <4>1. Replying(turn.prompt, turn.words)
        BY <1>4, <3>2 DEF Stages
      <4>2. PICK p \in Prompts, words \in Seq(Words) : p = turn.prompt /\ words = turn.words
        BY <1>1, <3>2, TurnParts
      <4>3. Replying(p, words)'
        BY <2>7, <3>1, <4>1, <4>2
      <4>. QED
        BY <1>1, <4>2, <4>3 DEF Replying
    <3>. QED
      BY <1>1, <1>8, <1>9, <2>1, <2>9, <3>1, <3>2, <3>3 DEF Stages, Between
  <2>10. CASE Replied /\ looper' # <<>>
    <3>1. ~Fin(m) /\ Replied' /\ Last(looper') = Last(looper)
      BY <1>2, <1>6, <2>10 DEF Replied
    <3>2. ~Running /\ ~Running' /\ ~TurnQueued'
      BY <1>3, <1>8, <1>9, <2>10 DEF OneTurn, Replied
    <3>3. Last(looper).kind = "paint" => \E p \in Prompts : Replying(p, Last(looper).words)'
      <4> SUFFICES ASSUME Last(looper).kind = "paint"
                   PROVE  \E p \in Prompts : Replying(p, Last(looper).words)'
        OBVIOUS
      <4>2. PICK p \in Prompts : Replying(p, Last(looper).words)
        BY <1>4, <2>10 DEF Stages
      <4>3. PICK words : words = Last(looper).words
        OBVIOUS
      <4>4. Replying(p, words)'
        BY <2>7, <3>1, <4>2, <4>3
      <4>. QED
        BY <3>1, <4>3, <4>4 DEF Replying
    <3>4. Last(looper).kind = "out" => \E p \in Prompts : Cut(p)'
      BY <1>4, <2>8, <2>10, <3>1 DEF Stages
    <3>. QED
      BY <2>1, <3>1, <3>2, <3>3, <3>4 DEF Stages, Between, Running
  <2>11. CASE Replied /\ looper' = <<>>
    <3>1. Last(looper) = m /\ ~Replied' /\ ~Running' /\ ~TurnQueued'
      BY <1>2, <1>3, <1>7, <1>8, <1>9, <2>11 DEF OneTurn, Replied
    <3>2. Visible' = Visible /\ Len(looper') = 0
      BY <1>1, <2>11 DEF Visible
    <3>3. Visible' \in Told'
      <4>1. CASE m.kind = "paint"
        <5>1. PICK p \in Prompts : Replying(p, m.words)
          BY <1>4, <2>11, <3>1, <4>1 DEF Stages
        <5>2. PICK base \in Seq(ChatMsg) :
                /\ Placed(base, p)
                /\ \E v \in ToldBy(base) : Visible = (v \o PromptTokens[p]) \o m.words
          BY <5>1 DEF Replying
        <5>3. r.who = "gemma" /\ r.text = m.words
          BY <2>4, <4>1 DEF Gemma
        <5>4. Told' = Then(Then(ToldBy(base), PromptTokens[p]), m.words)
          <6>1. ToldBy(Append(Append(base, User(p)), r)) = Then(Then(ToldBy(base), PromptTokens[p]), m.words)
            BY <2>5, <5>3, Exchange
          <6>2. messages' = Append(Append(base, User(p)), r)
            BY <2>6, <5>2
          <6>. QED
            BY <6>1, <6>2 DEF Told
        <5>. QED
          BY <3>2, <5>2, <5>4 DEF Then
      <4>2. CASE m.kind = "out"
        <5>1. PICK p \in Prompts : Cut(p)
          BY <1>4, <2>11, <3>1, <4>2 DEF Stages
        <5>2. PICK base \in Seq(ChatMsg) :
                /\ Placed(base, p)
                /\ \E v \in ToldBy(base), k \in 0..(Len(PromptTokens[p]) - 1) :
                     Visible = v \o SubSeq(PromptTokens[p], 1, k)
          BY <5>1 DEF Cut
        <5>3. r.who = "out"
          BY <2>4, <4>2 DEF Notice
        <5>4. Told' = ThenCut(ToldBy(base), PromptTokens[p])
          <6>1. ToldBy(Append(Append(base, User(p)), r)) = ThenCut(ToldBy(base), PromptTokens[p])
            BY <2>5, <5>3, Exchange
          <6>2. messages' = Append(Append(base, User(p)), r)
            BY <2>6, <5>2
          <6>. QED
            BY <6>1, <6>2 DEF Told
        <5>. QED
          <6>1. PICK v \in ToldBy(base), k \in 0..(Len(PromptTokens[p]) - 1) :
                  Visible = v \o SubSeq(PromptTokens[p], 1, k)
            BY <5>2
          <6>2. \A told, more, w, j : w \in told /\ j \in 0..(Len(more) - 1)
                                      => w \o SubSeq(more, 1, j) \in ThenCut(told, more)
            BY DEF ThenCut
          <6>. QED
            BY <3>2, <5>4, <6>1, <6>2
      <4>. QED
        BY <2>5, <4>1, <4>2
    <3>4. ~Painting' /\ ~Resetting'
      BY <3>2 DEF Painting, Resetting
    <3>5. Calm'
      BY <3>3, <3>4 DEF Calm
    <3>. QED
      BY <3>1, <3>5, Calms
  <2>. QED
    BY <1>11, <2>9, <2>10, <2>11
<1>. QED
  BY <1>9, <1>10, <1>11 DEF Between

\* A turn that is about to be fed, and the tokens that reach the cache.
LEMMA Feeds ==
  ASSUME IInv, InStep, Prefilled \/ PrefillFails
  PROVE  InStep'
<1>0. turn.at = "prefill" /\ UNCHANGED <<work, messages, cleared, raced>> /\ TypeOK
  BY DEF Prefilled, PrefillFails, ui, IInv
<1> SUFFICES ASSUME ~cleared, ~raced PROVE Stages'
  BY <1>0 DEF InStep
<1>a. turn \in Busy /\ Running /\ turn.words = <<>>
  BY <1>0, TurnParts DEF Running, IInv, Stops
<1>b. looper = <<>> /\ Waiting(turn.prompt)
  BY <1>0 DEF InStep, Stages
<1>c. PICK p \in Prompts : p = turn.prompt
  BY <1>a DEF Busy
<1>1. Waiting(p)
  BY <1>b, <1>c
<1>2. work = <<>> /\ ~Resetting
  <2>1. Len(looper) = 0
    BY <1>b
  <2>. QED
    BY <1>a, <2>1 DEF IInv, Queues, Resetting
<1>3. PICK base \in Seq(ChatMsg) : Placed(base, p) /\ Visible \in ToldBy(base)
  BY <1>1 DEF Waiting
<1>4. Placed(base, p)'
  BY <1>0, <1>3 DEF Placed
<1>5. PromptTokens[p] \in Seq(Tokens) /\ Visible \in Seq(Tokens)
  <2>1. PromptTokens[p] \in Seq(Tokens)
    BY ChatAssumption DEF Tokens
  <2>. QED
    BY <1>0, <2>1, TextTyped DEF TypeOK, Visible
<1>6. CASE Prefilled
  <2>1. /\ log' = log \o Ids(p) /\ turn' = [turn EXCEPT !.at = "check"] /\ looper' = looper
    BY <1>6, <1>c DEF Prefilled
  <2>2. Visible' = (Visible \o PromptTokens[p]) \o <<>>
    <3>1. Visible' = Visible \o PromptTokens[p]
      BY <1>0, <2>1, TextOfPrompt DEF Visible
    <3>. QED
      BY <1>5, <3>1
  <2>3. turn'.at = "check" /\ turn'.prompt = p /\ turn'.words = <<>>
    BY <1>a, <1>c, <2>1 DEF Busy
  <2>4. PICK q, words : q = p /\ words = <<>>
    OBVIOUS
  <2>5. Replying(q, words)'
    BY <1>3, <1>4, <2>2, <2>4 DEF Replying
  <2>6. Replying(turn.prompt, turn.words)'
    BY <2>3, <2>4, <2>5 DEF Replying
  <2>7. ~TurnQueued' /\ ~Replied' /\ ~Resetting' /\ Running'
    BY <1>0, <1>b, <1>2, <2>1, <2>3 DEF TurnQueued, Replied, Answered, Resetting, Running
  <2>. QED
    BY <2>3, <2>6, <2>7 DEF Stages, Between
<1>7. CASE PrefillFails
  <2>1. PICK k \in Fed(Ids(p)) : log' = log \o SubSeq(Ids(p), 1, k)
    BY <1>7, <1>c DEF PrefillFails
  <2>2. k \in 0..(Len(Ids(p)) - 1)
    BY <2>1 DEF Fed
  <2>3. PICK j \in 0..(Len(PromptTokens[p]) - 1) : Visible' = Visible \o SubSeq(PromptTokens[p], 1, j)
    BY <1>0, <2>1, <2>2, TextOfPrompt DEF Visible
  <2>4. Cut(p)'
    BY <1>3, <1>4, <2>3 DEF Cut
  <2> DEFINE m == [kind |-> "out", used |-> Len(log')]
  <2>5. Len(log') \in 0..MaxSeq
    BY <1>0, <2>1, FedTyped
  <2>6. m \in Posts /\ m.kind = "out" /\ Fin(m)
    BY <2>5, MakesPosts DEF Fin
  <2>7. Post(m) /\ turn' = Idle
    BY <1>7 DEF PrefillFails
  <2> HIDE DEF m
  <2>. QED
    BY <1>0, <1>a, <1>2, <2>4, <2>6, <2>7, TurnEnds
<1>. QED
  BY <1>6, <1>7

\* A turn that is being generated.
LEMMA Generates ==
  ASSUME IInv, InStep,
         \/ Check \/ StepNull \/ StepFails
         \/ \E t \in Ends : StepEnds(t)
         \/ \E t \in Words : StepWord(t)
  PROVE  InStep'
<1>0. turn.at \in {"check", "step"} /\ UNCHANGED <<work, messages, cleared, raced>> /\ TypeOK
  BY DEF ui, IInv, Check, StepNull, StepFails, StepEnds, StepWord
<1> SUFFICES ASSUME ~cleared, ~raced PROVE Stages'
  BY <1>0 DEF InStep
<1>a. turn \in Busy /\ Running
  BY <1>0, TurnParts DEF Running
<1>b. ~Resetting /\ Replying(turn.prompt, turn.words)
  BY <1>0 DEF InStep, Stages
<1>c. PICK p \in Prompts, words \in Seq(Words) : p = turn.prompt /\ words = turn.words
  BY <1>a DEF Busy
<1>1. Replying(p, words)
  BY <1>b, <1>c
<1>2. work = <<>> /\ ~Answered
  BY <1>a DEF IInv, Queues, OneTurn
<1>3. PICK base \in Seq(ChatMsg) :
        Placed(base, p) /\ \E v \in ToldBy(base) : Visible = (v \o PromptTokens[p]) \o words
  BY <1>1 DEF Replying
<1>4. Placed(base, p)'
  BY <1>0, <1>3 DEF Placed
<1>5. log \in Seq(Tokens) /\ Visible \in Seq(Tokens) /\ Len(log) \in 0..MaxSeq
  BY <1>0, LenProperties, TextTyped, ChatAssumption DEF TypeOK, Visible
\* The last post has the reply as it is.
<1>6. ASSUME NEW used \in 0..MaxSeq, EndTurn(words, used), Visible' = Visible PROVE Stages'
  <2> DEFINE m == Paint(words, used, TRUE)
  <2>1. m \in Posts /\ m.kind = "paint" /\ Fin(m) /\ m.words = words
    BY MakesPosts DEF Fin, Paint
  <2>2. Post(m) /\ turn' = Idle
    BY <1>6 DEF EndTurn
  <2> HIDE DEF m
  <2>3. Replying(p, m.words)'
    BY <1>3, <1>4, <1>6, <2>1 DEF Replying
  <2>. QED
    BY <1>0, <1>a, <1>b, <2>1, <2>2, <2>3, TurnEnds
<1>7. CASE Check
  <2>1. log' = log /\ Visible' = Visible
    BY <1>7 DEF Check, device, Visible
  <2>2. CASE stopRequested
    BY <1>c, <1>5, <1>6, <1>7, <2>1, <2>2 DEF Check
  <2>3. CASE ~stopRequested
    <3>1. turn' = [turn EXCEPT !.at = "step"] /\ looper' = looper
      BY <1>7, <2>3 DEF Check
    <3>2. turn'.at = "step" /\ turn'.prompt = p /\ turn'.words = words
      BY <1>a, <1>c, <3>1 DEF Busy
    <3>3. Replying(turn.prompt, turn.words)'
      BY <1>3, <1>4, <2>1, <3>2 DEF Replying
    <3>4. ~TurnQueued' /\ ~Replied' /\ ~Resetting' /\ Running'
      BY <1>0, <1>b, <1>2, <3>1, <3>2 DEF TurnQueued, Replied, Answered, Fin, Resetting, Running
    <3>. QED
      BY <3>2, <3>3, <3>4 DEF Stages, Between
  <2>. QED
    BY <2>2, <2>3
<1>8. CASE StepNull \/ StepFails
  <2>1. log' = log /\ Visible' = Visible
    BY <1>8 DEF StepNull, StepFails, Visible
  <2>. QED
    BY <1>c, <1>5, <1>6, <1>8, <2>1 DEF StepNull, StepFails
<1>9. ASSUME NEW t \in Ends, StepEnds(t) PROVE Stages'
  <2>1. log' = Append(log, t) /\ Len(log) < MaxSeq /\ t \in Tokens /\ t \notin Prompts \cup Words
    BY <1>9, ChatAssumption DEF StepEnds, Tokens
  <2>2. Visible' = Visible
    BY <1>5, <2>1, TextNext DEF Visible
  <2>3. Len(log') \in 0..MaxSeq
    <3>1. Len(log') = Len(log) + 1
      BY <1>5, <2>1, Appended
    <3>2. Len(log) \in Nat /\ Len(log) < MaxSeq /\ MaxSeq \in Nat
      BY <1>5, <2>1, ChatAssumption
    <3>. QED
      BY <3>1, <3>2
  <2>. QED
    BY <1>c, <1>6, <1>9, <2>2, <2>3 DEF StepEnds
<1>10. ASSUME NEW t \in Words, StepWord(t) PROVE Stages'
  <2>1. /\ log' = Append(log, t) /\ Len(log) < MaxSeq /\ t \in Tokens /\ t \in Prompts \cup Words
        /\ turn' = [turn EXCEPT !.at = "check", !.words = Append(@, t)]
    BY <1>10 DEF StepWord, Tokens
  <2>2. Visible' = Append(Visible, t)
    BY <1>5, <2>1, TextNext DEF Visible
  <2>3. turn'.at = "check" /\ turn'.prompt = p /\ turn'.words = Append(words, t)
    BY <1>a, <1>c, <2>1 DEF Busy
  <2>4. Replying(turn.prompt, turn.words)'
    <3>1. PICK v \in ToldBy(base) : Visible = (v \o PromptTokens[p]) \o words
      BY <1>3
    <3>2. PICK x : x = v \o PromptTokens[p]
      OBVIOUS
    <3>3. Append(x \o words, t) = x \o Append(words, t)
      OBVIOUS
    <3>. QED
      BY <1>4, <2>2, <2>3, <3>1, <3>2, <3>3 DEF Replying
  <2>5. ~Replied' /\ ~Resetting'
    <3>1. CASE looper' = looper
      BY <1>b, <1>2, <3>1 DEF Replied, Answered, Fin, Resetting
    <3>2. CASE looper' # looper
      <4> DEFINE m == Paint(turn'.words, Len(log'), FALSE)
      <4>1. looper' = Append(looper, m)
        BY <1>10, <3>2 DEF StepWord, Post
      <4>2. turn'.words \in Seq(Words) /\ Len(log') \in 0..MaxSeq
        <5>1. Len(log') = Len(log) + 1
          BY <1>5, <2>1, Appended
        <5>2. turn'.words \in Seq(Words)
          BY <2>3, Appended
        <5>3. Len(log) \in Nat /\ Len(log) < MaxSeq /\ MaxSeq \in Nat
          BY <1>5, <2>1, ChatAssumption
        <5>4. Len(log') \in 0..MaxSeq
          BY <5>1, <5>3
        <5>. QED
          BY <5>2, <5>4
      <4>3. m \in Posts /\ m.kind = "paint" /\ ~Fin(m)
        BY <4>2, MakesPosts DEF Fin
      <4> HIDE DEF m
      <4>. QED
        BY <1>0, <1>b, <4>1, <4>3, Posted DEF Replied
    <3>. QED
      BY <3>1, <3>2
  <2>6. ~TurnQueued' /\ Running'
    BY <1>0, <1>2, <2>3 DEF TurnQueued, Running
  <2>. QED
    BY <2>3, <2>4, <2>5, <2>6 DEF Stages, Between
<1>. QED
  BY <1>7, <1>8, <1>9, <1>10

\* Everything before the end of the turn, and what comes between turns.
LEMMA StepInStep == IInv /\ CInv /\ InStep /\ [Next]_vars => InStep'
<1> SUFFICES ASSUME IInv, CInv, InStep, [Next]_vars PROVE InStep'
  OBVIOUS
<1> USE DEF ui, device
<1>t. TypeOK
  BY DEF IInv
<1>1. CASE Load \/ NewChat
  BY <1>1, TapCalm, MakesTasks DEF Load, NewChat
<1>2. ASSUME NEW p \in Prompts, SendFull(p) \/ SendTurn(p) PROVE InStep'
  <2>1. SendFull(p) => InStep'
    BY TapCalm, MakesTasks DEF SendFull, Sendable
  <2>. QED
    BY <1>2, <2>1, Sends
<1>3. CASE Stop \/ UNCHANGED vars
  BY <1>3, StaysInStep DEF Stop, vars
<1>4. CASE OnCleared
  BY <1>4 DEF OnCleared, InStep
<1>5. CASE Looper
  BY <1>5, Runs
<1>6. CASE RunLoad
  <2> SUFFICES ASSUME ~cleared, ~raced PROVE Stages'
    BY <1>6 DEF RunLoad, InStep
  <2>1. work' = <<>> /\ ~Running /\ ~Answered /\ Len(work) = 1 /\ work[1].kind = "load"
    BY <1>6, TakesLast DEF RunLoad
  <2>2. Calm
    <3>1. ~TurnQueued
      BY <2>1 DEF TurnQueued, Last
    <3>. QED
      BY <2>1, <3>1 DEF InStep, Stages, Between, Replied
  <2>3. PICK m \in Posts : m.kind \in {"loaded", "failed"} /\ looper' = Append(looper, m)
    BY <1>6, MakesPosts DEF RunLoad, Post
  <2>4. Last(looper') = m /\ (Painting' <=> Painting) /\ (Resetting' <=> Resetting)
    BY <1>t, <2>3, Posted
  <2>5. ~TurnQueued' /\ ~Running' /\ ~Replied'
    BY <1>6, <2>1, <2>3, <2>4 DEF TurnQueued, Running, Replied, RunLoad
  <2>6. Calm'
    BY <1>6, <2>2, <2>4 DEF RunLoad, Calm, Visible, Told
  <2>. QED
    BY <2>5, <2>6, Calms
<1>7. CASE RunReset("new") \/ RunReset("full")
  <2> SUFFICES ASSUME ~cleared, ~raced PROVE Stages'
    BY <1>7 DEF RunReset, InStep
  <2>1. PICK k \in {"new", "full"} : RunReset(k)
    BY <1>7
  <2>2. /\ work # <<>> /\ work' = Tail(work) /\ Len(work) \in Nat \ {0} /\ work[1].kind = k
        /\ ~Running /\ looper' = Append(looper, Task(k)) /\ UNCHANGED <<messages, turn>>
        /\ Task(k) \in Posts /\ Task(k).kind = k
    <3>1. Takes(k) /\ Post(Task(k)) /\ UNCHANGED <<messages, turn>>
      BY <2>1 DEF RunReset
    <3>. QED
      BY <1>t, <3>1, TakesOld, MakesPosts DEF Takes, Post, Running
  <2>3. ~Answered
    BY <2>2 DEF IInv, Queues
  <2>4. ~TurnQueued
    <3>1. TurnQueued => Len(work) = 1 /\ work[1].kind = "turn"
      BY <2>2 DEF InStep, Stages, TurnQueued
    <3>. QED
      BY <2>2, <3>1
  <2>5. Calm
    BY <2>2, <2>3, <2>4 DEF InStep, Stages, Between, Replied
  <2>6. log' = <<>>
    <3>1. native = "open"
      <4>1. 1 \in 1..Len(work)
        BY <2>2
      <4>. QED
        BY <2>2, <4>1 DEF CInv, Loading, Opened
    <3>. QED
      BY <2>1, <3>1 DEF RunReset
  <2>7. /\ Last(looper') = Task(k) /\ ~Answered'
        /\ Resetting' /\ (Painting' <=> Painting)
    BY <1>t, <2>2, Posted DEF Fin
  <2>8. Calm'
    BY <2>5, <2>6, <2>7 DEF Calm
  <2>9. ~TurnQueued' /\ ~Running' /\ ~Replied'
    <3>1. work' # <<>> => Last(work') = Last(work)
      BY <1>t, <2>2, Taken DEF TypeOK
    <3>. QED
      BY <2>2, <2>4, <2>7, <3>1 DEF TurnQueued, Running, Replied
  <2>. QED
    BY <2>8, <2>9, Calms
<1>8. CASE BeginTurn
  <2> SUFFICES ASSUME ~cleared, ~raced PROVE Stages'
    BY <1>8 DEF BeginTurn, InStep
  <2>1. /\ work' = <<>> /\ ~Running /\ ~Answered /\ Len(work) = 1 /\ work[1].kind = "turn"
        /\ Head(work) = work[1] /\ UNCHANGED <<messages, log, looper>>
        /\ turn' = [at |-> "prefill", words |-> <<>>, prompt |-> work[1].prompt]
    BY <1>8, TakesLast DEF BeginTurn
  <2>2. TurnQueued /\ Last(work) = work[1]
    <3>1. work # <<>>
      BY <2>1, Len(<<>>) = 0
    <3>. QED
      BY <2>1, <3>1 DEF TurnQueued, Last
  <2>3. looper = <<>> /\ Waiting(work[1].prompt)
    BY <2>2 DEF InStep, Stages
  <2>4. PICK p : p = work[1].prompt
    OBVIOUS
  <2>5. Waiting(turn.prompt)'
    BY <2>1, <2>3, <2>4 DEF Waiting, Placed, Visible
  <2>6. looper' = <<>> /\ ~Replied' /\ ~TurnQueued' /\ Running' /\ turn'.at = "prefill"
    BY <2>1, <2>3 DEF Replied, Answered, TurnQueued, Running
  <2>. QED
    BY <2>5, <2>6 DEF Stages, Between
<1>9. CASE Prefilled \/ PrefillFails
  BY <1>9, Feeds
<1>10. CASE Check \/ StepNull \/ StepFails \/ (\E t \in Ends : StepEnds(t))
            \/ \E t \in Words : StepWord(t)
  BY <1>10, Generates
<1>11. CASE RunClose
  <2>1. cleared
    <3>1. work # <<>> /\ work[1].kind = "close" /\ Len(work) \in Nat \ {0}
      BY <1>11, <1>t, TakesOld DEF RunClose
    <3>. QED
      BY <3>1 DEF IInv, Queues
  <2>. QED
    BY <1>11, <2>1 DEF RunClose, InStep
<1>. QED
  BY <1>1, <1>2, <1>3, <1>4, <1>5, <1>6, <1>7, <1>8, <1>9, <1>10, <1>11
     DEF Next, Tap, Worker, Gone

\* As long as no message is sent while a reset is under way, the transcript on
\* screen is what the model is conditioned on, through failed prompts, stopped
\* and truncated replies, and resets.
THEOREM ConversationInSync == Spec => []InSyncUnlessRaced
<1>1. Init => CInv /\ InStep
  <2>1. Len(<<>>) = 0
    BY EmptySeq
  <2>2. Init => CInv
    BY <2>1 DEF Init, CInv, Loading, Opened, Counted, Ended, Running, Idle
  <2>3. ASSUME Init PROVE Stages
    <3>1. Visible = <<>> /\ Told = {<<>>}
      BY <2>3, TextTyped, ToldNothing, EmptySeq DEF Init, Visible, Told
    <3>2. ~Painting /\ ~Resetting
      BY <2>1, <2>3 DEF Init, Painting, Resetting
    <3>. QED
      BY <2>3, <3>1, <3>2 DEF Init, Stages, TurnQueued, Replied, Answered, Idle, Calm
  <2>. QED
    BY <2>2, <2>3 DEF InStep
<1>2. IInv /\ CInv /\ InStep => InSyncUnlessRaced
  <2> SUFFICES ASSUME CInv, InStep, ~raced, Quiet PROVE Visible \in Told
    BY DEF InSyncUnlessRaced, InSync
  <2>1. ~cleared
    <3>1. <<Task("close")>> # <<>>
      OBVIOUS
    <3>. QED
      BY <3>1 DEF CInv, Ended, Quiet
  <2>2. Len(looper) = 0
    BY EmptySeq DEF Quiet
  <2>. QED
    BY <2>1, <2>2 DEF Quiet, InStep, Stages, Between, TurnQueued, Running, Replied, Answered,
                      Calm, Resetting
<1>3. Spec => [](CInv /\ InStep)
  BY <1>1, StepCounted, StepInStep, Invariance, PTL DEF Spec
<1>. QED
  BY <1>2, <1>3, Invariance, PTL

=============================================================================
