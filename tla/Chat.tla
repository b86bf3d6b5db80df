--------------------------------- MODULE Chat ---------------------------------
(***************************************************************************)
(* The chat application: ChatVM (ChatScreen.kt) on the UI thread, the       *)
(* single worker thread that owns the native session, and the JNI's         *)
(* ChatSession (llm_jni.cpp).  The UI thread queues tasks for the worker;   *)
(* the worker posts results to the main looper.  Both queues are FIFO.      *)
(*                                                                         *)
(* The native session is the token log that DecodeSession implements        *)
(* (TokenContext).  One native call is one step: nothing reads the log in   *)
(* the middle of one.                                                       *)
(***************************************************************************)
EXTENDS Integers, Sequences, SequencesExt

CONSTANTS
  MaxSeq,       \* maxSeq
  Prompts,      \* what users type
  PromptTokens, \* its tokens in Gemma's template, without BOS or newline
  Need,         \* send()'s estimate: prompt.length / 3 + 256
  Words,        \* tokens a reply consists of
  Ends,         \* <end_of_turn>, <eos>
  Bos, Nl,      \* what opens the first turn and every later one
  Faults,       \* "pass": a Vulkan call of a pass may throw
  MaxMessages,  \* bound on the transcript
  MaxQueue      \* bound on the tasks a user queues faster than they run

ASSUME ChatAssumption ==
  /\ MaxSeq \in Nat \ {0}
  /\ PromptTokens \in [Prompts -> Seq(Prompts) \ {<<>>}]
  /\ Need \in [Prompts -> Nat]
  /\ MaxMessages \in Nat /\ MaxQueue \in Nat
  /\ Bos \notin Prompts \cup Words \cup Ends \cup {Nl}
  /\ (Ends \cup {Nl}) \cap (Prompts \cup Words) = {}

Tokens == Prompts \cup Words \cup Ends \cup {Bos, Nl}

VARIABLES
  \* The native side.
  native,        \* "none", "open" between create() and destroy(), "closed"
  log,           \* the tokens behind position()
  current,       \* the logits on the device are those of the whole log
  done,          \* ChatSession::done
  \* ChatVM, read and written by the UI thread; llm # null is native = "open".
  messages, busy, loaded, ctxUsed, stopRequested,
  cleared,       \* onCleared() has run
  \* The two threads.
  work,          \* exec's queue
  looper,        \* coroutines dispatched to the main looper
  turn,          \* where the worker is in send()'s body, and the reply so far
  \* History, for the properties only.
  asked,         \* words the reply had at the STOP of this turn, or -1
  raced          \* a message was sent while a reset was under way

ui     == <<messages, busy, loaded, ctxUsed>>
device == <<log, current, done>>
vars   == <<native, device, ui, stopRequested, cleared, work, looper, turn, asked, raced>>

-----------------------------------------------------------------------------
Task(kind) == [kind |-> kind]
Idle       == [at |-> "idle", words |-> <<>>]

\* viewModelScope.launch from the worker: once the scope is cancelled nothing
\* posted to it runs.
Post(m) == looper' = IF cleared THEN looper ELSE Append(looper, m)

\* The post of a turn: what post(done) captures on the worker.
Paint(words, used, fin) == [kind |-> "paint", words |-> words, used |-> used, fin |-> fin]

User(p)      == [who |-> "user", text |-> PromptTokens[p]]
Gemma(words) == [who |-> "gemma", text |-> words]
Notice(what) == [who |-> what, text |-> <<>>]

\* messages.dropLast(1) + m
ReplaceLast(m) == messages' = Append(IF messages = <<>> THEN <<>> ELSE Front(messages), m)

InFlight(kinds) ==
  \/ \E i \in DOMAIN work : work[i].kind \in kinds
  \/ \E i \in DOMAIN looper : looper[i].kind \in kinds

Init ==
  /\ native = "none" /\ log = <<>> /\ current = FALSE /\ done = FALSE
  /\ messages = <<>> /\ busy = FALSE /\ loaded = FALSE /\ ctxUsed = 0
  /\ stopRequested = FALSE /\ cleared = FALSE
  /\ work = <<>> /\ looper = <<>> /\ turn = Idle
  /\ asked = -1 /\ raced = FALSE

-----------------------------------------------------------------------------
(* The UI thread: taps.                                                     *)

\* load()
Load ==
  /\ ~cleared /\ ~busy /\ ~loaded
  /\ busy' = TRUE
  /\ work' = Append(work, Task("load"))
  /\ UNCHANGED <<native, device, messages, loaded, ctxUsed, stopRequested, cleared,
                 looper, turn, asked, raced>>

\* Mutant of Sendable: a message may be sent during a turn.
SendableBusy ==
  ~cleared /\ native = "open" /\ loaded /\ Len(work) + Len(looper) < MaxQueue

\* send()'s early returns; the last conjunct is a bound of the model.
Sendable ==
  ~cleared /\ native = "open" /\ ~busy /\ loaded /\ Len(work) + Len(looper) < MaxQueue

\* send() with no room left for the message and a reply.
SendFull(p) ==
  /\ Sendable /\ ctxUsed + Need[p] > MaxSeq
  /\ Len(messages) + Len(work) + Len(looper) < MaxMessages
  /\ work' = Append(work, Task("full"))
  /\ UNCHANGED <<native, device, ui, stopRequested, cleared, looper, turn, asked, raced>>

\* send(): the message and the placeholder of its reply, then the turn.
SendTurn(p) ==
  /\ Sendable /\ ctxUsed + Need[p] <= MaxSeq
  /\ Len(messages) + Len(work) + Len(looper) + 2 <= MaxMessages
  /\ messages' = messages \o <<User(p), Gemma(<<>>)>>
  /\ busy' = TRUE
  /\ work' = Append(work, [kind |-> "turn", prompt |-> p])
  /\ asked' = -1
  /\ raced' = (raced \/ InFlight({"new", "full"}))
  /\ UNCHANGED <<native, device, loaded, ctxUsed, stopRequested, cleared, looper, turn>>

\* stop(): the button is STOP while a turn is under way.
Stop ==
  /\ ~cleared /\ busy /\ loaded
  /\ stopRequested' = TRUE
  /\ asked' = IF stopRequested /\ asked >= 0 THEN asked ELSE Len(turn.words)
  /\ UNCHANGED <<native, device, ui, cleared, work, looper, turn, raced>>

\* Mutant of NewChat: without `if (busy) return`.
NewChatBusy ==
  /\ ~cleared /\ loaded /\ Len(work) + Len(looper) < MaxQueue
  /\ work' = Append(work, Task("new"))
  /\ UNCHANGED <<native, device, ui, stopRequested, cleared, looper, turn, asked, raced>>

\* newChat()
NewChat ==
  /\ ~cleared /\ loaded /\ ~busy /\ Len(work) + Len(looper) < MaxQueue
  /\ work' = Append(work, Task("new"))
  /\ UNCHANGED <<native, device, ui, stopRequested, cleared, looper, turn, asked, raced>>

\* Mutant of OnCleared: the session is closed on the UI thread.
OnClearedAtOnce ==
  /\ ~cleared
  /\ cleared' = TRUE /\ work' = <<>> /\ looper' = <<>>
  /\ native' = IF native = "open" THEN "closed" ELSE native
  /\ UNCHANGED <<device, ui, stopRequested, turn, asked, raced>>

\* Mutant of OnCleared: shutdownNow() drops the queued close.
OnClearedNow ==
  /\ ~cleared
  /\ cleared' = TRUE /\ work' = <<>> /\ looper' = <<>>
  /\ UNCHANGED <<native, device, ui, stopRequested, turn, asked, raced>>

\* onCleared(): the scope is cancelled first, so queued bodies and posts do
\* not run any more; a turn the worker has begun does, to its end.
OnCleared ==
  /\ ~cleared
  /\ cleared' = TRUE /\ work' = <<Task("close")>> /\ looper' = <<>>
  /\ UNCHANGED <<native, device, ui, stopRequested, turn, asked, raced>>

-----------------------------------------------------------------------------
(* The UI thread: what the worker posted.                                   *)

\* The continuation of load(); it reads deviceName(), weightMiB(), kvMiB()
\* and maxSeq() of the session on this thread.
LoadReturns(m) ==
  /\ m.kind \in {"loaded", "failed"}
  /\ loaded' = (m.kind = "loaded")
  /\ busy' = FALSE
  /\ UNCHANGED <<messages, ctxUsed>>

\* The continuations of newChat() and of send()'s reset.
ResetReturns(m) ==
  /\ m.kind \in {"new", "full"}
  /\ ctxUsed' = 0
  /\ messages' = IF m.kind = "new" THEN <<>> ELSE Append(messages, Notice("cleared"))
  /\ UNCHANGED <<busy, loaded>>

\* Mutant of OutReturns: busy stays set.
OutReturnsBusy(m) ==
  /\ m.kind = "out"
  /\ ctxUsed' = m.used
  /\ ReplaceLast(Notice("out"))
  /\ UNCHANGED <<busy, loaded>>

\* What a failed prefill() posts; it reads maxSeq() on this thread.
OutReturns(m) ==
  /\ m.kind = "out"
  /\ ctxUsed' = m.used
  /\ ReplaceLast(Notice("out"))
  /\ busy' = FALSE
  /\ UNCHANGED loaded

\* What post(done) posts.
Painted(m) ==
  /\ m.kind = "paint"
  /\ ctxUsed' = m.used
  /\ ReplaceLast(Gemma(m.words))
  /\ busy' = (busy /\ ~m.fin)
  /\ UNCHANGED loaded

Looper ==
  /\ ~cleared /\ looper # <<>>
  /\ looper' = Tail(looper)
  /\ LET m == Head(looper)
     IN  LoadReturns(m) \/ ResetReturns(m) \/ OutReturns(m) \/ Painted(m)
  /\ UNCHANGED <<native, device, stopRequested, cleared, work, turn, asked, raced>>

-----------------------------------------------------------------------------
(* The worker.                                                              *)

Takes(kind) == turn.at = "idle" /\ work # <<>> /\ Head(work).kind = kind /\ work' = Tail(work)

\* load()'s body: create() loads the weights, or returns 0.
RunLoad ==
  /\ Takes("load")
  /\ \/ native' = "open" /\ Post(Task("loaded"))
     \/ native' = native /\ Post(Task("failed"))
  /\ UNCHANGED <<device, ui, stopRequested, cleared, turn, asked, raced>>

\* llm?.reset() for newChat() or for a full context.
RunReset(kind) ==
  /\ Takes(kind)
  /\ IF native = "open" THEN log' = <<>> /\ done' = FALSE /\ current' = FALSE
                        ELSE UNCHANGED device
  /\ Post(Task(kind))
  /\ UNCHANGED <<native, ui, stopRequested, cleared, turn, asked, raced>>

BeginTurn ==
  /\ Takes("turn")
  /\ turn' = [at |-> "prefill", words |-> <<>>, prompt |-> Head(work).prompt]
  /\ UNCHANGED <<native, device, ui, stopRequested, cleared, looper, asked, raced>>

\* Mutant of Ids: BOS on every turn, as before it was fixed.
IdsBosAlways(p) == <<Bos>> \o PromptTokens[p]

\* The prompt in the chat template; BOS once, the newline on later turns.
Ids(p) == (IF log = <<>> THEN <<Bos>> ELSE <<Nl>>) \o PromptTokens[p]

\* Mutant of Prefilled: the position is not checked against max_seq.
PrefilledUnbounded ==
  /\ turn.at = "prefill"
  /\ log' = log \o Ids(turn.prompt)
  /\ current' = TRUE /\ done' = FALSE
  /\ stopRequested' = FALSE
  /\ turn' = [turn EXCEPT !.at = "check"]
  /\ UNCHANGED <<native, ui, cleared, work, looper, asked, raced>>

\* Mutant of Prefilled: without `stopRequested = false`.
PrefilledKeepsStop ==
  /\ turn.at = "prefill" /\ Len(log) + Len(Ids(turn.prompt)) <= MaxSeq
  /\ log' = log \o Ids(turn.prompt)
  /\ current' = TRUE /\ done' = FALSE
  /\ turn' = [turn EXCEPT !.at = "check"]
  /\ UNCHANGED <<native, ui, stopRequested, cleared, work, looper, asked, raced>>

\* prefill() returns the prompt's length; the token loop may start.
Prefilled ==
  /\ turn.at = "prefill" /\ Len(log) + Len(Ids(turn.prompt)) <= MaxSeq
  /\ log' = log \o Ids(turn.prompt)
  /\ current' = TRUE /\ done' = FALSE
  /\ stopRequested' = FALSE
  /\ turn' = [turn EXCEPT !.at = "check"]
  /\ UNCHANGED <<native, ui, cleared, work, looper, asked, raced>>

\* How many tokens of the prompt a prefill() that throws has fed: those that
\* fit, or those before the pass that failed.
Fed(ids) ==
  {k \in 0..(Len(ids) - 1) :
     \/ Len(log) + k = MaxSeq
     \/ "pass" \in Faults /\ Len(log) + k < MaxSeq}

\* Mutant of PrefillFails: the -1 is ignored and the loop runs.
PrefillFailsUnseen ==
  /\ turn.at = "prefill"
  /\ \E k \in Fed(Ids(turn.prompt)) : log' = log \o SubSeq(Ids(turn.prompt), 1, k)
  /\ current' = FALSE
  /\ turn' = [turn EXCEPT !.at = "check"]
  /\ UNCHANGED <<native, done, ui, stopRequested, cleared, work, looper, asked, raced>>

\* prefill() returns -1 and the turn is over.  The logits are older than the
\* log, or those of the last pass, which failed after it wrote them.
PrefillFails ==
  /\ turn.at = "prefill"
  /\ \E k \in Fed(Ids(turn.prompt)) : log' = log \o SubSeq(Ids(turn.prompt), 1, k)
  /\ current' \in {current /\ log' = log, FALSE}
  /\ Post([kind |-> "out", used |-> Len(log')])
  /\ turn' = Idle
  /\ UNCHANGED <<native, done, ui, stopRequested, cleared, work, asked, raced>>

\* Mutant of EndTurn: the last post has the position of the last repaint.
EndTurnStale(words, used) == Post(Paint(words, ctxUsed, TRUE)) /\ turn' = Idle

\* The loop ends and post(true) reads the position once more.
EndTurn(words, used) == Post(Paint(words, used, TRUE)) /\ turn' = Idle

\* Mutant of Check: the flag is read once, before the first piece.
CheckOnce ==
  /\ turn.at = "check"
  /\ IF stopRequested /\ turn.words = <<>> THEN EndTurn(<<>>, Len(log))
                      ELSE turn' = [turn EXCEPT !.at = "step"] /\ UNCHANGED looper
  /\ UNCHANGED <<native, device, ui, stopRequested, cleared, work, asked, raced>>

\* if (stopRequested) break
Check ==
  /\ turn.at = "check"
  /\ IF stopRequested THEN EndTurn(turn.words, Len(log))
                      ELSE turn' = [turn EXCEPT !.at = "step"] /\ UNCHANGED looper
  /\ UNCHANGED <<native, device, ui, stopRequested, cleared, work, asked, raced>>

\* step() returns null without a pass: the last piece is out, or the cache is
\* full, which throws.
StepNull ==
  /\ turn.at = "step" /\ (done \/ Len(log) >= MaxSeq)
  /\ done' = TRUE
  /\ EndTurn(turn.words, Len(log))
  /\ UNCHANGED <<native, log, current, ui, stopRequested, cleared, work, asked, raced>>

\* step() returns null because the pass of the sampled token threw.
StepFails ==
  /\ turn.at = "step" /\ ~done /\ Len(log) < MaxSeq /\ "pass" \in Faults
  /\ done' = TRUE
  /\ current' \in {current, FALSE}
  /\ EndTurn(turn.words, Len(log))
  /\ UNCHANGED <<native, log, ui, stopRequested, cleared, work, asked, raced>>

\* step() returns null because the model ended its turn.
StepEnds(t) ==
  /\ turn.at = "step" /\ ~done /\ Len(log) < MaxSeq
  /\ log' = Append(log, t) /\ current' = TRUE /\ done' = TRUE
  /\ EndTurn(turn.words, Len(log'))
  /\ UNCHANGED <<native, ui, stopRequested, cleared, work, asked, raced>>

\* Mutant of StepWord: runs the network first, on the last token it had.
StepWordSwapped(t) ==
  /\ turn.at = "step" /\ ~done /\ Len(log) < MaxSeq
  /\ log' = Append(log, Last(log)) /\ current' = TRUE /\ done' = (Len(log') + 1 >= MaxSeq)
  /\ turn' = [turn EXCEPT !.at = "check", !.words = Append(@, t)]
  /\ Post(Paint(turn'.words, Len(log'), FALSE)) \/ UNCHANGED looper
  /\ UNCHANGED <<native, ui, stopRequested, cleared, work, asked, raced>>

\* step() returns a piece; the screen is repainted if 33 ms have passed.
StepWord(t) ==
  /\ turn.at = "step" /\ ~done /\ Len(log) < MaxSeq
  /\ log' = Append(log, t) /\ current' = TRUE /\ done' = (Len(log') + 1 >= MaxSeq)
  /\ turn' = [turn EXCEPT !.at = "check", !.words = Append(@, t)]
  /\ Post(Paint(turn'.words, Len(log'), FALSE)) \/ UNCHANGED looper
  /\ UNCHANGED <<native, ui, stopRequested, cleared, work, asked, raced>>

\* llm?.close()
RunClose ==
  /\ Takes("close")
  /\ native' = IF native = "open" THEN "closed" ELSE native
  /\ UNCHANGED <<device, ui, stopRequested, cleared, looper, turn, asked, raced>>

Worker ==
  \/ RunLoad \/ RunReset("new") \/ RunReset("full") \/ BeginTurn
  \/ Prefilled \/ PrefillFails \/ Check \/ StepNull \/ StepFails
  \/ \E t \in Ends : StepEnds(t)
  \/ \E t \in Words : StepWord(t)
  \/ RunClose

Tap ==
  \/ Load \/ Stop \/ NewChat \/ OnCleared
  \/ \E p \in Prompts : SendFull(p) \/ SendTurn(p)

\* The view model is gone and the executor has drained: the end.
Gone == cleared /\ work = <<>> /\ turn = Idle /\ UNCHANGED vars

Next == Tap \/ Looper \/ Worker \/ Gone

Spec == Init /\ [][Next]_vars

\* The worker thread and the main looper keep running what they are given.
FairSpec == Spec /\ WF_vars(Worker) /\ WF_vars(Looper)

-----------------------------------------------------------------------------
(* Properties.                                                              *)

Tasks ==
  [kind : {"load", "new", "full", "close"}] \cup [kind : {"turn"}, prompt : Prompts]

Posts ==
  [kind : {"loaded", "failed", "new", "full"}]
    \cup [kind : {"out"}, used : 0..MaxSeq]
    \cup [kind : {"paint"}, words : Seq(Words), used : 0..MaxSeq, fin : BOOLEAN]

ChatMsg == [who : {"user", "gemma", "out", "cleared"}, text : Seq(Tokens)]

Turns ==
  {Idle} \cup [at : {"prefill", "check", "step"}, words : Seq(Words), prompt : Prompts]

\* Every variable stays in its type, and the positions within the context.
TypeOK ==
  /\ native \in {"none", "open", "closed"}
  /\ log \in Seq(Tokens) /\ Len(log) <= MaxSeq
  /\ current \in BOOLEAN /\ done \in BOOLEAN
  /\ messages \in Seq(ChatMsg)
  /\ busy \in BOOLEAN /\ loaded \in BOOLEAN /\ ctxUsed \in 0..MaxSeq
  /\ stopRequested \in BOOLEAN /\ cleared \in BOOLEAN
  /\ work \in Seq(Tasks) /\ looper \in Seq(Posts) /\ turn \in Turns
  /\ asked \in Nat \cup {-1} /\ raced \in BOOLEAN

\* The session is used as DecodeSession demands: no step() after a prefill()
\* that failed, every token sampled from the logits of the whole log.
Context == INSTANCE TokenContext WITH open <- turn.at \in {"check", "step"}

KeepsContract == Context!Spec

Running == turn.at # "idle"

\* While a turn is on the worker the native session exists: no call comes
\* before create() or after destroy(), also when the view model is cleared in
\* the middle of a turn.
CallsOpenSession == Running => native = "open"

Fin(m) == m.kind \in {"loaded", "failed", "out"} \/ (m.kind = "paint" /\ m.fin)

Queued   == work # <<>> /\ Last(work).kind \in {"load", "turn"}
Answered == looper # <<>> /\ Fin(Last(looper))

\* busy is a lock: it is set exactly while one load or turn is queued, running
\* or answered but not shown, and everything else in the queues is ahead of
\* that one.  So two turns never overlap, and no result of one turn is shown
\* in the next.
OneTurn ==
  /\ busy <=> Queued \/ Running \/ Answered
  /\ ~(Queued /\ Running) /\ ~(Queued /\ Answered) /\ ~(Running /\ Answered)
  /\ \A i \in 1..(Len(work) - 1) : work[i].kind \in {"new", "full"}
  /\ \A i \in 1..(Len(looper) - 1) : ~Fin(looper[i])

BusyIsOneTurn == ~cleared => OneTurn

\* The UI thread reads the session only while the worker has nothing to do
\* with it, although the session belongs to the worker's thread.
ReadsAlone ==
  ~cleared /\ looper # <<>> /\ Head(looper).kind \in {"loaded", "out"}
    => ~Running /\ work = <<>>

\* A STOP left over from an earlier turn does not cut this one short.
NoStaleStop == turn.at \in {"check", "step"} /\ stopRequested => asked >= 0

\* A STOP that is not lost ends the turn: at most the piece being generated
\* is added to the reply.
StopSoon == stopRequested /\ Running => Len(turn.words) <= asked + 1

\* stop()'s comment: "Interrupt generation".
StopInterrupts == asked >= 0 => Len(turn.words) <= asked + 1

\* Nothing is queued, running or waiting to be shown.
Quiet == work = <<>> /\ looper = <<>> /\ turn.at = "idle" /\ native = "open"

\* The counter on screen, which the guard of send() relies on, is the number
\* of positions used whenever nothing is under way.
CounterTrue == Quiet => ctxUsed = Len(log)

\* BOS opens the conversation and never occurs inside it.
OneBos == \A i \in DOMAIN log : log[i] = Bos <=> i = 1

\* The tokens of a log that a user sees as text.
TextOf(tokens) ==
  LET seen[i \in 0..Len(tokens)] ==
        IF i = 0 THEN <<>>
        ELSE IF tokens[i] \in Prompts \cup Words THEN Append(seen[i - 1], tokens[i])
        ELSE seen[i - 1]
  IN  seen[Len(tokens)]

Visible == TextOf(log)

\* What the model has been told if a transcript is right: the text since the
\* last notice that the history was cleared.  Of a message that did not fit
\* only some beginning was fed.
ToldBy(transcript) ==
  LET told[i \in 0..Len(transcript)] ==
        IF i = 0 THEN {<<>>}
        ELSE IF transcript[i].who = "cleared" THEN {<<>>}
        ELSE IF transcript[i].who = "out" /\ i > 1
        THEN {s \o SubSeq(transcript[i - 1].text, 1, k) :
                s \in told[i - 2], k \in 0..(Len(transcript[i - 1].text) - 1)}
        ELSE {s \o transcript[i].text : s \in told[i - 1]}
  IN  told[Len(transcript)]

Told == ToldBy(messages)

\* stop()'s comment: the visible conversation is the one the model is
\* conditioned on, whenever nothing is under way.
InSync == Quiet => Visible \in Told

\* The same as long as no message was sent while a reset was under way:
\* through failed prompts, stopped and truncated replies, and resets.
InSyncUnlessRaced == ~raced => InSync

\* Every load and every turn ends, or the view model is gone.
TurnsEnd == busy ~> (~busy \/ cleared)

\* The session is destroyed once the view model is cleared.
Released == (cleared /\ native = "open") ~> (native = "closed")
===============================================================================
