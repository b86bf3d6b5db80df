----------------------------- MODULE TokenContext -----------------------------
(***************************************************************************)
(* What a decode session promises and what its callers owe it, with neither *)
(* KV cache nor network: a log of tokens and the distribution of the next   *)
(* one.  Feeding a prompt only extends the log; a turn is opened by a       *)
(* distribution conditioned on the whole log; a token is sampled only in an *)
(* open turn, and only from such a distribution; a reset empties the log.   *)
(***************************************************************************)
EXTENDS Integers, Sequences

CONSTANT Tokens

VARIABLES log,      \* the tokens of the conversation so far
          current,  \* the distribution at hand is the one conditioned on log
          open      \* a turn is open: its caller may sample

Init == log = <<>> /\ ~open /\ current \in BOOLEAN

\* Prefilling may append many tokens, or throw after some of them.
Feed ==
  /\ ~open
  /\ Len(log') >= Len(log) /\ \A i \in 1..Len(log) : log'[i] = log[i]
  /\ open' => current'

Sample ==
  /\ open /\ current
  /\ \E t \in Tokens : log' = Append(log, t)
  /\ open' => current'

Close  == log' = log /\ ~open'
Clear  == log' = <<>> /\ ~open'

Next == Feed \/ Sample \/ Close \/ Clear

Spec == Init /\ [][Next /\ current' \in BOOLEAN /\ open' \in BOOLEAN]_<<log, current, open>>
==============================================================================
