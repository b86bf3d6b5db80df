----------------------------- MODULE Tokenizer -----------------------------
(***************************************************************************)
(* The SentencePiece tokenizer: encode() takes the special tokens out of a  *)
(* text and runs the merge loop on what is between them, with a queue whose *)
(* stale entries are skipped and never removed; decode() turns the tokens   *)
(* back into text.  One action per pop of the queue.                        *)
(*                                                                          *)
(* A text is a sequence of bytes, of which only what the code tells apart   *)
(* matters: the space, the first bytes of characters of two, three and four *)
(* bytes, and the rest.  An id is a position in the vocabulary, from 1.     *)
(***************************************************************************)
EXTENDS Integers, SequencesExt

CONSTANTS Vocabs,      \* [tokens, prefix, bos, eos, unk]
          Texts

\* Texts, vocabularies and the spellings of tokens are sequences.
ASSUME TokenizerAssumption ==
  /\ \A t \in Texts : t \in Seq(ToSet(t))
  /\ \A v \in Vocabs :
       /\ v.tokens \in Seq(ToSet(v.tokens))
       /\ \A i \in DOMAIN v.tokens : v.tokens[i].text \in Seq(ToSet(v.tokens[i].text))

VARIABLES vocab,       \* the tokenizer
          text,        \* the argument of encode()
          at,          \* frag_start
          norm,        \* the fragment, normalised
          syms,        \* its symbols, a linked list
          work,        \* the bigrams in the queue
          out,         \* the ids
          back,        \* decode()'s answer
          phase        \* "scan", "merge", "encoded", "decoded"

tvars == <<vocab, text, at, norm, syms, work, out, back, phase>>

Space == "sp"
Marker == <<"m1", "m2", "m3">>        \* U+2581

\* utf8_len, by the first byte; a byte that starts no character counts as one.
Leads == [lead2 |-> 2, lead3 |-> 3, lead4 |-> 4]
Utf8Len(c) == IF c \in DOMAIN Leads THEN Leads[c] ELSE IF c = Marker[1] THEN 3 ELSE 1

-----------------------------------------------------------------------------
(* build_indices.                                                           *)

Tokens == vocab.tokens

\* token_to_id_: of equal spellings the first; 0 is none.
IdFor(s) == LET ids == {i \in DOMAIN Tokens : Tokens[i].text = s}
            IN  IF ids = {} THEN 0 ELSE Min(ids)

\* byte_to_id_: the last token spelled for that byte.
ByteId(c) == LET ids == {i \in DOMAIN Tokens : /\ Tokens[i].type = "BYTE"
                                               /\ Tokens[i].text = <<"<0x", c, ">">>}
             IN  IF ids = {} THEN 0 ELSE Max(ids)

Special(id) == Tokens[id].type \in {"CONTROL", "UNKNOWN"}
SpecialLengths == {Len(Tokens[i].text) : i \in {j \in DOMAIN Tokens : Special(j)}} \ {0}

-----------------------------------------------------------------------------
(* encode.                                                                  *)

\* The lengths at which a special token starts at byte i.
SpecialsAt(i) == {n \in SpecialLengths :
                    /\ n <= Len(text) - i + 1
                    /\ LET id == IdFor(SubSeq(text, i, i + n - 1))
                       IN  id # 0 /\ Special(id)}

\* Where the next special token starts, the end of the text if none does.
Hit == LET hits == {i \in at..Len(text) : SpecialsAt(i) # {}}
       IN  IF hits = {} THEN Len(text) + 1 ELSE Min(hits)
HitLength == IF Hit > Len(text) THEN 0 ELSE Max(SpecialsAt(Hit))

Normalise(raw) ==
  IF raw = <<>> THEN <<>>
  ELSE (IF vocab.prefix THEN Marker ELSE <<>>)
         \o FlattenSeq([i \in DOMAIN raw |-> IF raw[i] = Space THEN Marker ELSE <<raw[i]>>])

\* Where the characters of s start; a truncated last one ends with s.
Starts(s) ==
  LET next[i \in 1..(Len(s) + 4)] ==
        IF i > Len(s) THEN <<>> ELSE <<i>> \o next[i + Utf8Len(s[i])]
  IN  next[1]

Split(s) ==
  LET starts == Starts(s) k == Len(starts)
  IN  [i \in 1..k |->
         [prev |-> i - 1, next |-> IF i = k THEN 0 ELSE i + 1, start |-> starts[i],
          n |-> (IF i = k THEN Len(s) + 1 ELSE starts[i + 1]) - starts[i]]]

\* The text of two neighbours, and try_add: a bigram for it if it is a token.
Joined(s, ss, l, r) == SubSeq(s, ss[l].start, ss[l].start + ss[l].n + ss[r].n - 1)

TryAdd(s, ss, l, r) ==
  IF l = 0 \/ r = 0 \/ IdFor(Joined(s, ss, l, r)) = 0 THEN {}
  ELSE {[left |-> l, right |-> r, score |-> Tokens[IdFor(Joined(s, ss, l, r))].score,
         size |-> ss[l].n + ss[r].n]}

\* BigramLess: a is merged later than b.
Less(a, b) == a.score < b.score \/ (a.score = b.score /\ a.left > b.left)

TokenizerInit ==
  /\ vocab \in Vocabs /\ text \in Texts
  /\ at = 1 /\ norm = <<>> /\ syms = <<>> /\ work = {}
  /\ out = IF vocab.bos = 0 THEN <<>> ELSE <<vocab.bos>>
  /\ back = <<>> /\ phase = "scan"

\* Up to the next special token; the fragment's characters and their pairs.
Scan == /\ phase = "scan"
        /\ norm' = Normalise(SubSeq(text, at, Hit - 1))
        /\ syms' = Split(norm')
        /\ work' = UNION {TryAdd(norm', syms', i - 1, i) : i \in 2..Len(syms')}
        /\ phase' = "merge"
        /\ UNCHANGED <<vocab, text, at, out, back>>

\* Mutant of Stale: trusts the sizes alone.
StaleBySize(b) == syms[b.left].n + syms[b.right].n # b.size

Stale(b) == \/ syms[b.left].n = 0 \/ syms[b.right].n = 0
            \/ syms[b.left].n + syms[b.right].n # b.size

Merged(b) ==
  LET l == syms[b.left] r == syms[b.right]
      joined == [syms EXCEPT ![b.left].n = l.n + r.n, ![b.left].next = r.next,
                             ![b.right].n = 0]
  IN  IF r.next = 0 THEN joined ELSE [joined EXCEPT ![r.next].prev = b.left]

\* One turn of the merge loop.
Pop == /\ phase = "merge"
       /\ \E b \in work :
            /\ \A c \in work : ~Less(b, c)
            /\ IF Stale(b) THEN syms' = syms /\ work' = work \ {b}
               ELSE /\ syms' = Merged(b)
                    /\ work' = (work \ {b})
                         \cup TryAdd(norm, syms', syms'[b.left].prev, b.left)
                         \cup TryAdd(norm, syms', b.left, syms'[b.left].next)
       /\ UNCHANGED <<vocab, text, at, norm, out, back, phase>>

\* A symbol's token, or a token for each of its bytes, or the unknown one, or
\* nothing.  (rev_merge holds only texts that are tokens: it is never asked.)
Emitted(s) ==
  IF IdFor(s) # 0 THEN <<IdFor(s)>>
  ELSE FlattenSeq([j \in DOMAIN s |->
         IF ByteId(s[j]) # 0 THEN <<ByteId(s[j])>>
         ELSE IF vocab.unk # 0 THEN <<vocab.unk>> ELSE <<>>])

\* The symbols' tokens along the list, from symbol i on.
Emission ==
  LET from[i \in 0..Len(syms)] ==
        IF i = 0 THEN <<>>
        ELSE (IF syms[i].n = 0 THEN <<>>
              ELSE Emitted(SubSeq(norm, syms[i].start, syms[i].start + syms[i].n - 1)))
             \o from[syms[i].next]
  IN  IF syms = <<>> THEN <<>> ELSE from[1]

\* The fragment's tokens, then the special one that ends it, or the end.
Emit == /\ phase = "merge" /\ work = {}
        /\ LET over == Hit > Len(text)
               last == IF ~over THEN <<IdFor(SubSeq(text, Hit, Hit + HitLength - 1))>>
                       ELSE IF vocab.eos = 0 THEN <<>> ELSE <<vocab.eos>>
           IN  /\ out' = out \o Emission \o last
               /\ at' = Hit + HitLength
               /\ phase' = IF over THEN "encoded" ELSE "scan"
        /\ UNCHANGED <<vocab, text, norm, syms, work, back>>

-----------------------------------------------------------------------------
(* decode, with skip_special.                                               *)

\* decode_one: a byte token is its byte, a marker a space.
Piece(id) ==
  LET s == Tokens[id].text
      from[i \in 1..(Len(s) + 3)] ==
        IF i > Len(s) THEN <<>>
        ELSE IF i + 2 <= Len(s) /\ SubSeq(s, i, i + 2) = Marker
             THEN <<Space>> \o from[i + 3]
        ELSE <<s[i]>> \o from[i + 1]
  IN  IF Tokens[id].type = "BYTE" THEN <<s[2]>> ELSE from[1]

\* Mutant of Decoded: the encoder's space stays.
DecodedUnstripped(ids) ==
  FlattenSeq([i \in DOMAIN ids |-> IF Special(ids[i]) THEN <<>> ELSE Piece(ids[i])])

\* Special tokens are left out.  Of the first piece that is text, one leading
\* space is the encoder's own.
Decoded(ids) ==
  LET stripped(p) == IF vocab.prefix /\ p # <<>> /\ p[1] = Space THEN Tail(p) ELSE p
      first(i) == \A j \in 1..(i - 1) : Special(ids[j])
  IN  FlattenSeq([i \in DOMAIN ids |->
                    IF Special(ids[i]) THEN <<>>
                    ELSE IF first(i) THEN stripped(Piece(ids[i])) ELSE Piece(ids[i])])

Decode == /\ phase = "encoded"
          /\ back' = Decoded(out)
          /\ phase' = "decoded"
          /\ UNCHANGED <<vocab, text, at, norm, syms, work, out>>

TokenizerNext == Scan \/ Pop \/ Emit \/ Decode

-----------------------------------------------------------------------------
(* What holds.                                                              *)

\* The neighbours that make a token, as the symbols are now.
Mergeable(ss) == UNION {TryAdd(norm, ss, i, ss[i].next) :
                          i \in {j \in DOMAIN ss : ss[j].n > 0}}

\* Every merge joins the two neighbours whose token has the highest score of
\* all that could be joined then, the leftmost of equals, although the queue
\* is never cleaned; and nothing is emitted while two neighbours could still be
\* joined (tokenize_fragment).
MergesBest ==
  [][/\ phase = "merge" /\ syms' # syms =>
          \E b \in Mergeable(syms) : /\ syms' = Merged(b)
                                     /\ \A c \in Mergeable(syms) : ~Less(b, c)
     /\ phase = "merge" /\ phase' # "merge" => Mergeable(syms) = {}]_tvars

\* A text of whole characters without special tokens, without a marker of its
\* own and without the opening of a byte token ("<0x", one letter here).
PlainText == /\ \A i \in DOMAIN text : /\ text[i] \notin {Marker[1], "<0x"}
                                        /\ SpecialsAt(i) = {}
             /\ LET starts == ToSet(Starts(text))
                IN  \A i \in DOMAIN text :
                      /\ i \notin starts <=> text[i] = "cont"
                      /\ i + Utf8Len(text[i]) - 1 <= Len(text)

\* A vocabulary that has the marker and a token for each of its bytes, byte
\* tokens spelled as such, no special token with a marker in it, and special
\* ones to begin and to end a text.
PlainVocab ==
  /\ IdFor(Marker) # 0 /\ \A i \in DOMAIN text : ByteId(text[i]) # 0 \/ text[i] = Space
  /\ \A i \in DOMAIN Tokens :
       /\ Tokens[i].type = "BYTE" => "<0x" \in ToSet(Tokens[i].text)
       /\ Special(i) => Marker[1] \notin ToSet(Tokens[i].text)
  /\ \A id \in {vocab.bos, vocab.eos} \ {0} : id \in DOMAIN Tokens /\ Special(id)

\* Nothing of such a text is lost, with any such vocabulary: decode gives back
\* what encode was given.
RoundTrips == phase = "decoded" /\ PlainText /\ PlainVocab => back = text
=============================================================================
