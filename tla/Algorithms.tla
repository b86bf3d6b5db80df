----------------------------- MODULE Algorithms -----------------------------
(***************************************************************************)
(* The parts of the program that run to an end on one thread, side by side: *)
(* a program built and launched, a text encoded and decoded, a conversation *)
(* of passes recorded, a file opened, weights packed, a token chosen.  A    *)
(* behaviour runs one of them; the others rest.                             *)
(***************************************************************************)
EXTENDS Program, Tokenizer, Plan, Gguf, Quant, Packing, Sampling

CONSTANTS Questions   \* what the parts without a state are asked

\* Questions are about files that a writer wrote, cut anywhere, tensors that have
\* the rows looked at, logits that have a weight, kernels of at least one chain or
\* part, and top_p as a fraction.
ASSUME QuestionAssumption ==
  \A q \in Questions :
    /\ q.about = "file" => Writable(q.file) /\ q.cut \in 0..Len(WriteFile(q.file))
    /\ q.about = "repack" => /\ q.type \in Types /\ q.rows \in Nat /\ q.cols \in Nat
                             /\ q.look \subseteq 0..(q.rows - 1)
    /\ q.about = "pack" => /\ q.layout \in Layouts /\ q.rows \in Nat /\ q.cols \in Nat
                           /\ q.split \in Nat \ {0}
    /\ q.about = "block" => q.top \in Nat
    /\ q.about = "sample" => /\ q.logits \in Seq(Logits) /\ q.logits # <<>> /\ q.topK \in Nat
                             /\ q.parts \in Nat \ {0} /\ q.parts2 \in Nat \ {0}
                             /\ q.topP = <<q.topP[1], q.topP[2]>> /\ q.topP[1] \in Nat \ {0}
                             /\ q.topP[2] \in Nat /\ q.topP[1] <= q.topP[2]

VARIABLES question

avars == <<code, kernels, shader, objects, tries, launched, vocab, text, at, norm,
           syms, work, out, back, phase, config, position, logits, chain, question>>

\* No module, no text, no layers, no question.
ProgramRests == /\ code = <<>> /\ kernels = <<>> /\ shader = Null
                /\ objects = {} /\ tries = <<>> /\ launched = Null
TokenizerRests == /\ vocab = [tokens |-> <<>>, prefix |-> FALSE, bos |-> 0, eos |-> 0, unk |-> 0]
                  /\ text = <<>> /\ at = 1 /\ norm = <<>> /\ syms = <<>> /\ work = {}
                  /\ out = <<>> /\ back = <<>> /\ phase = "decoded"
PlanRests == config = [maxSeq |-> 0] /\ position = 0 /\ logits = FALSE /\ chain = <<>>
NotAsked == question = [about |-> "nothing"]

Init == \/ ProgramInit /\ TokenizerRests /\ PlanRests /\ NotAsked
        \/ ProgramRests /\ TokenizerInit /\ PlanRests /\ NotAsked
        \/ ProgramRests /\ TokenizerRests /\ PlanInit /\ NotAsked
        \/ ProgramRests /\ TokenizerRests /\ PlanRests /\ question \in Questions

Next == \/ ProgramNext /\ UNCHANGED <<tvars, planvars, question>>
        \/ TokenizerNext /\ UNCHANGED <<pvars, planvars, question>>
        \/ PlanNext /\ UNCHANGED <<pvars, tvars, question>>

Spec == Init /\ [][Next]_avars

-----------------------------------------------------------------------------
\* What GGUFFile::open makes of the bytes that are left of the file asked about.
Opened == Open(SubSeq(WriteFile(question.file), 1, question.cut))

\* A file a writer of the format wrote, cut anywhere: GGUFFile::open reads
\* back what was written or refuses it (Gguf!ReadsBack).
FileReadsBack ==
  question.about = "file" => ReadsBack(question.file, question.cut, Opened)

\* A legal file with all its bytes is opened whatever its numbers are written
\* as: "callers need not care whether the writer chose u32 or u64"
\* (gguf.cpp:80-81, of read_scalar).
AnyWidthOpens ==
  question.about = "file" /\ Legal(question.file) /\ question.cut >= Needed(question.file) =>
    Opened.opened

\* Every weight a matvec kernel reads is the packed form of the one the file
\* holds there, in every layout, and is not off by more than half a step
\* (RepackAgrees, PackingAgrees, QuantiseBounded).
WeightsAgree ==
  /\ question.about = "repack" =>
       RepackAgrees(question.type, question.rows, question.cols, question.look)
  /\ question.about = "pack" =>
       PackingAgrees(question.layout, question.rows, question.cols, question.split)
  /\ question.about = "block" =>
       \A v \in -question.top..question.top : QuantiseBounded(v, question.top)

\* The argmax tree and the candidate harvest choose what the exact scans would
\* (FastPathsExact).
SamplesExactly ==
  question.about = "sample" =>
    FastPathsExact(question.logits, question.parts, question.parts2, question.topK, question.topP)
=============================================================================
