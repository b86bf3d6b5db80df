----------------------------- MODULE MCPackCache -----------------------------
(***************************************************************************)
(* Two processes with two packer threads each, two tensors of two chunks    *)
(* and of one, and a cap that a wave of both exceeds.                       *)
(***************************************************************************)
EXTENDS PackCache, TLC

MCParts == <<2, 1>>
MCBytes == <<2, 1>>
MCModes == {[use |-> TRUE, force |-> FALSE, verify |-> FALSE],
            [use |-> TRUE, force |-> TRUE, verify |-> FALSE],
            [use |-> TRUE, force |-> FALSE, verify |-> TRUE]}
MCPlain == {[use |-> TRUE, force |-> FALSE, verify |-> FALSE]}

\* Nothing tells two processes or two layouts apart; the run is of safety only.
MCSymmetry == Permutations(Procs) \cup Permutations(Layouts)
=============================================================================
