------------------------------ MODULE MCRuntime ------------------------------
(***************************************************************************)
(* Two buffer handles, each naming two buffers in turn, one kernel, sets    *)
(* for two pools of two.                                                    *)
(***************************************************************************)
EXTENDS Runtime, TLC

\* The driver may take any free set.
MCSymmetry == Permutations(Sets) \cup Permutations(Handles)
=============================================================================
