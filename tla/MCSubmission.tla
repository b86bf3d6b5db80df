---------------------------- MODULE MCSubmission ----------------------------
(* Model-checking instance of Submission.                                  *)
EXTENDS Submission
CONSTANTS k1, k2

\* A kernel with one descriptor-set layout and one with two.
MCDispatches == {<<k1>>, <<k1, k2>>}
=============================================================================
