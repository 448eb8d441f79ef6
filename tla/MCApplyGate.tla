---------------------------- MODULE MCApplyGate -----------------------------
\* Instances of the apply gate for TLC.
EXTENDS ApplyGate, TLC

\* The runs are told apart only by the transcript.
RunSymmetry == Permutations(Run)
=============================================================================
