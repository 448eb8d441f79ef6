-------------------------- MODULE MCSessionAdvice ---------------------------
\* Instances of the session's advice for TLC.
EXTENDS SessionAdvice, TLC

\* The runs are told apart only by the transcript.
RunSymmetry == Permutations(Run)
=============================================================================
