---------------------------- MODULE MCRetryHistory ---------------------------
(* Small instances of RetryHistory for TLC. *)
EXTENDS RetryHistory, TLC

CONSTANTS p, q, r

SomeRetrievals == {<<p>>, <<q, r>>}

\* A target-mode run, that mounts one file first and any number then, and a
\* run without a command, that never mounts more than one.
Option(maxFiles, targetMode, budgeted, command) ==
    [maxFiles |-> maxFiles, targetMode |-> targetMode, budgeted |-> budgeted, command |-> command]
SomeRequests == {Option(0, TRUE, TRUE, TRUE), Option(1, FALSE, FALSE, FALSE)}

SomeTouched == {{}}

CoreSymmetry == Permutations(Cores)
=============================================================================
