----------------------------- MODULE TrialSpec ------------------------------
(***************************************************************************)
(* What a repair run promises: a bounded series of trials.  Each trial is  *)
(* judged before the next one begins, a new one begins only when the last  *)
(* verdict asks for it, and a run that completes was not entitled to       *)
(* another trial, or had a resource cap that forbade it.                   *)
(***************************************************************************)
EXTENDS Naturals

CONSTANTS Verdict,    \* what a trial can be judged
          Retryable   \* the verdicts that ask for another trial

VARIABLES limit,    \* trials allowed after the first
          capped,   \* some resource of the run is capped
          trials,   \* trials begun
          open,     \* a trial is in progress
          verdict,  \* the last judgement
          outcome   \* "running", "completed" or "abandoned"

vars == <<limit, capped, trials, open, verdict, outcome>>

Init ==
    /\ limit \in Nat
    /\ capped \in BOOLEAN
    /\ trials = 0
    /\ open = FALSE
    /\ verdict = "none"
    /\ outcome = "running"

Entitled == verdict \in Retryable /\ trials <= limit

Begin ==
    /\ outcome = "running"
    /\ ~open
    /\ trials = 0 \/ Entitled
    /\ trials' = trials + 1
    /\ open' = TRUE
    /\ UNCHANGED <<limit, capped, verdict, outcome>>

Judge ==
    /\ outcome = "running"
    /\ open
    /\ verdict' \in Verdict
    /\ open' = FALSE
    /\ UNCHANGED <<limit, capped, trials, outcome>>

Complete ==
    /\ outcome = "running"
    /\ ~open
    /\ trials > 0
    /\ Entitled => capped
    /\ outcome' = "completed"
    /\ UNCHANGED <<limit, capped, trials, open, verdict>>

\* An exception, or the death of the process.
Abandon ==
    /\ outcome = "running"
    /\ outcome' = "abandoned"
    /\ open' = FALSE
    /\ UNCHANGED <<limit, capped, trials, verdict>>

Next == Begin \/ Judge \/ Complete \/ Abandon

Spec == Init /\ [][Next]_vars
=============================================================================
