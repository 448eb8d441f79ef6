------------------------------ MODULE GateSpec ------------------------------
(***************************************************************************)
(* What the chat session promises about its generated diffs, with no       *)
(* transcript in sight: every diff stands at one stage of a review, and    *)
(* the working tree takes a diff only when its stage authorises it.        *)
(* ApplyGate keeps no such stage; it recomputes the answer from the log    *)
(* each time, and is shown to implement this specification.                *)
(***************************************************************************)
CONSTANTS Run,      \* the repair runs; a run stands for its final.diff
          NoRun     \* "no run is available"

VARIABLES stage,    \* where each diff stands in its review
          guarded,  \* the diffs whose last review asks for an approval
          target,   \* the diff the session's commands act on
          tree      \* the diffs the session has put into the working tree

vars == <<stage, guarded, target, tree>>

Decided   == {"approved", "rejected"}
Decidable == {"ready"} \cup Decided
Stage     == {"unreviewed", "reviewed", "refused"} \cup Decidable

Init ==
    /\ stage = [d \in Run |-> "unreviewed"]
    /\ guarded = {}
    /\ target = NoRun
    /\ tree = {}

\* A diff may be applied once it is checked, and approved if it is guarded.
Authorised(d) ==
    \/ stage[d] = "approved"
    \/ stage[d] = "ready" /\ d \notin guarded

\* A finished run becomes the target and sends every diff back to review.
Finish(d) ==
    /\ stage' = [e \in Run |-> "unreviewed"]
    /\ target' = d
    /\ UNCHANGED <<guarded, tree>>

\* The target moves without a run: a restore, a clear, a crash, a resume.
Retarget ==
    /\ target' \in Run \cup {NoRun}
    /\ UNCHANGED <<stage, guarded, tree>>

Review(d) ==
    /\ target = d
    /\ stage' = [stage EXCEPT ![d] = "reviewed"]
    /\ guarded' \in {guarded \cup {d}, guarded \ {d}}
    /\ UNCHANGED <<target, tree>>

Check(d) ==
    /\ target = d
    /\ stage[d] # "unreviewed"
    /\ \E answer \in {"ready", "refused"} :
           stage' = [stage EXCEPT ![d] = answer]
    /\ UNCHANGED <<guarded, target, tree>>

Decide(d) ==
    /\ target = d
    /\ stage[d] \in Decidable
    /\ \E verdict \in Decided : stage' = [stage EXCEPT ![d] = verdict]
    /\ UNCHANGED <<guarded, target, tree>>

Apply(d) ==
    /\ target = d
    /\ Authorised(d)
    /\ tree' = tree \cup {d}
    /\ UNCHANGED <<stage, guarded, target>>

Rewind(d) ==
    /\ target = d
    /\ tree' = tree \ {d}
    /\ UNCHANGED <<stage, guarded, target>>

Next ==
    \/ Retarget
    \/ \E d \in Run :
           Finish(d) \/ Review(d) \/ Check(d) \/ Decide(d) \/ Apply(d) \/ Rewind(d)

Spec == Init /\ [][Next]_vars
=============================================================================
