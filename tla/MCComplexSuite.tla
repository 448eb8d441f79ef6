--------------------------- MODULE MCComplexSuite ---------------------------
(* A small instance of ComplexSuite for TLC: one task attempted twice without *)
(* a cap, or two tasks attempted once under a cap.                            *)
EXTENDS ComplexSuite

CONSTANTS t1, t2, f, g

Node(node) ==
    [node |-> node, failed |-> FALSE, passed |-> FALSE, classed |-> FALSE, severity |-> "none",
     cost |-> Unknown, live |-> FALSE, plan |-> {}, candidates |-> {}, contracts |-> {}]

\* File f is mounted and may be patched, and file g may not be.
Given(rubric) ==
    [mounted |-> {f}, patchable |-> {f}, files |-> 3, critical |-> FALSE, subagents |-> FALSE,
     instructions |-> "mounted", rubric |-> rubric]

\* One attempt of the DeepAgents planner.
Tries(cost, contracts, severity, passes) ==
    <<[Node("runtime.plan") EXCEPT !.cost = cost, !.live = TRUE, !.plan = {f},
                                   !.contracts = contracts,
                                   !.candidates = IF contracts = {} THEN {} ELSE {f}],
      Node("runtime.edit"),
      [Node("runtime.patch_quality") EXCEPT !.severity = severity],
      [Node("test") EXCEPT !.failed = ~passes, !.passed = passes]>>

Retries(classed) == <<[Node("feedback_retry") EXCEPT !.classed = classed]>>

Passing(events, risk) == [events |-> events, passes |-> TRUE, diff |-> {f}, risk |-> risk]

\* Cheap; dear with a rubric; without recorded cost; of high risk; of another
\* planner, and retried with success; outside the targets; failed after a retry
\* and blocked from another.
SomeRepairs ==
    {Passing(Tries(6, {Given(FALSE)}, "low", TRUE), "low"),
     Passing(Tries(10, {Given(TRUE)}, "low", TRUE), "none"),
     Passing(Tries(Unknown, {Given(TRUE)}, "low", TRUE), "low"),
     Passing(Tries(6, {Given(FALSE)}, "medium", TRUE), "high"),
     Passing(Tries(3, {}, "low", FALSE) \o Retries(TRUE) \o Tries(3, {}, "low", TRUE), "low"),
     [Passing(Tries(5, {Given(TRUE)}, "medium", TRUE), "low") EXCEPT !.diff = {f, g}],
     [Passing(Tries(6, {Given(FALSE)}, "low", FALSE) \o Retries(TRUE)
                  \o Tries(5, {Given(FALSE)}, "low", FALSE) \o Retries(FALSE), "low")
          EXCEPT !.passes = FALSE]}

\* All of them at one task, and the first three at two tasks under a cap.
SomePlans ==
    {[slots |-> <<<<t1, 1, 2>>, <<t1, 2, 2>>>>, cap |-> NoCap, repairs |-> SomeRepairs],
     [slots |-> <<<<t1, 1, 1>>, <<t2, 1, 1>>>>, cap |-> 9,
      repairs |-> {repair \in SomeRepairs :
                      /\ repair.passes /\ repair.risk # "high"
                      /\ repair.diff = {f} /\ Len(repair.events) = 4}]}

Strict ==
    [min_validation_rate |-> 100, min_selected_progress_score |-> 65,
     max_live_cost_budget_overage_tasks |-> 0, min_agent_trajectory_score |-> 50,
     min_contextual_verifier_rate |-> 100, min_acceptance_rubric_alignment_rate |-> 100]

\* A spec of the batch with thresholds, followed as it stands, or with other
\* directories and one threshold replaced; and a suite without a spec that lists
\* a directory twice.
SomeSuites ==
    LET spec == [dirs |-> <<"batch">>, thresholds |-> Strict]
    IN  {[dirs |-> <<>>, spec |-> spec, thresholds |-> <<>>],
         [dirs |-> <<"batch", "rerun">>, spec |-> spec,
          thresholds |-> [min_validation_rate |-> 50, min_selected_context_target_recall |-> 80]],
         [dirs |-> <<"rerun", "batch", "rerun">>, spec |-> NoSpec,
          thresholds |-> [max_selected_virtual_files_per_validated_task |-> 5]]}
=============================================================================
