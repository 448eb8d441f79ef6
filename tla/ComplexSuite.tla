---------------------------- MODULE ComplexSuite ----------------------------
(***************************************************************************)
(* The suite of complex benchmarks (evaluation/complex, runners/complex.py *)
(* and the eval-complex-suite command).  Batches of repair attempts leave  *)
(* directories of result rows; a suite reads the rows of the directories   *)
(* it lists with the traces and the diffs they name, selects the best      *)
(* attempt at each task, summarises, gates on thresholds, and suggests     *)
(* follow-ups: a command that repeats an attempt under another policy, and *)
(* a suite command that checks what it left.                               *)
(*                                                                         *)
(* Model responses, tokens and dollars follow the same rules, each with    *)
(* caps of its own: they are one resource here, cost, in cents.  Rates and *)
(* thresholds on rates are in hundredths.  Left out: the summary fields    *)
(* that no threshold and no property reads, reports, and the order of the  *)
(* follow-ups and their cut to ten.                                        *)
(***************************************************************************)
EXTENDS Naturals, Sequences, FiniteSets, SequencesExt, FiniteSetsExt, Functions

CONSTANTS Tasks,     \* the tasks of the corpus
          Paths,     \* the source files of their repositories
          Plans,     \* bound: the attempts, the cost cap and the outcomes of a batch
          Repairs,   \* bound: what a launched repair may leave behind
          Suites     \* bound: the suite commands that check no follow-up

VARIABLES batch,     \* the rows of the saved batch
          rerun,     \* the newest follow-up: its command and its row
          suite,     \* the newest suite: rows and thresholds
          streak,    \* follow-ups in a row that met their success criteria
          blocks     \* follow-ups in a row that their own budget blocked

suiteVars == <<batch, rerun, suite, streak, blocks>>

Unknown == 1000      \* not recorded: ranks after any value
NoCap == Unknown

Severities == {"none", "low", "medium", "high"}

\* What a DeepAgents plan says it was given: the files mounted and those that
\* may be patched.
Contract == [mounted      : SUBSET Paths,
             patchable    : SUBSET Paths,
             files        : Nat,          \* mounted, manifests included
             critical     : BOOLEAN,      \* budget-critical: no todos
             subagents    : BOOLEAN,
             instructions : {"none", "mounted", "read first"},
             rubric       : BOOLEAN]      \* the acceptance rubric, read first

\* An event of a trace.
Event == [node      : {"runtime.todo", "runtime.plan", "runtime.edit", "runtime.review",
                       "runtime.patch_quality", "feedback_retry", "test", "repair_outcome"},
          failed    : BOOLEAN,
          passed    : BOOLEAN,            \* a test or an outcome that passed
          classed   : BOOLEAN,            \* a retry with a label or a failure class
          severity  : Severities,         \* of the patch, where the event says it
          cost      : Nat,                \* of its model call
          live      : BOOLEAN,            \* by a live provider
          plan      : SUBSET Paths,       \* the target of its patch plan
          candidates : SUBSET Paths,      \* the targets localized before the plan
          contracts : SUBSET Contract]    \* of its plan: at most one

\* What a repair leaves: its trace, the exit of the validation command, the
\* files of the final diff and its severity.
Repair == [events : Seq(Event), passes : BOOLEAN, diff : SUBSET Paths, risk : Severities]

\* Not launched, or raised.
NoRepair == [events |-> <<>>, passes |-> FALSE, diff |-> {}, risk |-> "none"]

\* The kinds of thresholds: on a rate that is 0 of nothing; on one that is then
\* unavailable, which fails; on a count; on a ratio that may be unavailable.
Floors ==
    [min_validation_rate                   |-> "validation_rate",
     min_agent_trajectory_score            |-> "avg_agent_trajectory_score",
     min_contextual_verifier_rate          |-> "contextual_verifier_rate",
     min_process_quality_score             |-> "avg_process_quality_score",
     min_target_alignment_rate             |-> "target_alignment_rate",
     min_repo_instructions_manifest_rate   |-> "repo_instructions_manifest_rate",
     min_repo_instructions_read_first_rate |-> "repo_instructions_read_first_rate",
     min_acceptance_rubric_manifest_rate   |-> "acceptance_rubric_manifest_rate",
     min_acceptance_rubric_read_first_rate |-> "acceptance_rubric_read_first_rate",
     min_acceptance_rubric_alignment_rate  |-> "acceptance_rubric_alignment_rate"]

StrictFloors ==
    [min_selected_progress_score           |-> "selected_avg_progress_score",
     min_selected_context_target_recall    |-> "selected_context_target_recall",
     min_selected_context_target_precision |-> "selected_context_target_precision"]

CountFloors ==
    [min_live_provider_tasks |-> "live_provider_tasks",
     min_unique_tasks        |-> "unique_task_count"]

CountCeilings ==
    [max_attempted_task_cost            |-> "max_attempted_task_cost",
     max_selected_task_cost             |-> "max_selected_task_cost",
     max_live_cost_budget_overage_tasks |-> "live_cost_budget_overage_tasks",
     max_process_risky_validated_tasks  |-> "process_risky_validated_tasks"]

Ceilings ==
    [max_attempted_cost_per_validated_task         |-> "attempted_cost_per_validated_task",
     max_selected_cost_per_validated_task          |-> "selected_cost_per_validated_task",
     max_selected_virtual_files_per_validated_task |-> "selected_virtual_files_per_validated_task",
     max_selected_cost_per_virtual_file            |-> "selected_cost_per_virtual_file"]

\* f, and g where f has nothing.
Over(f, g) == [x \in DOMAIN f \cup DOMAIN g |-> IF x \in DOMAIN f THEN f[x] ELSE g[x]]

ThresholdNames == UNION {DOMAIN Floors, DOMAIN StrictFloors, DOMAIN CountFloors,
                         DOMAIN CountCeilings, DOMAIN Ceilings}

\* Rates are between 0 and 1, the rest is not negative.
ValidThresholds(thresholds) ==
    \A n \in DOMAIN thresholds :
        /\ n \in ThresholdNames
        /\ thresholds[n] \in IF n \in DOMAIN Floors \cup DOMAIN StrictFloors THEN 0..100 ELSE Nat

\* Without a spec file, a command lists the directories itself.
NoSpec == [dirs |-> <<>>, thresholds |-> <<>>]

ValidSpec(spec) == spec.dirs # <<>> /\ ValidThresholds(spec.thresholds)

ASSUME SuiteAssumption ==
    /\ \A repair \in Repairs : repair \in Repair
    /\ \A plan \in Plans :
          /\ plan.cap \in Nat
          /\ plan.repairs \subseteq Repairs
          /\ plan.slots \in Seq(Tasks \X (Nat \ {0}) \X (Nat \ {0}))
    /\ \A command \in Suites : /\ command.dirs \in Seq({"batch", "rerun"})
                               /\ command.spec.dirs \in Seq({"batch", "rerun"})

-----------------------------------------------------------------------------
(* What a trace and a diff say: trace_readers.py, trajectory.py *)

Nodes(events, names) == {i \in DOMAIN events : events[i].node \in names}

Contracts(events) == UNION {events[i].contracts : i \in DOMAIN events}

\* _model_usage_from_trace.
CostOf(events) ==
    LET known == {i \in DOMAIN events : events[i].cost # Unknown}
    IN IF known = {} THEN Unknown ELSE SumFunction([i \in known |-> events[i].cost])

\* _patch_quality_from_trace: the last severity counts, and any that was high.
LastSeverity(events) ==
    LET said == {i \in DOMAIN events : events[i].severity # "none"}
    IN IF said = {} THEN "none" ELSE events[Max(said)].severity

Rank(value, order) == CHOOSE i \in DOMAIN order : order[i] = value

\* _higher_severity.
Higher(a, b) ==
    LET order == <<"none", "low", "medium", "high">>
    IN IF Rank(b, order) > Rank(a, order) THEN b ELSE a

\* The targets the contract allows, the candidates of target localization, and
\* the target of a plan with its rationale, which one with a contract always has.
Localized(events) ==
    UNION {c.patchable : c \in Contracts(events)}
    \cup UNION {events[i].candidates : i \in DOMAIN events}
    \cup UNION {events[i].plan : i \in {j \in DOMAIN events : events[j].contracts # {}}}

\* patch_target_alignment.
Alignment(patched, localized) ==
    CASE patched = {} \/ localized = {}                  -> "unavailable"
      [] patched # {} /\ patched \subseteq localized     -> "aligned"
      [] OTHER                                           -> "misaligned"

\* _is_successful_verification and an edit after it.
LateEdit(events) ==
    \E i \in Nodes(events, {"test", "repair_outcome"}), j \in Nodes(events, {"runtime.edit"}) :
        i < j /\ events[i].passed

\* The signals of an agentic trajectory: agent_trajectory_metrics.  A contract
\* always restricts reads, bounds the replacement and fixes the format.
Signals(events) ==
    {s \in {"todo_planning", "constrained_filesystem", "specialist_review", "guardrails",
            "structured_output", "retry_feedback", "patch_diagnostics"} :
        \/ /\ s = "todo_planning"
           /\ \/ Nodes(events, {"runtime.todo"}) # {}
              \/ \E c \in Contracts(events) : ~c.critical
        \/ /\ s \in {"constrained_filesystem", "guardrails", "structured_output"}
           /\ Contracts(events) # {}
        \/ /\ s = "specialist_review"
           /\ \/ Nodes(events, {"runtime.review"}) # {}
              \/ \E c \in Contracts(events) : c.subagents
        \/ s = "retry_feedback" /\ Nodes(events, {"feedback_retry"}) # {}
        \/ /\ s \in {"guardrails", "patch_diagnostics"}
           /\ \E i \in DOMAIN events : events[i].plan # {}}

\* The evidence fields of complex_result.
Read(repair) ==
    LET es == repair.events
        cs == Contracts(es)
        localized == Localized(es)
    IN [trace        |-> es # <<>>,
        passes       |-> repair.passes,
        patched      |-> repair.diff,
        severity     |-> Higher(LastSeverity(es), repair.risk),
        warning      |-> repair.risk = "high" \/ \E i \in DOMAIN es : es[i].severity = "high",
        localized    |-> localized,
        targets      |-> Alignment(repair.diff, localized),
        mounted      |-> UNION {c.mounted : c \in cs},
        files        |-> IF cs = {} THEN Unknown ELSE Max({c.files : c \in cs}),
        failures     |-> Cardinality({i \in DOMAIN es : es[i].failed}),
        retries      |-> Cardinality(Nodes(es, {"feedback_retry"})),
        blind        |-> \E i \in Nodes(es, {"feedback_retry"}) : ~es[i].classed,
        verified     |-> Nodes(es, {"test", "repair_outcome"}) # {},
        lateEdit     |-> LateEdit(es),
        signals      |-> Cardinality(Signals(es)),
        verifier     |-> cs # {},
        rubric       |-> \E c \in cs : c.rubric,
        instructions |-> {c.instructions : c \in cs} \ {"none"},
        cost         |-> CostOf(es),
        live         |-> \E i \in DOMAIN es : es[i].live]

NoRun == Read(NoRepair)

Readings == [repair \in Repairs \cup {NoRepair} |-> Read(repair)]

-----------------------------------------------------------------------------
(* What a saved row says of its attempt: extract.py *)

\* validation_passed of the benchmark.
StrictPass(r) == r.status = "validated" /\ ~r.run.warning

Attempted(r) == r.status \in {"validated", "failed"}

HasPatch(r) == r.run.patched # {}

Overage(r) == r.cap # NoCap /\ r.run.cost # Unknown /\ r.run.cost > r.cap

\* _complex_progress, in hundredths.
Progress(r) ==
    CASE StrictPass(r)                                                       -> 100
      [] ~StrictPass(r) /\ r.status = "validated"                            -> 85
      [] r.status # "validated" /\ r.run.targets = "aligned"                 -> 65
      [] r.status # "validated" /\ r.run.targets = "misaligned"              -> 45
      [] r.status # "validated" /\ r.run.targets = "unavailable" /\ HasPatch(r) -> 50
      [] OTHER                                                  -> IF r.reproduced THEN 20 ELSE 0

\* _complex_failure_class.
FailureClass(r) ==
    IF StrictPass(r) THEN "validated"
    ELSE IF r.run.warning THEN "quality_risk"
    ELSE IF Overage(r) THEN "budget_overage"
    ELSE IF r.gate # "none" THEN "preflight_blocked"
    ELSE IF ~r.reproduced THEN "reproduction_failed"
    ELSE IF ~HasPatch(r) THEN "no_patch"
    ELSE IF r.run.targets = "misaligned" THEN "target_misaligned"
    ELSE IF r.run.failures > 0 THEN "tool_or_runtime_failure"
    ELSE IF r.run.retries > 0 THEN "retry_exhausted"
    ELSE "validation_failed"

\* _harness_layer.
HarnessLayer(r) ==
    IF StrictPass(r) THEN "none"
    ELSE IF Overage(r) \/ r.gate = "budget" THEN "budget"
    ELSE IF r.gate # "none" THEN r.gate
    ELSE IF ~r.reproduced THEN "reproduction"
    ELSE IF ~HasPatch(r) THEN "planning"
    ELSE IF r.run.targets = "misaligned" THEN "context"
    ELSE IF r.run.warning THEN "patch_quality"
    ELSE IF r.run.retries > 0 THEN "retry"
    ELSE IF r.run.failures > 0 THEN "runtime"
    ELSE "validation"

\* _process_quality.
ProcessFlags(r) ==
    IF ~r.run.trace THEN {"missing_trace"}
    ELSE {f \in {"missing_verification", "blind_retry", "failed_event_churn",
                 "post_verification_edit"} :
             \/ f = "missing_verification" /\ ~r.run.verified
             \/ f = "blind_retry" /\ r.run.blind
             \/ f = "failed_event_churn" /\ r.run.failures >= 3
             \/ f = "post_verification_edit" /\ r.run.lateEdit}

ProcessLabel(r) ==
    IF ~r.run.trace THEN "unscored"
    ELSE IF ProcessFlags(r) = {} THEN "solid"
    ELSE IF ProcessFlags(r) = {"failed_event_churn"} THEN "watch" ELSE "risky"

Penalty(flag) ==
    CASE flag \in {"missing_verification", "post_verification_edit"} -> 35
      [] flag = "blind_retry" -> 30
      [] flag = "failed_event_churn" -> 20

\* _process_quality_score, in hundredths.
ProcessScore(r) ==
    IF ~r.run.trace THEN 0
    ELSE LET lost == SumFunction([flag \in ProcessFlags(r) |-> Penalty(flag)])
         IN IF lost > 100 THEN 0 ELSE 100 - lost

\* _acceptance_rubric_aligned.
RubricAligned(r) ==
    /\ r.run.rubric
    /\ ~r.run.warning
    /\ r.run.targets = "aligned"
    /\ r.run.patched \subseteq r.run.mounted

-----------------------------------------------------------------------------
(* Selection *)

\* Mutant: the cheapest attempt.
CheapestKey(r) == <<r.run.cost, r.index>>

\* selection_sort_key.
SortKey(r) ==
    <<IF StrictPass(r) THEN 0 ELSE 1,
      100 - Progress(r),
      Rank(r.run.severity, <<"low", "medium", "high", "none">>),
      Rank(r.run.targets, <<"aligned", "unavailable", "misaligned">>),
      IF HasPatch(r) THEN 0 ELSE 1,
      r.run.retries,
      r.run.failures,
      r.run.cost,
      7 - r.run.signals,
      r.index>>

Before(a, b) ==
    \E i \in DOMAIN a : a[i] < b[i] /\ \A j \in 1..(i - 1) : a[j] = b[j]

AttemptsAt(rows, t) == {i \in DOMAIN rows : rows[i].task = t /\ Attempted(rows[i])}

AttemptedTasks(rows) == {t \in Tasks : AttemptsAt(rows, t) # {}}

\* select_attempts: the first of the best.
Selected(rows, t) ==
    CHOOSE i \in AttemptsAt(rows, t) :
        \A j \in AttemptsAt(rows, t) :
            /\ ~Before(SortKey(rows[j]), SortKey(rows[i]))
            /\ j < i => Before(SortKey(rows[i]), SortKey(rows[j]))

\* selected_results finds the row by its number within its own batch: with two
\* batches, the first row of that number.
SelectedResult(rows, t) ==
    LET best == rows[Selected(rows, t)]
    IN Min({i \in DOMAIN rows : /\ rows[i].task = t
                                /\ rows[i].index = best.index
                                /\ rows[i].count = best.count})

-----------------------------------------------------------------------------
(* The summary of some rows: summary.py *)

\* Rates and averages are kept as the sum and the number it is divided by.
Rate(part, whole) == [sum |-> 100 * Cardinality(part), of |-> Cardinality(whole)]

Unavailable == [sum |-> 0, of |-> 0]

\* _cost_per_success: unavailable when a cost is, or when nothing passed.
CostPerPass(rows, S) ==
    LET passed == {i \in S : StrictPass(rows[i])}
    IN IF \E i \in S : rows[i].run.cost = Unknown THEN Unavailable
       ELSE [sum |-> SumFunction([i \in S |-> rows[i].run.cost]), of |-> Cardinality(passed)]

\* _max_optional_float: of the recorded costs.
MaxCost(rows, S) ==
    LET known == {rows[i].run.cost : i \in S} \ {Unknown}
    IN IF known = {} THEN Unknown ELSE Max(known)

\* complex_summary: outcomes,
OutcomeSummary(rows) ==
    LET attempted == {i \in DOMAIN rows : Attempted(rows[i])}
        passed    == {i \in attempted : StrictPass(rows[i])}
        passedAtN == {t \in AttemptedTasks(rows) : \E i \in AttemptsAt(rows, t) : i \in passed}
        alignable == {i \in attempted : rows[i].run.targets # "unavailable"}
        instructed == {i \in attempted : rows[i].run.instructions # {}}
        rubric    == {i \in attempted : rows[i].run.rubric}
    IN [unique_task_count               |-> Cardinality({rows[i].task : i \in DOMAIN rows}),
        validation_rate                 |-> Rate(passed, attempted),
        validated_task_pass_at_n_rate   |-> Rate(passedAtN, AttemptedTasks(rows)),
        target_alignment_rate           |->
            Rate({i \in alignable : rows[i].run.targets = "aligned"}, alignable),
        repo_instructions_manifest_rate |-> Rate(instructed, attempted),
        repo_instructions_read_first_rate |->
            Rate({i \in instructed : "read first" \in rows[i].run.instructions}, instructed),
        acceptance_rubric_manifest_rate |-> Rate(rubric, attempted),
        acceptance_rubric_read_first_rate |-> Rate(rubric, rubric),
        acceptance_rubric_alignment_rate |->
            Rate({i \in rubric : RubricAligned(rows[i])}, rubric)]

\* the process and the cost of all attempts,
ProcessSummary(rows) ==
    LET attempted == {i \in DOMAIN rows : Attempted(rows[i])}
    IN [avg_agent_trajectory_score |->
            [sum |-> SumFunction([i \in attempted |-> 100 * rows[i].run.signals]),
             of  |-> 7 * Cardinality(attempted)],
        contextual_verifier_rate  |-> Rate({i \in attempted : rows[i].run.verifier}, attempted),
        avg_process_quality_score |->
            [sum |-> SumFunction([i \in attempted |-> ProcessScore(rows[i])]),
             of  |-> Cardinality(attempted)],
        process_risky_validated_tasks |->
            Cardinality({i \in attempted : StrictPass(rows[i]) /\ ProcessLabel(rows[i]) = "risky"}),
        live_provider_tasks       |-> Cardinality({i \in attempted : rows[i].run.live}),
        live_cost_budget_overage_tasks |-> Cardinality({i \in attempted : Overage(rows[i])}),
        attempted_cost_per_validated_task |-> CostPerPass(rows, attempted),
        max_attempted_task_cost   |-> MaxCost(rows, attempted)]

\* _context_target_metrics: how much of the targets was mounted, and how much
\* of what was mounted was a target.
Covered(rows, S) ==
    SumFunction([i \in S |-> Cardinality(rows[i].run.localized \cap rows[i].run.mounted)])

\* and the selected ones: a selection, or the row that is found by its number.
SelectedSummary(rows) ==
    LET selections == {Selected(rows, t) : t \in AttemptedTasks(rows)}
        passed     == {i \in selections : StrictPass(rows[i])}
        results    == {SelectedResult(rows, t) : t \in AttemptedTasks(rows)}
        mounting   == {i \in results : rows[i].run.files # Unknown}
        priced     == {i \in mounting : rows[i].run.cost # Unknown /\ rows[i].run.files > 0}
        available  == {i \in results : rows[i].run.localized # {} /\ rows[i].run.mounted # {}}
        Files(S)   == SumFunction([i \in S |-> rows[i].run.files])
    IN [selected_validation_rate    |-> Rate(passed, selections),
        selected_avg_progress_score |->
            [sum |-> SumFunction([i \in results |-> Progress(rows[i])]),
             of  |-> Cardinality(results)],
        selected_cost_per_validated_task |-> CostPerPass(rows, selections),
        max_selected_task_cost      |-> MaxCost(rows, selections),
        selected_virtual_files_per_validated_task |->
            IF mounting = {} THEN Unavailable
            ELSE [sum |-> Files(mounting), of |-> Cardinality(passed)],
        selected_cost_per_virtual_file |->
            [sum |-> SumFunction([i \in priced |-> rows[i].run.cost]),
             of  |-> Files(priced)],
        selected_context_target_recall |->
            [sum |-> 100 * Covered(rows, available),
             of  |-> SumFunction([i \in available |-> Cardinality(rows[i].run.localized)])],
        selected_context_target_precision |->
            [sum |-> 100 * Covered(rows, available),
             of  |-> SumFunction([i \in available |-> Cardinality(rows[i].run.mounted)])]]

Summary(rows) ==
    Over(OutcomeSummary(rows), Over(ProcessSummary(rows), SelectedSummary(rows)))

-----------------------------------------------------------------------------
(* Thresholds *)

\* A rate of nothing is 0,
Below(rate, least) == IF rate.of = 0 THEN least > 0 ELSE rate.sum < least * rate.of

\* or unavailable, which is too low,
ShortOf(rate, least) == rate.of = 0 \/ rate.sum < least * rate.of

\* and an unavailable ratio is too high.
Above(ratio, most) == ratio.of = 0 \/ ratio.sum > most * ratio.of

\* One threshold of complex_benchmark_suite_gate.
Fails(n, bound, summary) ==
    \/ n \in DOMAIN Floors        /\ Below(summary[Floors[n]], bound)
    \/ n \in DOMAIN StrictFloors  /\ ShortOf(summary[StrictFloors[n]], bound)
    \/ n \in DOMAIN CountFloors   /\ summary[CountFloors[n]] < bound
    \/ n \in DOMAIN CountCeilings /\ summary[CountCeilings[n]] > bound
    \/ n \in DOMAIN Ceilings      /\ Above(summary[Ceilings[n]], bound)

\* Thresholds are those that were set.
GatePasses(rows, thresholds) ==
    LET summary == Summary(rows)
    IN \A n \in DOMAIN thresholds : ~Fails(n, thresholds[n], summary)

-----------------------------------------------------------------------------
(* Follow-ups: a candidate is a task and an action; its command follows *)

HighCost(r) == r.run.cost # Unknown /\ r.run.cost >= 9

\* _followup_priority: any reason makes a candidate.
HasReason(r) ==
    \/ ~StrictPass(r)
    \/ r.run.warning
    \/ FailureClass(r) # "validated"
    \/ HarnessLayer(r) # "none"
    \/ ProcessLabel(r) \in {"risky", "watch"}
    \/ r.run.retries > 0
    \/ Overage(r)
    \/ r.run.targets = "misaligned"
    \/ r.run.failures >= 3
    \/ HighCost(r)

\* _followup_action.
Action(r) ==
    IF HarnessLayer(r) = "budget" \/ Overage(r) THEN "budget_contract_tightening"
    ELSE IF StrictPass(r) /\ HighCost(r) THEN "cost_optimization_rerun"
    ELSE IF HarnessLayer(r) = "patch_quality" \/ r.run.warning THEN "quality_gate_rerun"
    ELSE IF HarnessLayer(r) = "context" \/ r.run.targets = "misaligned"
         THEN "context_policy_ablation"
    ELSE IF HarnessLayer(r) = "retry" \/ r.run.retries > 0 THEN "retry_policy_ablation"
    ELSE IF ProcessLabel(r) = "risky" THEN "process_quality_review"
    ELSE IF HarnessLayer(r) = "runtime" \/ r.run.failures >= 3 THEN "runtime_failure_triage"
    ELSE IF HarnessLayer(r) = "planning" \/ ~HasPatch(r) THEN "planning_context_repair"
    ELSE IF ~StrictPass(r) THEN "validation_failure_rerun"
    ELSE "manual_triage"

\* _followup_profile: its cases are those of the action.
Profile(action) ==
    CASE action = "budget_contract_tightening" -> "resource_budget_auto"
      [] action = "cost_optimization_rerun"    -> "budget_critical_context_cap"
      [] action \in {"quality_gate_rerun", "verifier_contract_rerun"}
                                               -> "acceptance_rubric_verifier"
      [] action = "context_policy_ablation"    -> "targeted_context_ablation"
      [] action = "retry_policy_ablation"      -> "structured_retry_feedback"
      [] action = "process_quality_review"     -> "process_quality_gate"
      [] action = "runtime_failure_triage"     -> "runtime_trace_triage"
      [] action = "planning_context_repair"    -> "fast_patch_packet"
      [] action = "validation_failure_rerun"   -> "focused_validation_retry"
      [] OTHER                                 -> "manual_review"

VerifierThresholds ==
    {"min_contextual_verifier_rate", "min_acceptance_rubric_manifest_rate",
     "min_acceptance_rubric_read_first_rate", "min_acceptance_rubric_alignment_rate"}

\* _suite_verifier_missing_reasons: a rate is too low and this row is one that lowers it.
LacksVerifier(r, rows, thresholds) ==
    LET summary == Summary(rows)
    IN \E n \in VerifierThresholds \cap DOMAIN thresholds :
          /\ Fails(n, thresholds[n], summary)
          /\ ~ CASE n = "min_contextual_verifier_rate"         -> r.run.verifier
                  [] n = "min_acceptance_rubric_alignment_rate" -> RubricAligned(r)
                  [] OTHER                                      -> r.run.rubric

\* complex_followup_candidates and _suite_verifier_followup_candidates.
Candidates(rows, thresholds) ==
    LET reasoned == {i \in DOMAIN rows : HasReason(rows[i])}
        Covers(r) == \E i \in reasoned :
                          /\ rows[i].task = r.task /\ rows[i].index = r.index
                          /\ Profile(Action(rows[i])) = "acceptance_rubric_verifier"
        Of(t) == rows[SelectedResult(rows, t)]
    IN  {[task |-> rows[i].task, action |-> Action(rows[i])] : i \in reasoned}
        \cup {[task |-> t, action |-> "verifier_contract_rerun"] :
                 t \in {u \in AttemptedTasks(rows) :
                          /\ ~Covers(Of(u))
                          /\ LacksVerifier(Of(u), rows, thresholds)}}

Critical(c) == Profile(c.action) = "budget_critical_context_cap"
TriesTwice(c) == c.action \in {"quality_gate_rerun", "retry_policy_ablation"}

MaxRetries(c) == IF ~Critical(c) /\ TriesTwice(c) THEN 1 ELSE 0

\* Mutant: cost is optimised under the cap of everything else.
UncriticalCap(c) == IF TriesTwice(c) THEN 12 ELSE 10

\* _followup_cost_cap, which is also the estimate of one model attempt.
CostCap(c) == IF Critical(c) THEN 7 ELSE IF TriesTwice(c) THEN 12 ELSE 10

\* Mutant: the check looks at validation and at the provider only.
BareValidation(c) == [min_validation_rate |-> 100, min_live_provider_tasks |-> 1]

\* _followup_validation_command.
Validation(c) ==
    Over([min_validation_rate |-> 100, min_live_provider_tasks |-> 1, min_unique_tasks |-> 1,
          max_attempted_cost_per_validated_task |-> CostCap(c),
          max_attempted_task_cost |-> CostCap(c),
          max_selected_cost_per_validated_task |-> CostCap(c),
          max_selected_task_cost |-> CostCap(c),
          min_process_quality_score |-> 100, max_process_risky_validated_tasks |-> 0,
          min_target_alignment_rate |-> 100],
         [n \in (IF Profile(c.action) = "acceptance_rubric_verifier"
                  THEN VerifierThresholds ELSE {}) |-> 100])

-----------------------------------------------------------------------------
(* Attempts: execute_public_issue_repairs, for a slot <<task, index, count>> *)

Row(slot, status, gate, reproduced, cap, run) ==
    [task |-> slot[1], index |-> slot[2], count |-> slot[3], status |-> status, gate |-> gate,
     reproduced |-> reproduced, cap |-> cap, run |-> run]

\* A repair without recorded usage fails under a cap, and one that raised
\* leaves nothing.
Launched(slot, cap, repairs) ==
    {Row(slot,
         IF run.passes /\ run.patched # {} /\ ~run.warning /\ run.cost <= cap
         THEN "validated" ELSE "failed",
         "none", TRUE, cap, run) : run \in {Readings[repair] : repair \in repairs \cup {NoRepair}}}

Blocked(slot, gate) == {Row(slot, "blocked", gate, reproduced, NoCap, NoRun) :
                            reproduced \in BOOLEAN}

\* The rows of a batch: a preflight blocks all, readiness all of a task, and what
\* is blocked was reproduced once for all its attempts.
BatchRows(plan) ==
    LET slots == plan.slots
        Outcomes(slot, gate) ==
            Blocked(slot, gate)
            \cup (IF gate = "none" THEN Launched(slot, plan.cap, plan.repairs) ELSE {})
        Of(gate) == {f \in [DOMAIN slots -> UNION {Outcomes(slots[i], gate) : i \in DOMAIN slots}] :
                        \A i \in DOMAIN slots : f[i] \in Outcomes(slots[i], gate)}
        AtOnce(f) == \A i, j \in DOMAIN slots :
                        f[i].task = f[j].task =>
                            /\ (f[i].status = "blocked") = (f[j].status = "blocked")
                            /\ f[i].reproduced = f[j].reproduced
    IN {f \in UNION {Of(gate) : gate \in {"sandbox", "model", "budget", "none"}} : AtOnce(f)}

\* The budget preflight of a follow-up: one task, one repeat.
OverBudget(c) == (MaxRetries(c) + 1) * CostCap(c) > CostCap(c)

\* It runs the DeepAgents planner, so that there is a contract, and retries as the
\* command allows.
RerunRepairs(c) ==
    {repair \in Repairs : /\ Readings[repair].verifier
                          /\ Readings[repair].retries <= MaxRetries(c)}

RerunRows(c) ==
    LET slot == <<c.task, 1, 1>>
    IN  Blocked(slot, "sandbox") \cup Blocked(slot, "model")
        \cup (IF OverBudget(c) THEN Blocked(slot, "budget")
              ELSE Blocked(slot, "none") \cup Launched(slot, CostCap(c), RerunRepairs(c)))

-----------------------------------------------------------------------------

NoSuite == [rows |-> <<>>, thresholds |-> <<>>]

\* The rows of a directory: what a follow-up left, or the batch.
Dir(d) == IF d = "batch" THEN batch ELSE [i \in DOMAIN rerun |-> rerun[i].row]

\* resolve_complex_benchmark_suite_config: the directories of the command
\* replace those of the spec file, its thresholds replace those of the same
\* name.
Dirs(command) == IF command.dirs # <<>> THEN command.dirs ELSE command.spec.dirs

Thresholds(command) == Over(command.thresholds, command.spec.thresholds)

\* validate_complex_benchmark_suite_inputs: each directory has been written; it
\* may be listed twice.
Preflight(dirs) == dirs # <<>> /\ \A i \in DOMAIN dirs : Dir(dirs[i]) # <<>>

\* The results file of a suite.
AllRows(dirs) == FlattenSeq([i \in DOMAIN dirs |-> Dir(dirs[i])])

SuiteInit ==
    /\ batch = <<>>
    /\ rerun = <<>>
    /\ suite = NoSuite
    /\ streak = 0
    /\ blocks = 0

\* Bound: one batch.
SaveBatch ==
    /\ batch = <<>>
    /\ \E plan \in Plans : batch' \in BatchRows(plan)
    /\ UNCHANGED <<rerun, suite, streak, blocks>>

\* eval-complex-suite: a command with a bad spec file, a bad threshold or a
\* missing directory writes nothing.
RunSuite(command) ==
    /\ command.spec = NoSpec \/ ValidSpec(command.spec)
    /\ ValidThresholds(Thresholds(command))
    /\ Preflight(Dirs(command))
    /\ suite' = [rows |-> AllRows(Dirs(command)), thresholds |-> Thresholds(command)]
    /\ streak' = 0
    /\ blocks' = 0
    /\ UNCHANGED <<batch, rerun>>

\* The recommended command of a candidate.  Bounds: only the newest follow-up is
\* kept, and the next one is taken from another suite.
Follow(c) ==
    /\ \E row \in RerunRows(c) : rerun' = <<[command |-> c, row |-> row]>>
    /\ suite' = NoSuite
    /\ UNCHANGED <<batch, streak, blocks>>

CheckOf(r) == [rows |-> <<r.row>>, thresholds |-> Validation(r.command)]

\* The validation command of the newest follow-up.
Check ==
    /\ rerun # <<>>
    /\ LET checked == CheckOf(rerun[1])
       IN  /\ suite # checked
           /\ suite' = checked
           /\ streak' = IF GatePasses(checked.rows, checked.thresholds) THEN streak + 1 ELSE 0
           /\ blocks' = IF rerun[1].row.gate = "budget" THEN blocks + 1 ELSE 0
    /\ UNCHANGED <<batch, rerun>>

SuiteNext ==
    \/ SaveBatch
    \/ \E command \in Suites : RunSuite(command)
    \/ \E c \in Candidates(suite.rows, suite.thresholds) : Follow(c)
    \/ Check

SuiteSpec == SuiteInit /\ [][SuiteNext]_suiteVars

-----------------------------------------------------------------------------

\* The attempt that the suite selects at a task is strictly validated if any
\* attempt is: the two rates of its summary (pass@n and selected) agree,
\* whatever directories are listed and in whatever order.
PassAtNIsSelected ==
    OutcomeSummary(suite.rows).validated_task_pass_at_n_rate =
        SelectedSummary(suite.rows).selected_validation_rate

\* A follow-up meets its success criteria only by a launched attempt that is
\* strictly validated with a solid process, on localised targets, with its
\* cost recorded and within the cap it was launched under, and with an
\* aligned rubric where its profile is the verifier's: no criterion passes
\* for want of data.
CheckIsEarned ==
    (rerun # <<>> /\ suite = CheckOf(rerun[1]) /\ GatePasses(suite.rows, suite.thresholds)) =>
        LET r == rerun[1].row
            c == rerun[1].command
        IN  /\ StrictPass(r) /\ ProcessLabel(r) = "solid"
            /\ r.run.targets = "aligned"
            /\ r.run.live /\ r.run.cost <= CostCap(c)
            /\ Profile(c.action) = "acceptance_rubric_verifier" => RubricAligned(r)

\* Following the suggestion of each check in turn gets somewhere: after two
\* follow-ups in a row that met their criteria there is nothing to suggest, and
\* the suggestion for one that its own budget blocked is not blocked again.
FollowupsSettle == streak <= 2 /\ blocks <= 1
=============================================================================
