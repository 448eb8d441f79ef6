----------------------------- MODULE RepairRun ------------------------------
(***************************************************************************)
(* One repair run (RepairRunner.run in workflow.py): plan an edit, apply   *)
(* it to the run's own checkout, test it in the sandbox, judge the result, *)
(* and, for the DeepAgents runtime and planner, restore the checkout and   *)
(* try again with the feedback, as long as the retries and the resource    *)
(* budget allow.                                                           *)
(*                                                                         *)
(* The checkout is the set of marks left on it: <<k, "edit">> is the patch *)
(* of attempt k, <<k, "droppings">> what its test command wrote,           *)
(* <<0, "edit">> the uncommitted edits a local repository came with.  Which *)
(* file and text a patch touches, and what the feedback says, is left out. *)
(* Responses and tokens are counted in coarse units.                       *)
(***************************************************************************)
EXTENDS Integers

CONSTANTS MaxRetries,  \* bound: request.max_retries
          MaxSpend,    \* bound: units of a resource one attempt spends
          Repos,       \* the kinds of repository a request may name
          Caps,        \* the caps a request may set, NoCap among them
          NoCap,       \* "no cap"
          Requests,    \* bound: the requests a run is made for
          Reserve      \* RETRY_MIN_REMAINING_RESPONSES, ..._TOKENS, in units

ASSUME RunAssumption ==
    /\ MaxRetries \in Nat
    /\ MaxSpend \in Nat
    /\ Repos \subseteq {"plain", "git", "dirty"}
    /\ NoCap \notin Nat
    /\ Caps \subseteq Nat \cup {NoCap}
    /\ Reserve \in Nat

VARIABLES request,    \* the RunRequest
          pc,         \* where RepairRunner.run is
          status,     \* what the caller and the trace learn
          attempt,    \* attempts begun
          checkout,   \* marks on the run's repo directory
          saved,      \* the marks the baseline copy holds
          baseline,   \* the retry baseline copy: "absent", "partial", "whole"
          restorer,   \* workspace_restorer is bound
          patch,      \* AgentResult.status, and the quality of the patch
          test,       \* what the sandbox returned
          diff,       \* final_diff
          verdict,    \* repair_analysis.verdict
          used,       \* resources the trace accounts for
          spent       \* resources really consumed

copies == <<saved, baseline, restorer>>
trial == <<patch, test, diff, verdict>>
resources == <<used, spent>>
vars == <<request, pc, status, attempt, checkout, copies, trial, resources>>

Resource == {"responses", "tokens"}

Request == [max_retries : 0..MaxRetries,    \* 0 also stands for negative values
            deepagents  : BOOLEAN,          \* runtime and planner are "deepagents"
            command     : BOOLEAN,          \* a test command was given or detected
            docker      : BOOLEAN,          \* sandbox_mode
            repo        : Repos,            \* "dirty": git, with uncommitted edits
            cap         : [Resource -> Caps]]

ASSUME RequestAssumption == Requests \subseteq Request

Mark == (0..(MaxRetries + 1)) \X {"edit", "droppings"}

\* What clone_or_copy_repository leaves in the run directory.
Pristine == IF request.repo = "dirty" THEN {<<0, "edit">>} ELSE {}

\* no_patch_generated, or patch_generated with its quality severity.
Patch == {"none", "clean", "risky"}

\* test_environment_*: what _infrastructure_failure_category recognises.
Environment == {"policy_blocked", "timed_out", "no_pytest"}

\* "not_started": the docker command fails before the test command runs.
Test == {"none", "passed", "failed", "not_started"} \cup Environment

VerdictOfPatch ==
    [none |-> "patch_unvalidated", passed |-> "patch_validated",
     failed |-> "patch_failed_tests", not_started |-> "patch_failed_tests",
     policy_blocked |-> "patch_validation_blocked",
     timed_out |-> "patch_validation_blocked",
     no_pytest |-> "patch_validation_blocked"]

VerdictWithoutPatch ==
    [none |-> "no_patch_generated", passed |-> "tests_passed_without_patch",
     failed |-> "no_patch_tests_failed", not_started |-> "no_patch_tests_failed",
     policy_blocked |-> "validation_blocked", timed_out |-> "validation_blocked",
     no_pytest |-> "validation_blocked"]

QualityWarning == "patch_validated_quality_warning"

Verdict == {VerdictOfPatch[t] : t \in Test} \cup {VerdictWithoutPatch[t] : t \in Test}
               \cup {QualityWarning}

HighRisk == patch = "risky" /\ test = "passed"

\* analyze_repair_outcome
Analysis == IF HighRisk THEN QualityWarning
            ELSE IF patch = "none" THEN VerdictWithoutPatch[test]
            ELSE VerdictOfPatch[test]

Init ==
    /\ request \in Requests
    /\ pc = "prepare"
    /\ status = "running"
    /\ attempt = 0
    /\ checkout = {}
    /\ saved = {}
    /\ baseline = "absent"
    /\ restorer = FALSE
    /\ patch = "none"
    /\ test = "none"
    /\ diff = {}
    /\ verdict = "none"
    /\ used = [r \in Resource |-> 0]
    /\ spent = [r \in Resource |-> 0]

-----------------------------------------------------------------------------
(* Budgets and retries *)

\* test_feedback_retry_budget
RetryBudget == IF request.deepagents THEN request.max_retries ELSE 0

\* Only the DeepAgents planner heeds the resource budget.
Capped(r) == request.deepagents /\ request.cap[r] # NoCap

\* remaining_model_responses, remaining_model_tokens
Remaining(r) == IF used[r] < request.cap[r] THEN request.cap[r] - used[r] ELSE 0

\* Mutant: the reserve itself counts as headroom.
ReserveSuffices == \E r \in Resource : Capped(r) /\ Remaining(r) < Reserve

\* _retry_resource_budget_block
BudgetBlocksRetry == \E r \in Resource : Capped(r) /\ Remaining(r) <= Reserve

\* resource_budget_response_limit, resource_budget_token_limit
Allowance(r) == Remaining(r)

\* What an attempt may consume: the callback refuses a response beyond the
\* allowance before it is made, and notices tokens beyond it only afterwards.
\* A resource without a cap is not counted: nothing reads its count.
Spendable == {n \in [Resource -> 0..MaxSpend] :
                  /\ Capped("responses") => n["responses"] <= Allowance("responses")
                  /\ \A r \in Resource : ~Capped(r) => n[r] = 0}

WithinTokens(n) == Capped("tokens") => n["tokens"] <= Allowance("tokens")

Plus(f, n) == [r \in Resource |-> f[r] + n[r]]

\* Mutant: an environment failure is retried like any other.
RetryAnyFailure ==
    /\ RetryBudget > 0
    /\ attempt <= RetryBudget
    /\ IF patch = "none" THEN test # "passed" ELSE test \notin {"none", "passed"}

\* should_retry_with_test_feedback
ShouldRetry ==
    /\ RetryBudget > 0
    /\ attempt <= RetryBudget
    /\ test \notin Environment
    /\ \/ patch = "none" /\ test # "passed"
       \/ patch # "none" /\ test \notin {"none", "passed"}
       \/ HighRisk

-----------------------------------------------------------------------------
(* The steps of the run *)

\* Clone or copy, index, select context, build the runtime and the sandbox.
Prepare ==
    /\ pc = "prepare"
    /\ pc' = "capture"
    /\ checkout' = Pristine
    /\ UNCHANGED <<request, status, attempt, copies, trial, resources>>

\* WorkspaceRestorer.create
CaptureBaseline ==
    /\ pc = "capture"
    /\ pc' = "plan"
    /\ restorer' = TRUE
    /\ IF RetryBudget > 0 THEN baseline' = "whole" /\ saved' = checkout
                          ELSE UNCHANGED <<baseline, saved>>
    /\ UNCHANGED <<request, status, attempt, checkout, trial, resources>>

\* The copy raises half way: run() never gets a restorer to clean up with.
CaptureFails ==
    /\ pc = "capture"
    /\ RetryBudget > 0
    /\ pc' = "finally"
    /\ status' = "failed"
    /\ baseline' = "partial"
    /\ UNCHANGED <<request, attempt, checkout, saved, restorer, trial, resources>>

\* What every attempt of the runtime does, whatever it returns.
BeginAttempt(p, n) ==
    /\ pc = "plan"
    /\ pc' = "test"
    /\ attempt' = attempt + 1
    /\ patch' = p
    /\ spent' = Plus(spent, n)
    /\ UNCHANGED <<request, status, copies, test, diff, verdict>>

\* A plan that passes the validation and the patch gate is applied.
PlanAndEdit ==
    \E n \in Spendable, p \in {"clean", "risky"} :
        /\ WithinTokens(n)
        /\ BeginAttempt(p, n)
        /\ checkout' = checkout \cup {<<attempt + 1, "edit">>}
        /\ used' = Plus(used, n)

\* Mutant: an attempt that edits nothing is not counted.
RejectionUncounted ==
    \E n \in Spendable :
        /\ pc = "plan"
        /\ pc' = "test"
        /\ patch' = "none"
        /\ spent' = Plus(spent, n)
        /\ used' = Plus(used, n)
        /\ UNCHANGED <<request, status, attempt, checkout, copies, test, diff, verdict>>

\* No plan, a rejected plan or edit, or the budget callback stopped the agent.
PlanRejected ==
    \E n \in Spendable :
        /\ BeginAttempt("none", n)
        /\ used' = Plus(used, n)
        /\ UNCHANGED checkout

\* The invocation fails with any other exception: _failure_metadata counts
\* nothing, whatever was spent.
InvocationFails ==
    \E n \in Spendable :
        /\ request.deepagents
        /\ WithinTokens(n)
        /\ BeginAttempt("none", n)
        /\ UNCHANGED <<used, checkout>>

\* run_sandbox_attempt
SandboxReturns(t, droppings) ==
    /\ (t = "none") <=> ~request.command
    /\ t = "not_started" => request.docker
    /\ t \in {"none", "policy_blocked", "not_started"} => droppings = {}
    /\ test' = t
    /\ checkout' = checkout \cup droppings

\* Mutant: an attempt without a patch keeps the diff of the one before.
StaleDiff(c) == IF patch # "none" THEN {<<attempt, "edit">>} ELSE diff

\* The agent's own diff, else `git diff' on the checkout c.
FinalDiff(c) == IF patch # "none" THEN {<<attempt, "edit">>}
                ELSE IF request.repo = "plain" THEN {} ELSE c

RunSandbox ==
    /\ pc = "test"
    /\ pc' = "judge"
    /\ \E t \in Test, droppings \in SUBSET {<<attempt, "droppings">>} :
          SandboxReturns(t, droppings)
    /\ diff' = FinalDiff(checkout')
    /\ UNCHANGED <<request, status, attempt, copies, patch, verdict, resources>>

\* A local sandbox that times out kills the command it started, and nothing
\* that command has started itself.
StragglerWrites ==
    /\ test = "timed_out"
    /\ ~request.docker
    /\ pc \notin {"test", "ended", "dead"}
    /\ checkout' = checkout \cup {<<attempt, "droppings">>}
    /\ UNCHANGED <<request, pc, status, attempt, copies, trial, resources>>

\* The analysis and the decision to retry.
Judge ==
    /\ pc = "judge"
    /\ verdict' = Analysis
    /\ pc' = IF ShouldRetry /\ ~BudgetBlocksRetry THEN "remove" ELSE "report"
    /\ UNCHANGED <<request, status, attempt, checkout, copies, patch, test, diff,
                   resources>>

\* Mutant: the baseline is copied over the checkout instead of replacing it.
OverlayCheckout ==
    /\ pc = "remove"
    /\ pc' = "copy"
    /\ checkout' = {m \in checkout : m[2] = "droppings"}
    /\ UNCHANGED <<request, status, attempt, copies, trial, resources>>

\* WorkspaceRestorer.restore: rmtree, then copytree.
RemoveCheckout ==
    /\ pc = "remove"
    /\ pc' = "copy"
    /\ checkout' = {}
    /\ UNCHANGED <<request, status, attempt, copies, trial, resources>>

CopyBaseline ==
    /\ pc = "copy"
    /\ pc' = "plan"
    /\ checkout' = checkout \cup saved
    /\ UNCHANGED <<request, status, attempt, copies, trial, resources>>

\* final.diff, report.md
WriteReport ==
    /\ pc = "report"
    /\ pc' = "finally"
    /\ status' = "completed"
    /\ UNCHANGED <<request, attempt, checkout, copies, trial, resources>>

\* Any other exception (git, a file that is not UTF-8, a full disk, a sandbox
\* binary that is missing, a restore that fails half way) or a keyboard
\* interrupt leaves through the finally clause.
Raise ==
    /\ pc \notin {"finally", "ended", "dead"}
    /\ pc' = "finally"
    /\ status' = "failed"
    /\ UNCHANGED <<request, attempt, checkout, copies, trial, resources>>

\* Mutant: the cleanup moves from the finally clause to the end of the try.
CleanupOnSuccess ==
    /\ pc = "finally"
    /\ pc' = "ended"
    /\ baseline' = IF status = "completed" THEN "absent" ELSE baseline
    /\ UNCHANGED <<request, status, attempt, checkout, saved, restorer, trial, resources>>

\* The finally clause.
Cleanup ==
    /\ pc = "finally"
    /\ pc' = "ended"
    /\ baseline' = IF restorer THEN "absent" ELSE baseline
    /\ UNCHANGED <<request, status, attempt, checkout, saved, restorer, trial, resources>>

\* The process is killed: no handler runs.
Kill ==
    /\ pc \notin {"ended", "dead"}
    /\ pc' = "dead"
    /\ status' = IF status = "running" THEN "killed" ELSE status
    /\ UNCHANGED <<request, attempt, checkout, copies, trial, resources>>

Step ==
    \/ Prepare
    \/ CaptureBaseline
    \/ CaptureFails
    \/ PlanAndEdit
    \/ PlanRejected
    \/ InvocationFails
    \/ RunSandbox
    \/ Judge
    \/ RemoveCheckout
    \/ CopyBaseline
    \/ WriteReport
    \/ Cleanup

Next == Step \/ StragglerWrites \/ Raise \/ Kill

Spec == Init /\ [][Next]_vars

\* Every call the run makes returns: the sandbox and git run under a timeout,
\* the model client under the provider's.
FairSpec == Spec /\ WF_vars(Step)

-----------------------------------------------------------------------------
(* Properties *)

TypeOK ==
    /\ request \in Request
    /\ pc \in {"prepare", "capture", "plan", "test", "judge", "remove", "copy",
               "report", "finally", "ended", "dead"}
    /\ status \in {"running", "completed", "failed", "killed"}
    /\ attempt \in 0..(RetryBudget + 1)
    /\ checkout \subseteq Mark
    /\ saved \subseteq Mark
    /\ baseline \in {"absent", "partial", "whole"}
    /\ restorer \in BOOLEAN
    /\ patch \in Patch
    /\ test \in Test
    /\ diff \subseteq Mark
    /\ verdict \in Verdict \cup {"none"}
    /\ used \in [Resource -> Nat]
    /\ spent \in [Resource -> Nat]

\* Every attempt begins on the tree the run was given: no edit of an earlier
\* attempt, no file its tests wrote, nothing a straggler of a timed-out test
\* writes after the restore, and the user's uncommitted edits still there
\* (WorkspaceRestorer, "the failed patch has been reverted").
CleanStart == [][attempt' # attempt => checkout = Pristine]_vars

EditsOf(marks) == {m \in marks : m[2] = "edit"} \ Pristine

\* The diff a completed run reports is the one its checkout holds, and the
\* verdict is about that patch (final_diff and repair_analysis at the end of
\* the loop).
ReportMatches ==
    status = "completed" =>
        /\ EditsOf(diff) = EditsOf(checkout)
        /\ verdict \in {"patch_validated", QualityWarning} =>
               <<attempt, "edit">> \in checkout /\ test = "passed"

\* A pending restore finds a whole copy of the pristine tree, and a run that
\* got its restorer leaves no copy behind, however it ends short of being killed.
BaselineLifetime ==
    /\ pc \in {"remove", "copy"} => baseline = "whole" /\ saved = Pristine
    /\ pc = "ended" /\ restorer => baseline = "absent"

\* Over all attempts together, the responses the trace accounts for stay
\* within the cap (_runtime_config_with_resource_usage and the callback).
RecordedWithinCap ==
    Capped("responses") => used["responses"] <= request.cap["responses"]

\* A retry starts with more than the reserve left of every capped resource
\* (_retry_resource_budget_block).
RetryHasHeadroom ==
    [][attempt' # attempt /\ attempt > 0 =>
          \A r \in Resource : Capped(r) => used[r] + Reserve < request.cap[r]]_vars

\* The run ends: attempts that edit nothing count too, and no retry waits for
\* anything but the calls it makes (the loop of RepairRunner.run).
Termination == <>(pc \in {"ended", "dead"})

Retryable == {QualityWarning, "patch_failed_tests", "no_patch_generated",
              "no_patch_tests_failed"}

Trials == INSTANCE TrialSpec WITH
    limit <- RetryBudget,
    capped <- \E r \in Resource : Capped(r),
    trials <- attempt,
    open <- pc \in {"test", "judge"},
    outcome <- IF status \in {"running", "completed"} THEN status ELSE "abandoned"

\* The loop is a bounded series of trials: judged before retried, never
\* retried on a verdict that puts the blame on the environment, and given up
\* early only for a capped resource.
ImplementsTrials == Trials!Spec
=============================================================================
