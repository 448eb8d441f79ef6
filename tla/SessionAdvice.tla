--------------------------- MODULE SessionAdvice ---------------------------
(***************************************************************************)
(* What a chat session tells its user to do next (session/                 *)
(* recommendations.py, metrics.py, gates.py and their commands in          *)
(* chat/handlers/session_evidence.py), composed with the apply gate that   *)
(* decides what the user may do.  Both read the same transcript, each by   *)
(* rules of its own: the guard looks for the events of one diff, /next and *)
(* /gate look for the newest event of each kind, whatever diff it is of.   *)
(*                                                                         *)
(* The user does what moves the advice on, a few detours aside.  A run    *)
(* ends with tests that pass ("validated"), with tests that fail           *)
(* ("failed"), or without a patch and with its model budget spent          *)
(* ("starved"); runs that end alike have the same failure signature.  A    *)
(* checkpoint is taken with no planned task pending.  The user_task that   *)
(* opens every run is not told apart from the row that ends it.            *)
(***************************************************************************)
EXTENDS ApplyGate

CONSTANTS OffAdvice,    \* what the user may do off the advice, runs that raise included
          MaxDetours    \* bound: how many times

ASSUME DetourAssumption == MaxDetours \in Nat

VARIABLES outcome,    \* how each run ended, as its run_result records it
          advice,     \* what /next answers on the transcript as it is
          detours     \* detours so far

advVars == <<log, last, file, tree, inflight, up, crashes, outcome, advice, detours>>

Outcome == {"none", "validated", "failed", "starved"}

Named(s, names) == {i \in 1..Len(s) : s[i].event \in names}

\* The newest row of a kind, of any diff; 0 stands for the code's -1.
Latest(s, name) == Newest(Named(s, {name}))

Runs(s) == Named(s, {"run_result"})

-----------------------------------------------------------------------------
(* /gate *)

\* A validated run, every run validated, no run error.
CleanPasses(s, out) ==
    /\ Runs(s) # {}
    /\ \A i \in Runs(s) : out[s[i].diff] = "validated"
    /\ Named(s, {"run_error"}) = {}

\* Mutant: a ready check counts although the diff was reviewed again later.
ReadyChecksOfRun(s) ==
    {i \in Named(s, {"apply_check_result"}) :
        i > Latest(s, "run_result") /\ s[i].mark = "ok"}

\* The ready checks after the newest review after the newest run.
CurrentReadyChecks(s) ==
    {i \in Named(s, {"apply_check_result"}) :
        /\ Latest(s, "diff_review") > Latest(s, "run_result")
        /\ i > Latest(s, "diff_review")
        /\ s[i].mark = "ok"}

\* /gate reviewed.
ReviewedPasses(s, out) ==
    /\ CleanPasses(s, out)
    /\ Latest(s, "diff_review") > Latest(s, "run_result")
    /\ s[Latest(s, "diff_review")].mark # "guarded"
    /\ CurrentReadyChecks(s) # {}

-----------------------------------------------------------------------------
(* /next *)

PlanEvents == {"plan_mode_task", "plan_mode_cancel", "session_clear",
               "session_restore", "run_result", "run_error"}

PlanPending(s) ==
    LET at == Newest(Named(s, PlanEvents))
    IN at > 0 /\ s[at].event = "plan_mode_task"

Preflighted(s) ==
    LET at == Latest(s, "preflight")
    IN at > Latest(s, "plan_mode_task") /\ s[at].mark = "ok"

PreflightBlocked(s) ==
    Latest(s, "preflight") > 0 /\ s[Latest(s, "preflight")].mark # "ok"

\* Mutant: the error is looked for since the newest run.
ErrorSinceRun(s) == Latest(s, "run_error") > Latest(s, "run_result")

ErrorIsNewest(s) == s[Len(s)].event = "run_error"

Strategy == {"feedback_update", "budget_update"}

\* Mutant: the newest run is not counted.
AlikeBefore(s, out) ==
    {i \in Runs(s) :
        /\ i < Latest(s, "run_result")
        /\ out[s[i].diff] = out[s[Latest(s, "run_result")].diff]
        /\ \A k \in Named(s, Strategy) : k < i}

\* From the newest run back, the runs that ended like it, up to another
\* outcome or a change of strategy.
AlikeRuns(s, out) ==
    {i \in Runs(s) :
        /\ \A k \in Runs(s) : k >= i => out[s[k].diff] = out[s[Latest(s, "run_result")].diff]
        /\ \A k \in Named(s, Strategy) : k < i}

RepeatedFailure(s, out) ==
    /\ out[s[Latest(s, "run_result")].diff] # "validated"
    /\ Cardinality(AlikeRuns(s, out)) >= 2

BudgetPressure(s, out) ==
    /\ out[s[Latest(s, "run_result")].diff] = "starved"
    /\ Latest(s, "budget_update") < Latest(s, "run_result")

\* Mutant: a rejection is only compared with the approvals.
RejectionUnapproved(s) ==
    Latest(s, "apply_rejection") > Latest(s, "apply_approval")

RejectionStands(s) ==
    /\ Latest(s, "apply_rejection") >= Latest(s, "apply_check_result")
    /\ Latest(s, "apply_rejection") > Latest(s, "apply_approval")

\* Reviewed since the newest run, not applied since.
ApplyStage(s) ==
    LET review == Latest(s, "diff_review")
        check  == Latest(s, "apply_check_result")
        high   == s[review].mark = "guarded"
    IN IF check < review THEN IF high THEN "resolve risk" ELSE "check"
       ELSE IF s[check].mark # "ok" THEN "resolve check"
       ELSE IF RejectionStands(s) THEN "revise"
       ELSE IF high /\ Latest(s, "apply_approval") < check THEN "decide"
       ELSE "apply"

\* Mutant: a /verify of the tree before the apply will do.
UnverifiedRun(s) == Latest(s, "verify_result") < Latest(s, "run_result")

Unverified(s) == Latest(s, "verify_result") < Latest(s, "apply_result")

\* The newest run is validated.
PromotionStage(s) ==
    LET run == Latest(s, "run_result")
    IN IF Latest(s, "run_evidence") < run THEN "trace"
       ELSE IF Latest(s, "session_gate") < run THEN "gate"
       ELSE IF Latest(s, "apply_result") < run
         THEN IF Latest(s, "diff_review") > run THEN ApplyStage(s)
              ELSE IF Latest(s, "diff_view") < run THEN "view" ELSE "review"
       ELSE IF Unverified(s) THEN "verify"
       ELSE IF Latest(s, "session_checkpoint") < run THEN "checkpoint"
       ELSE "export"

\* session_recommendation.
Advice(s, out) ==
    IF PlanPending(s) THEN IF Preflighted(s) THEN "run plan" ELSE "fix readiness"
    ELSE IF Runs(s) = {} THEN IF PreflightBlocked(s) THEN "unblock" ELSE "start"
    ELSE IF ErrorIsNewest(s) THEN "inspect error"
    ELSE IF RepeatedFailure(s, out) THEN "break loop"
    ELSE IF BudgetPressure(s, out) THEN "adjust budget"
    ELSE IF out[s[Latest(s, "run_result")].diff] # "validated" THEN "retry"
    ELSE PromotionStage(s)

\* The commands each answer names; those that record nothing it reads left out.
Commands(a) ==
    CASE a \in {"fix readiness"}           -> {"doctor", "preflight", "cancel"}
      [] a \in {"run plan"}                -> {"run", "cancel"}
      [] a \in {"unblock"}                 -> {"doctor", "preflight"}
      [] a \in {"start"}                   -> {"preflight", "run"}
      [] a \in {"inspect error"}           -> {"doctor"}
      [] a \in {"break loop"}              -> {"trace", "feedback"}
      [] a \in {"adjust budget"}           -> {"trace", "budget", "feedback"}
      [] a \in {"retry"}                   -> {"trace", "feedback", "run"}
      [] a \in {"trace"}                   -> {"trace", "gate"}
      [] a \in {"gate"}                    -> {"gate", "checkpoint"}
      [] a \in {"view"}                    -> {"view"}
      [] a \in {"review"}                  -> {"review", "view"}
      [] a \in {"resolve risk", "revise"}  -> {"view", "feedback", "run"}
      [] a \in {"check"}                   -> {"check", "view"}
      [] a \in {"resolve check"}           -> {"view", "run"}
      [] a \in {"decide"}                  -> {"approve", "reject", "view"}
      [] a \in {"apply"}                   -> {"apply", "checkpoint"}
      [] a \in {"verify"}                  -> {"verify", "checkpoint"}
      [] a \in {"checkpoint"}              -> {"checkpoint"}
      [] a \in {"export"}                  -> {"run"}

-----------------------------------------------------------------------------
(* The user at the prompt *)

\* A command that the bounds leave room for.
May(c) ==
    /\ Len(log) < MaxEvents
    /\ \/ c \in Commands(advice)
       \/ c \in OffAdvice /\ detours < MaxDetours

\* The user gives command c, and /next answers anew.  A command that the
\* advice names and that moves it on is no detour.
Give(c) ==
    /\ May(c)
    /\ advice' = Advice(log', outcome')
    /\ IF c \in Commands(advice) /\ (advice' # advice \/ c \in {"run", "apply"})
         THEN UNCHANGED detours
         ELSE /\ c \in OffAdvice
              /\ detours < MaxDetours
              /\ detours' = detours + 1

\* A command whose only effect here is its row.
Note(name, mark) ==
    /\ Idle
    /\ Record(Entry(name, NoRun, mark))
    /\ UNCHANGED <<last, file, tree, inflight, up, crashes, outcome>>

RunTask(d) ==
    /\ May("run")
    /\ FinishRun(d)
    /\ \E o \in Outcome \ {"none"} :
          /\ o = "starved" => file'[d] = "void"
          /\ o = "failed" => file'[d] = "plain"
          /\ outcome' = [outcome EXCEPT ![d] = o]
    /\ Give("run")

\* run_agent_once raises; the previous run stays current.
RunError == Note("run_error", "none") /\ Give("failing run")

PlanTask ==
    /\ Note("plan_mode_task", "none")
    /\ Give("plan")

Preflight == \E mark \in {"ok", "refused"} : Note("preflight", mark) /\ Give("preflight")

CancelPlan == PlanPending(log) /\ Note("plan_mode_cancel", "none") /\ Give("cancel")

Trace == last # NoRun /\ Note("run_evidence", "none") /\ Give("trace")

GateClean ==
    /\ Note("session_gate", IF CleanPasses(log, outcome) THEN "ok" ELSE "refused")
    /\ Give("gate")

ViewDiff   == last # NoRun /\ Note("diff_view", "none") /\ Give("view")
Verify     == Note("verify_result", "none") /\ Give("verify")
Checkpoint == Note("session_checkpoint", "none") /\ Give("checkpoint")
Feedback   == Note("feedback_update", "none") /\ Give("feedback")

RaiseBudget == Note("budget_update", "none") /\ Give("budget")

Doctor     == Note("doctor", "none") /\ Give("doctor")

\* /apply that the guard stops, or that git refuses.
ApplyBlocked ==
    /\ May("apply")
    /\ last # NoRun
    /\ ~GuardPasses(log, last)
    /\ Note("apply_blocked", "none")
    /\ Give("apply")

ApplyRefused ==
    /\ May("apply")
    /\ last # NoRun
    /\ Idle
    /\ GuardPasses(log, last)
    /\ Record(Entry("apply_result", last, "refused"))
    /\ UNCHANGED <<last, file, tree, inflight, up, crashes, outcome>>
    /\ Give("apply")

\* The commands of the gate itself.
GateCommand ==
    /\ UNCHANGED outcome
    /\ \E d \in Run :
          \/ May("review") /\ ReviewDiff(d) /\ Give("review")
          \/ May("check") /\ CheckApply(d) /\ Give("check")
          \/ May("approve") /\ Decide(d, "apply_approval") /\ Give("approve")
          \/ May("reject") /\ Decide(d, "apply_rejection") /\ Give("reject")
          \/ May("apply") /\ GitApply(d) /\ Give("apply")
          \/ May("rewind") /\ GitReverse(d) /\ Give("rewind")
          \/ May("restore") /\ RestoreCheckpoint(d) /\ Give("restore")

\* The row that ends an /apply or a /rewind.
RecordGit ==
    /\ RecordGitResult
    /\ advice' = Advice(log', outcome)
    /\ UNCHANGED <<outcome, detours>>

Clear == ClearSession /\ UNCHANGED outcome /\ Give("clear")

AdvInit ==
    /\ Init
    /\ outcome = [d \in Run |-> "none"]
    /\ advice = "start"
    /\ detours = 0

AdvNext ==
    \/ \E d \in Run : RunTask(d)
    \/ RunError
    \/ PlanTask
    \/ Preflight
    \/ CancelPlan
    \/ Trace
    \/ GateClean
    \/ ViewDiff
    \/ Verify
    \/ Checkpoint
    \/ Feedback
    \/ RaiseBudget
    \/ Doctor
    \/ ApplyBlocked
    \/ ApplyRefused
    \/ GateCommand
    \/ RecordGit
    \/ Clear

AdvSpec == AdvInit /\ [][AdvNext]_advVars

-----------------------------------------------------------------------------
(* Properties *)

\* The diff the commands act on has been that of the newest run since the run.
Undisturbed ==
    \A i \in Named(log, {"session_clear", "session_restore"}) : i < Latest(log, "run_result")

\* Between a run and the next /restore or /clear, the advice and the guard
\* agree: /apply is advised only when the guard lets it through, and another
\* attempt is advised in its place exactly when a rejection is all that the
\* guard holds against the diff (session_recommendation, apply_guard).
AdviceMatchesGuard ==
    inflight = NoRun /\ Undisturbed =>
        /\ advice = "apply" => GuardPasses(log, last)
        /\ advice = "revise" => Prerequisites(log, last) /\ Rejected(log, last)

\* The user is never advised to run the same failure a third time: a run that
\* follows the advice was not preceded by two runs that ended alike, without
\* their tests passing, and no feedback or budget change since the first.
NoBlindRetry ==
    [][\A i, j \in Runs(log) :
           /\ i < j
           /\ Runs(log) # Runs(log')
           /\ detours' = detours
           /\ advice \in {"retry", "adjust budget"}
           /\ j = Latest(log, "run_result")
           /\ outcome[log[i].diff] = outcome[log[j].diff]
           /\ \A k \in Runs(log) : k <= i \/ k >= j
           => \E k \in Named(log, Strategy) : k > i]_advVars

\* The row each command adds when nothing stops it, to see what /next makes of it.
Succeeds(c) ==
    CASE c = "doctor"     -> Entry("doctor", NoRun, "none")
      [] c = "preflight"  -> Entry("preflight", NoRun, "ok")
      [] c = "cancel"     -> Entry("plan_mode_cancel", NoRun, "none")
      [] c = "trace"      -> Entry("run_evidence", NoRun, "none")
      [] c = "gate"       -> Entry("session_gate", NoRun, "none")
      [] c = "view"       -> Entry("diff_view", NoRun, "none")
      [] c = "review"     -> Entry("diff_review", last, "plain")
      [] c = "check"      -> Entry("apply_check_result", last, "refused")
      [] c = "approve"    -> Entry("apply_approval", last, "none")
      [] c = "reject"     -> Entry("apply_rejection", last, "none")
      [] c = "apply"      -> Entry("apply_result", last, "ok")
      [] c = "verify"     -> Entry("verify_result", NoRun, "none")
      [] c = "checkpoint" -> Entry("session_checkpoint", NoRun, "none")
      [] c = "feedback"   -> Entry("feedback_update", NoRun, "none")
      [] c = "budget"     -> Entry("budget_update", NoRun, "none")

\* Between a run and the next /restore or /clear the advice never goes round
\* in circles: unless it names another run, one of the commands it names
\* moves it on, a failed dry run included.
AdviceMovesOn ==
    inflight = NoRun /\ Undisturbed /\ "run" \notin Commands(advice) =>
        \E c \in Commands(advice) : Advice(Append(log, Succeeds(c)), outcome) # advice

\* A session is advised to export only when its newest run was applied by an
\* /apply that the guard let through, and verified after that.
ExportIsEarned ==
    advice = "export" =>
        \E i \in Named(log, {"apply_result"}), k \in Named(log, {"verify_result"}) :
            /\ Latest(log, "run_result") < i
            /\ i < k
            /\ GuardPasses(SubSeq(log, 1, i - 1), log[i].diff)

\* Between a run and the next /restore or /clear, a diff that /gate reviewed
\* lets through is one that /apply lets through without anyone's approval,
\* unless it was rejected or a later dry run failed.
ReviewedGateMatchesGuard ==
    /\ inflight = NoRun
    /\ Undisturbed
    /\ last # NoRun
    /\ ReviewedPasses(log, outcome)
    => \/ GuardPasses(log, last)
       \/ Rejected(log, last)
       \/ ~Ready(log, last)
=============================================================================
