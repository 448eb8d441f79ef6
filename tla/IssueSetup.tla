----------------------------- MODULE IssueSetup ------------------------------
(***************************************************************************)
(* How a public issue gets a working test command: the focused-test half   *)
(* of evaluation/issue_corpus, for one task of the corpus.  Every stage is *)
(* a command of its own.  It reads the artifacts of earlier stages as they *)
(* are on disk, whenever they were written, and overwrites its own, in the *)
(* order and with the options its user chooses.  What a test or install    *)
(* command does is a free choice each time.  IssueRepair goes on from the  *)
(* verdict.                                                                *)
(***************************************************************************)
EXTENDS Naturals

CONSTANTS NoFile,    \* the artifact has not been written
          NoRow,     \* the artifact has no row for the task: --max-tasks left it out
          MaxReruns  \* bound: stages run again, and changes of the world, in a behaviour

ASSUME SetupAssumption ==
    /\ MaxReruns \in Nat
    /\ NoFile # NoRow
    /\ NoRow \notin {"clean", "warning", "passed", "skipped"}
    /\ NoFile \notin {"clean", "warning", "passed", "skipped"}

VARIABLES snapshot,    \* whether the checkout of the issue's repository is there
          smoke,       \* the status of the saved docker smoke report
          plan,        \* focused_test_plan: whether its command can be run
          run,         \* focused_test_run: status and what the saved log shows
          diagnosis,   \* focused_test_diagnosis: the category
          setupPlan,   \* focused_test_setup_plan: the status
          readiness,   \* focused_test_setup_readiness
          execution,   \* focused_test_setup_execution: the status
          validation,  \* focused_test_setup_validation: status and network
          verdict,     \* public_issue_repair_readiness, without its reproduction part
          ordered,     \* history: how many stages from the first were run in order
          installs,    \* history: how dependency installs have been run
          exercised,   \* history: setup validation has seen the command exit zero
          reruns       \* history: what MaxReruns bounds

artifacts == <<plan, run, diagnosis, setupPlan, readiness, execution, validation, verdict>>
vars == <<snapshot, smoke, artifacts, ordered, installs, exercised, reruns>>

Modes == {"local", "docker"}
Networks == {"none", "bridge"}
Finished == {"passed", "failed", "timed_out"}

\* What diagnose_focused_test_run_record tells apart in the log of a failing
\* run: a signature some install may cure, or anything else, an empty log
\* included: the row of a failing run says how it exited, so that its logs never
\* count as missing.
Logs == {"installable", "other"}

\* What the setup commands take: --max-tasks may leave the task out besides.
ExecuteOptions ==
    [dry : BOOLEAN, accepted : BOOLEAN, allowInstalls : BOOLEAN, mode : Modes, network : Networks]

ValidateOptions == [dry : BOOLEAN, network : Networks]

Category(r) ==
    CASE r.status = "passed" -> "focused_test_passed"
      [] r.status = "timed_out" -> "timeout"
      [] r.status = "blocked" -> "execution_blocked"
      [] r.status = "failed" /\ r.log = "installable" -> "install_needed"
      [] OTHER -> "nonzero_exit"

\* The categories whose severity is dependency, environment or blocked.
Severe == {"timeout", "execution_blocked", "install_needed"}

\* The row of the task in each artifact: what a later stage reads of it.
PlanRow       == {"runnable", "not_runnable"}
RunRow        == [status : Finished \cup {"blocked"}, log : Logs \cup {"none"}]
DiagnosisRow  == Severe \cup {"focused_test_passed", "nonzero_exit"}
SetupPlanRow  == {"ready", "planned", "manual_review"}
ReadinessRow  == [status : {"ready", "warning", "blocked"}, setup : SetupPlanRow,
                  smoke : {"passed", "not_available"}]
ExecutionRow  == Finished \cup {"skipped", "dry_run", "blocked"}
ValidationRow == [status : Finished \cup {"dry_run", "blocked"}, network : Networks]
VerdictRow    == {"clean", "warning", "blocked"}

\* Mutant: a failure without a signature is taken to need no setup.
SetupUnlessInstall(category) ==
    IF category = "install_needed" THEN "planned" ELSE "ready"

SetupStatus(category) ==
    CASE category = "focused_test_passed" -> "ready"
      [] category = "install_needed" -> "planned"
      [] OTHER -> "manual_review"

\* A planned setup has commands and wants the network; all but a ready one
\* want a sandbox.
NeedsInstall(status) == status = "planned"

ReadinessStatus(status) ==
    IF \/ ~snapshot
       \/ status = "manual_review"
       \/ status # "ready" /\ smoke # "passed"
    THEN "blocked"
    ELSE IF NeedsInstall(status) THEN "warning" ELSE "ready"

-----------------------------------------------------------------------------

Init ==
    /\ snapshot = TRUE
    /\ smoke \in {"passed", "not_available"}
    /\ plan = NoFile /\ run = NoFile /\ diagnosis = NoFile /\ setupPlan = NoFile
    /\ readiness = NoFile /\ execution = NoFile /\ validation = NoFile /\ verdict = NoFile
    /\ ordered = 0
    /\ installs = {}
    /\ exercised = FALSE
    /\ reruns = 0

\* Stage k is run: it continues the ordered ones, or starts over from where it
\* stands in them, or comes too early to count.
Ran(k, artifact) ==
    /\ ordered' = IF ordered >= k - 1 THEN k ELSE ordered
    /\ reruns' = IF artifact = NoFile THEN reruns ELSE reruns + 1
    /\ reruns' <= MaxReruns

\* A row of the stage that reads artifact, by its operator, if there is one.
RowOf(artifact, row) == IF artifact = NoRow THEN NoRow ELSE row

\* Every stage writes its rows over those of its last run, whole: a task that
\* it left out this time loses the row it had.
SavePlan(row)       == plan' = row
SaveRun(row)        == run' = row
SaveDiagnosis(row)  == diagnosis' = row
SaveSetupPlan(row)  == setupPlan' = row
SaveReadiness(row)  == readiness' = row
SaveExecution(row)  == execution' = row
SaveValidation(row) == validation' = row
SaveVerdict(row)    == verdict' = row

\* A checkout is lost and made again by commands outside this pipeline, and so
\* is the docker smoke report.
World ==
    /\ reruns < MaxReruns
    /\ reruns' = reruns + 1
    /\ \/ snapshot' = ~snapshot /\ UNCHANGED smoke
       \/ smoke' \in {"passed", "not_available"} \ {smoke} /\ UNCHANGED snapshot
    /\ UNCHANGED <<artifacts, ordered, installs, exercised>>

\* A plan that names missing test files is blocked, and still has a command
\* that policy allows; the run looks at the command only.
PlanFocusedTest ==
    /\ \E row \in PlanRow : SavePlan(row)
    /\ Ran(1, plan)
    /\ UNCHANGED <<snapshot, smoke, run, diagnosis, setupPlan, readiness, execution,
                   validation, verdict, installs, exercised>>

RunFocusedTest ==
    /\ plan # NoFile
    /\ \E row \in {NoRow} \cup
             IF plan = "not_runnable" \/ ~snapshot
             THEN {[status |-> "blocked", log |-> "none"]}
             ELSE {[status |-> s, log |-> "none"] : s \in {"passed", "timed_out", "blocked"}}
                    \cup [status : {"failed"}, log : Logs] :
          SaveRun(row)
    /\ Ran(2, run)
    /\ UNCHANGED <<snapshot, smoke, plan, diagnosis, setupPlan, readiness, execution,
                   validation, verdict, installs, exercised>>

Diagnose ==
    /\ run # NoFile
    /\ SaveDiagnosis(RowOf(run, Category(run)))
    /\ Ran(3, diagnosis)
    /\ UNCHANGED <<snapshot, smoke, plan, run, setupPlan, readiness, execution, validation,
                   verdict, installs, exercised>>

PlanSetup ==
    /\ diagnosis # NoFile
    /\ SaveSetupPlan(RowOf(diagnosis, SetupStatus(diagnosis)))
    /\ Ran(4, setupPlan)
    /\ UNCHANGED <<snapshot, smoke, plan, run, diagnosis, readiness, execution, validation,
                   verdict, installs, exercised>>

CheckSetupReadiness ==
    /\ setupPlan # NoFile
    /\ SaveReadiness(RowOf(setupPlan, [status |-> ReadinessStatus(setupPlan),
                                       setup |-> setupPlan, smoke |-> smoke]))
    /\ Ran(5, readiness)
    /\ UNCHANGED <<snapshot, smoke, plan, run, diagnosis, setupPlan, execution, validation,
                   verdict, installs, exercised>>

\* Mutant: the network of the sandbox is not looked at.
RefusedOnAnyNetwork(dry, accepted, mode, network, allowInstalls) ==
    \/ readiness.status = "blocked"
    \/ readiness.status = "warning" /\ ~accepted
    \/ ~snapshot
    \/ NeedsInstall(readiness.setup) /\ ~allowInstalls

\* execute_focused_test_setup_record.  The installs pass only the policy that
\* allow_dependency_installs selects.
SetupRefused(dry, accepted, mode, network, allowInstalls) ==
    \/ readiness.status = "blocked"
    \/ readiness.status = "warning" /\ ~accepted
    \/ ~snapshot
    \/ NeedsInstall(readiness.setup) /\ mode = "docker" /\ ~dry /\ network = "none"
    \/ NeedsInstall(readiness.setup) /\ ~allowInstalls

ExecuteSetup(dry, accepted, mode, network, allowInstalls) ==
    /\ readiness # NoFile
    /\ allowInstalls => mode = "docker"
    /\ \/ /\ SaveExecution(NoRow)
          /\ UNCHANGED installs
       \/ /\ readiness # NoRow
          /\ LET refused == SetupRefused(dry, accepted, mode, network, allowInstalls)
             IN  IF refused \/ ~NeedsInstall(readiness.setup) \/ dry
                 THEN /\ SaveExecution(IF refused THEN "blocked"
                                       ELSE IF NeedsInstall(readiness.setup) THEN "dry_run"
                                       ELSE "skipped")
                      /\ UNCHANGED installs
                 ELSE /\ \E status \in Finished : SaveExecution(status)
                      /\ installs' = installs \cup
                             {[mode |-> mode, network |-> network,
                               smoke |-> readiness.smoke, accepted |-> accepted]}
    /\ Ran(6, execution)
    /\ UNCHANGED <<snapshot, smoke, plan, run, diagnosis, setupPlan, readiness, validation,
                   verdict, exercised>>

\* Mutant: a dry run of the setup is good enough to validate.
SetupNotRefused == execution \in {"passed", "skipped", "dry_run"}

SetupDone == execution \in {"passed", "skipped"}

ValidateSetup(dry, network) ==
    /\ execution # NoFile
    /\ \/ /\ SaveValidation(NoRow)
          /\ UNCHANGED exercised
       \/ /\ execution # NoRow
          /\ \E status \in IF ~SetupDone \/ ~snapshot
                           THEN {"blocked"}
                           ELSE IF dry THEN {"dry_run"} ELSE Finished :
                /\ SaveValidation([status |-> status, network |-> network])
                /\ exercised' = (exercised \/ status = "passed")
    /\ Ran(7, validation)
    /\ UNCHANGED <<snapshot, smoke, plan, run, diagnosis, setupPlan, readiness, execution,
                   verdict, installs>>

\* check_public_issue_repair_readiness_record, but for the reproduction.
FocusedBlocks ==
    \/ run.status = "blocked"
    \/ run.status \in {"failed", "timed_out"} /\ diagnosis # "nonzero_exit"

\* Mutant: a validation that was only a dry run does not block.
ValidationFailed == validation = NoRow \/ validation.status \notin {"passed", "dry_run"}

ValidationBlocks == validation = NoRow \/ validation.status # "passed"

Blocks ==
    \/ ~snapshot
    \/ FocusedBlocks
    \/ diagnosis \in Severe \cup {NoRow}
    \/ ValidationBlocks

Warns ==
    \/ run.status # "passed"
    \/ diagnosis # "focused_test_passed"
    \/ validation.network = "bridge"

JudgeRepair ==
    /\ run # NoFile /\ diagnosis # NoFile /\ validation # NoFile
    /\ SaveVerdict(RowOf(run, IF Blocks THEN "blocked" ELSE IF Warns THEN "warning" ELSE "clean"))
    /\ Ran(8, verdict)
    /\ UNCHANGED <<snapshot, smoke, plan, run, diagnosis, setupPlan, readiness, execution,
                   validation, installs, exercised>>

Next ==
    \/ World
    \/ PlanFocusedTest
    \/ RunFocusedTest
    \/ Diagnose
    \/ PlanSetup
    \/ CheckSetupReadiness
    \/ \E o \in ExecuteOptions :
           ExecuteSetup(o.dry, o.accepted, o.mode, o.network, o.allowInstalls)
    \/ \E o \in ValidateOptions : ValidateSetup(o.dry, o.network)
    \/ JudgeRepair

Spec == Init /\ [][Next]_vars

\* focused_setup_readiness_launch_item, for a corpus of this one task.
SetupItem ==
    CASE readiness = NoFile -> "blocked"
      [] readiness = NoRow -> "ready"
      [] OTHER ->
           IF readiness.status = "blocked" THEN "blocked"
           ELSE IF /\ readiness.status = "warning"
                   /\ \/ validation = NoFile
                      \/ ValidationBlocks
                THEN "warning"
                ELSE "ready"

-----------------------------------------------------------------------------

Rows == {NoFile, NoRow}

\* Every artifact holds what its stage may write.
TypeOK ==
    /\ snapshot \in BOOLEAN /\ exercised \in BOOLEAN
    /\ smoke \in {"passed", "not_available"}
    /\ plan \in {NoFile} \cup PlanRow
    /\ run \in Rows \cup RunRow
    /\ diagnosis \in Rows \cup DiagnosisRow
    /\ setupPlan \in Rows \cup SetupPlanRow
    /\ readiness \in Rows \cup ReadinessRow
    /\ execution \in Rows \cup ExecutionRow
    /\ validation \in Rows \cup ValidationRow
    /\ verdict \in Rows \cup VerdictRow
    /\ ordered \in 0..8 /\ reruns \in 0..MaxReruns
    /\ \A i \in installs : i.mode \in Modes /\ i.network \in Networks

\* A dependency install has only ever run inside docker, with the network it
\* needs, on a readiness report that had seen the docker smoke pass and whose
\* warning the user accepted, though plan, readiness, smoke and options come
\* from commands run at different times (focused_test_setup_execution.py).
InstallsAreConfined ==
    \A i \in installs : i = [mode |-> "docker", network |-> "bridge", smoke |-> "passed",
                            accepted |-> TRUE]

\* When every stage was run in order on the artifacts of the one before, a task
\* is handed on to repair only if its focused test passed before any setup: a
\* failing test ends blocked whatever its log shows, and the warning that
\* public_issue_repair_readiness.py has for an unclassified failure is for
\* artifacts of different ages.
OrderedVerdict ==
    ordered = 8 /\ verdict \in {"clean", "warning"} =>
        /\ run.status = "passed"
        /\ setupPlan = "ready"
        /\ execution = "skipped"

\* However old the artifacts it joins, a verdict that lets a repair go ahead
\* rests on a validation that really ran the test command and saw it pass: no
\* dry run, skipped row or blocked setup stands in for one.
UnblockedWasRun == verdict \in {"clean", "warning"} => exercised

\* When the stages up to validation were run in order, the launch item that
\* calls the setup warnings "exercised successfully" is right: the installs
\* that were warned about have been run (launch_blocker_public_items.py).
SetupClaimIsEarned ==
    ordered >= 7 /\ readiness # NoRow /\ SetupItem = "ready" =>
        (readiness.status = "warning" => installs # {})
=============================================================================
