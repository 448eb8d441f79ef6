----------------------------- MODULE IssueRepair -----------------------------
(***************************************************************************)
(* From a public issue with a working test command to a validated repair,  *)
(* for the tasks of a corpus: plan and execute the reproduction, judge     *)
(* readiness, attempt the repairs, and what refresh-evidence and the       *)
(* launch report make of the saved results (evaluation/issue_corpus and    *)
(* portfolio).  Every stage reads the artifacts as they are on disk and    *)
(* overwrites its own, the results before the summary that a refresh goes  *)
(* by; the user runs them in any order, with any options, and a run may be *)
(* killed between the two files.  What IssueSetup concludes for a task is  *)
(* in setup, and may change.                                               *)
(***************************************************************************)
EXTENDS FiniteSets, Naturals, Sequences

CONSTANTS Tasks,       \* tasks of the corpus
          Criteria,    \* what a reviewed spec holds: a command and the signals it is to fail with
          NoSpec,      \* the task has no reviewed spec
          Reviewed,    \* bound: the reviewed specs to begin with
          Prefixes,    \* what --max-tasks can select of a plan
          Batches,     \* bound: the options execute-public-issue-repairs is run with
          Begun,       \* bound: what IssueSetup concludes for the tasks to begin with
          Cap,         \* max_live_cost_usd, in estimates of one model attempt
          MaxEdits,    \* bound: changes of specs and setup evidence, and kills, in a behaviour
          NoFile       \* the artifact has not been written

\* The options of execute-public-issue-repairs: --max-tasks and --task-id, --repeats,
\* --max-retries, --stop-on-validated, a cap on live cost, --execute, --allow-warnings.
BatchOptions == [tasks : SUBSET Tasks, repeats : Nat \ {0}, retries : Nat,
                 stop : BOOLEAN, capped : BOOLEAN, dry : BOOLEAN, accept : BOOLEAN]

ASSUME IssueAssumption ==
    /\ IsFiniteSet(Tasks)
    /\ Prefixes \subseteq SUBSET Tasks
    /\ NoSpec \notin Criteria
    /\ Reviewed \subseteq [Tasks -> Criteria \cup {NoSpec}]
    /\ Begun \subseteq [Tasks -> {"absent", "blocked", "warning", "clean"}]
    /\ Batches \subseteq BatchOptions
    /\ Cap \in Nat /\ MaxEdits \in Nat

VARIABLES specs,     \* the reviewed reproduction spec of each task
          setup,     \* verdict of IssueSetup per task
          plan,      \* reproduction_plan: the criteria in the row of each task
          repro,     \* reproduction_execution: status and criteria per task, and dry_run
          ready,     \* repair_readiness: per task its status and validation command
          batch,     \* repair_attempt: per task the status of each attempt, and dry_run
          told,      \* the results that the summaries beside repro and batch are of
          proven,    \* history: <<task, criteria>> seen to fail as expected
          launched,  \* history: <<task, validation command>> PatchSmith has been run with
          bill,      \* history: the most the last batch can have cost, if it had a cap
          settled,   \* history: NoFile, or the docker status of the refresh-evidence just run
          edits      \* history: what MaxEdits bounds

vars == <<specs, setup, plan, repro, ready, batch, told, proven, launched, bill, settled, edits>>

Setups == {"absent", "blocked", "warning", "clean"}

Specs == [Tasks -> Criteria \cup {NoSpec}]
NoSpecs == [t \in Tasks |-> NoSpec]

\* A task is validated with the command of its criteria or with the focused test.
Commands == Criteria \cup {"focused"}

\* failed and timed_out reproductions count and end like not_reproduced.
Executed == {"reproduced", "not_reproduced"}

ReproRow == [status : Executed \cup {"absent", "blocked", "dry_run"},
             criteria : Criteria \cup {NoSpec}]

Reproduced(t) == repro # NoFile /\ repro.rows[t].status = "reproduced"

-----------------------------------------------------------------------------

\* Rows of execute_public_issue_reproductions for the tasks of a prefix, when
\* executing a row gives outcome.
ReproRows(tasks, planned, dry, outcome) ==
    [t \in Tasks |->
        [status |-> CASE t \notin tasks -> "absent"
                      [] t \in tasks /\ planned[t] = NoSpec -> "blocked"
                      [] OTHER -> IF dry THEN "dry_run" ELSE outcome[t],
         criteria |-> planned[t]]]

\* check_public_issue_repair_readiness_record.
ValidationCommand(row) == IF row.status = "reproduced" THEN row.criteria ELSE "focused"

ReadyRow(verdict, row) ==
    [status |-> IF verdict = "clean" /\ row.status # "reproduced" THEN "warning" ELSE verdict,
     command |-> ValidationCommand(row),
     reproduced |-> row.status = "reproduced"]

\* Readiness of every task, on the given reproduction results.
Readiness(results) ==
    [t \in Tasks |-> ReadyRow(setup[t], IF results = NoFile
                                        THEN [status |-> "absent", criteria |-> NoSpec]
                                        ELSE results.rows[t])]

\* Mutant: accepted warnings stand in for the reproduction.
BlockedByStatus(row, accept) ==
    \/ row.status = "blocked"
    \/ row.status = "warning" /\ ~accept

\* execute_public_issue_repair_record up to the launch.
AttemptBlocked(row, accept) ==
    \/ row.status = "blocked"
    \/ row.status = "warning" /\ ~accept
    \/ ~row.reproduced

\* The statuses of one task's attempts: all alike when none is launched, and
\* none after a validated one when stop_on_validated.
AllAlike(status, n) == {[i \in 1..n |-> status]}

\* A launched attempt is validated by a run that ends with a passing command, a
\* patch, no high-risk finding on it, and usage within the caps that were set.
AttemptStatus(passed, patched, risky, dear) ==
    IF passed /\ patched /\ ~risky /\ ~dear THEN "validated" ELSE "failed"

Outcomes(b) ==
    {status \in {"validated", "failed"} :
        \E passed, patched, risky, dear \in BOOLEAN :
            /\ dear => b.capped
            /\ status = AttemptStatus(passed, patched, risky, dear)}

Launched(b) ==
    {a \in UNION {[1..n -> Outcomes(b)] : n \in 1..b.repeats} :
        IF b.stop
        THEN /\ \A i \in 1..(Len(a) - 1) : a[i] = "failed"
             /\ Len(a) < b.repeats => a[Len(a)] = "validated"
        ELSE Len(a) = b.repeats}

Attempts(row, b, passed) ==
    CASE row.status = "absent" -> {<<>>}
      [] row.status # "absent" /\ (~passed \/ AttemptBlocked(row, b.accept)) ->
            AllAlike("blocked", b.repeats)
      [] OTHER -> IF b.dry THEN AllAlike("dry_run", b.repeats) ELSE Launched(b)

\* execute_public_issue_repairs on readiness results: passed says that the
\* preflights let the batch run.
BatchRows(rows, b, passed) ==
    LET of(t) == IF t \in b.tasks THEN Attempts(rows[t], b, passed) ELSE {<<>>}
    IN  {f \in [Tasks -> UNION {of(t) : t \in Tasks}] : \A t \in Tasks : f[t] \in of(t)}

Outputs(rows, b, f) ==
    [dry |-> b.dry, rows |-> f, inputs |-> {t \in Tasks : rows[t].reproduced}]

\* Mutant: the projection leaves the retries out.
ProjectedFirstTries(count, b) == count * b.repeats

ProjectedAttempts(count, b) == count * b.repeats * (b.retries + 1)

WithinBudget(rows, b) ==
    \/ b.dry \/ ~b.capped
    \/ ProjectedAttempts(Cardinality({t \in b.tasks : rows[t].status # "absent"}), b) <= Cap

\* Without docker nothing runs; a dry run asks no model.
SandboxPasses(docker) == docker
ModelPasses(b, model) == b.dry \/ model

Preflight(rows, b, docker, model) ==
    SandboxPasses(docker) /\ ModelPasses(b, model) /\ WithinBudget(rows, b)

\* A summary counts attempts, not tasks.
Number(f, statuses) ==
    Cardinality(UNION {{t} \X {i \in DOMAIN f[t] : f[t][i] \in statuses} : t \in Tasks})

Attempted == {"validated", "failed"}
Every == Attempted \cup {"blocked", "dry_run"}

\* Mutant: one blocked row makes the results worth replacing, as it does for attempts.
KeepsUnblocked ==
    /\ told.repro # NoFile
    /\ ~told.repro.dry
    /\ \E t \in Tasks : told.repro.rows[t].status = "reproduced"
    /\ \A t \in Tasks : told.repro.rows[t].status # "blocked"

\* _has_executed_public_reproduction_evidence: the counts of the summary.
KeepsReproductions ==
    /\ told.repro # NoFile
    /\ ~told.repro.dry
    /\ \E t \in Tasks : told.repro.rows[t].status \in Executed
    /\ \E t \in Tasks : told.repro.rows[t].status = "reproduced"

\* _has_executed_public_repair_attempt_evidence
KeepsAttempts ==
    /\ told.batch # NoFile
    /\ ~told.batch.dry
    /\ Number(told.batch.rows, Attempted) > 0
    /\ \E t \in told.batch.inputs : told.batch.rows[t] # <<>>
    /\ Number(told.batch.rows, {"blocked"}) = 0

\* Mutant: the attempts are refreshed before readiness is, where there is one.
EarlierReadiness(before, after) == IF before = NoFile THEN after ELSE before

\* The readiness that the attempts of a refresh go by.
AttemptInputs(before, after) == after

-----------------------------------------------------------------------------

Init ==
    /\ specs \in Reviewed
    /\ setup \in Begun
    /\ plan = NoFile /\ repro = NoFile /\ ready = NoFile /\ batch = NoFile
    /\ told = [repro |-> NoFile, batch |-> NoFile]
    /\ proven = {} /\ launched = {} /\ bill = 0
    /\ settled = NoFile
    /\ edits = 0

\* The user reviews the spec of a task, or the stages of IssueSetup run again.
Edit ==
    /\ edits < MaxEdits
    /\ edits' = edits + 1
    /\ \E t \in Tasks :
          \/ /\ \E spec \in (Criteria \cup {NoSpec}) \ {specs[t]} :
                   specs' = [specs EXCEPT ![t] = spec]
             /\ UNCHANGED setup
          \/ /\ \E verdict \in Setups \ {setup[t]} : setup' = [setup EXCEPT ![t] = verdict]
             /\ UNCHANGED specs
    /\ settled' = NoFile
    /\ UNCHANGED <<plan, repro, ready, batch, told, proven, launched, bill>>

\* plan_public_issue_reproductions, with the reviewed specs or with none: a task
\* without a spec gets a command and no failure signal to expect.
SavePlan(rows) == plan' = rows

PlanReproductions ==
    /\ \E given \in {specs, NoSpecs} : SavePlan(given)
    /\ settled' = NoFile
    /\ UNCHANGED <<specs, setup, repro, ready, batch, told, proven, launched, bill, edits>>

\* A stage is killed after its results are written and before their summary is.
Killed == edits < MaxEdits /\ edits' = edits + 1 /\ UNCHANGED told

SaveReproductions(results) ==
    /\ repro' = results
    /\ \/ told' = [told EXCEPT !.repro = results] /\ UNCHANGED edits
       \/ Killed

ExecuteReproductions(tasks, dry, outcome) ==
    /\ plan # NoFile
    /\ SaveReproductions([dry |-> dry, rows |-> ReproRows(tasks, plan, dry, outcome)])
    /\ proven' = proven \cup
          {<<t, plan[t]>> : t \in {u \in Tasks : repro'.rows[u].status = "reproduced"}}
    /\ settled' = NoFile
    /\ UNCHANGED <<specs, setup, plan, ready, batch, launched, bill>>

SaveReadiness(rows) == ready' = rows

CheckReadiness ==
    /\ SaveReadiness(Readiness(repro))
    /\ settled' = NoFile
    /\ UNCHANGED <<specs, setup, plan, repro, batch, told, proven, launched, bill, edits>>

SaveAttempts(results) ==
    /\ batch' = results
    /\ \/ told' = [told EXCEPT !.batch = results] /\ UNCHANGED edits
       \/ Killed

\* An attempt calls the planner at most once for each of its tries, for at most
\* the estimate.
ExecuteRepairs(b, docker, model) ==
    /\ ready # NoFile
    /\ \E f \in BatchRows(ready, b, Preflight(ready, b, docker, model)) :
          /\ SaveAttempts(Outputs(ready, b, f))
          /\ launched' = launched \cup
                {<<t, ready[t].command>> : t \in {u \in Tasks : \E i \in DOMAIN f[u] :
                                                       f[u][i] \in Attempted}}
          /\ bill' = IF b.capped THEN Number(f, Attempted) * (b.retries + 1) ELSE 0
    /\ settled' = NoFile
    /\ UNCHANGED <<specs, setup, plan, repro, ready, proven>>

\* The public issue steps of refresh-evidence, none of which stops the others:
\* plan, reproduction, readiness and repair attempts, the executing ones as dry
\* runs, and only where they would not overwrite what is to be kept.
Refreshing == [tasks |-> Tasks, repeats |-> 1, retries |-> 0, stop |-> FALSE,
               capped |-> FALSE, dry |-> TRUE, accept |-> TRUE]

DryReproductions == [dry |-> TRUE, rows |-> ReproRows(Tasks, specs, TRUE, NoSpecs)]

Refresh(docker) ==
    /\ SavePlan(specs)
    /\ repro' = IF KeepsReproductions THEN repro ELSE DryReproductions
    /\ SaveReadiness(Readiness(repro'))
    /\ \/ KeepsAttempts /\ UNCHANGED batch
       \/ /\ ~KeepsAttempts
          /\ LET rows == AttemptInputs(ready, ready')
             IN  \E f \in BatchRows(rows, Refreshing, SandboxPasses(docker)) :
                    batch' = Outputs(rows, Refreshing, f)
    /\ told' = [repro |-> IF KeepsReproductions THEN told.repro ELSE repro',
                batch |-> IF KeepsAttempts THEN told.batch ELSE batch']
    /\ settled' = docker
    /\ UNCHANGED <<specs, setup, proven, launched, bill, edits>>

\* The commands with their options.
RunReproductions ==
    \E tasks \in Prefixes, dry \in BOOLEAN, outcome \in [Tasks -> Executed] :
        ExecuteReproductions(tasks, dry, outcome)

RunRepairs == \E b \in Batches, docker, model \in BOOLEAN : ExecuteRepairs(b, docker, model)

RefreshEvidence == \E docker \in BOOLEAN : Refresh(docker)

Next ==
    \/ Edit
    \/ PlanReproductions
    \/ RunReproductions
    \/ CheckReadiness
    \/ RunRepairs
    \/ RefreshEvidence

Spec == Init /\ [][Next]_vars

-----------------------------------------------------------------------------

ReproResults == [dry : BOOLEAN, rows : [Tasks -> ReproRow]]

\* Every artifact holds what its stage may write, and a readiness row is clean
\* only with reproduced evidence.
TypeOK ==
    /\ specs \in Specs /\ proven \subseteq Tasks \X Criteria
    /\ setup \in [Tasks -> Setups]
    /\ plan = NoFile \/ plan \in Specs
    /\ repro = NoFile \/ repro \in ReproResults
    /\ ready = NoFile \/ \A t \in Tasks :
          /\ ready[t].status \in Setups
          /\ ready[t].status = "clean" => ready[t].reproduced
    /\ batch = NoFile \/ \A t \in Tasks : \A i \in DOMAIN batch.rows[t] : batch.rows[t][i] \in Every
    /\ told = [repro |-> told.repro, batch |-> told.batch]
    /\ launched \subseteq Tasks \X Commands
    /\ edits \in 0..MaxEdits

\* PatchSmith is launched on a task only to make pass the very command that an
\* executed reproduction once saw fail with every expected signal, however specs,
\* plans, results and readiness were rewritten, refreshed or left behind in between.
LaunchIsProven == launched \subseteq proven

\* A batch with a cap on its live cost stays within it, repeats and retries and
\* blocked rows included, as long as no call costs more than its estimate.
SpendWithinCap == bill <= Cap

\* A refresh never replaces results that hold a reproduced task, whatever the
\* rest of their rows say and however the plan has changed since, as long as the
\* summary beside them is theirs: it is the summary that the refresh reads.
RefreshKeepsReproductions ==
    [][RefreshEvidence /\ told.repro = repro =>
            \A t \in Tasks : Reproduced(t) => Reproduced(t)']_vars

\* The steps of a refresh run in the order they depend on each other: a second
\* refresh, when nothing has changed, finds nothing to change.
RefreshSettles ==
    [][settled # NoFile /\ Refresh(settled) => UNCHANGED <<plan, repro, ready, batch, told>>]_vars
=============================================================================
