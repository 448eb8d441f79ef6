-------------------------- MODULE EvidenceRefresh ---------------------------
(***************************************************************************)
(* The portfolio reports and the command that regenerates them             *)
(* (portfolio/, cli/commands/portfolio_*.py).  Each report is a saved      *)
(* artifact with a verdict and a time; most reports are computed from      *)
(* other saved reports.  `refresh-evidence' writes them one after the      *)
(* other, each report has a command of its own, and the machine, the       *)
(* checkout and the clock change underneath.                               *)
(*                                                                         *)
(* "index" stands for the surfaces that carry no verdict of their own      *)
(* (artifact index, failure report, demo readiness, calibration plan, demo *)
(* script and media, final evaluation), and "plan" for the reproduction    *)
(* plan and the validation of its specs; the first has a blocked task      *)
(* whenever one of them has.  "reproduction" and "attempts" are executions *)
(* by hand, or dry runs that a refresh writes over what it does not keep.  *)
(* Focused runs that hold up some of the tasks count as holding up all.    *)
(* The project's docs, packaging and CI are in order, and so is the setup  *)
(* validation, which no refresh writes.                                    *)
(***************************************************************************)
EXTENDS Naturals, FiniteSets, Sequences

CONSTANTS Worlds,     \* the states of the machine and the checkout
          MaxEvents,  \* bound: what happens besides refreshes
          Lasting     \* bound: the machines on which a day may still pass after that

ASSUME EventAssumption == MaxEvents \in Nat

VARIABLES saved,    \* the artifacts: verdict and whether younger than 24 hours
          noted,    \* what the saved project status says of the freshness of its sources
          world,    \* the machine, the checkout and the saved runs
          proven,   \* whether some run ever passed in the docker sandbox
          step,     \* the step of the refresh at work, 0 when none is
          flags,    \* the --include flags of the newest refresh
          upset,    \* whether a step failed, or the world changed, in the newest refresh
          settled,  \* refreshes in a row that nothing disturbed, up to 2
          events    \* events so far

vars == <<saved, noted, world, proven, step, flags, upset, settled, events>>

Artifact == {"index", "calibration", "docker", "environment", "plan", "discovery",
             "reproduction", "readiness", "attempts", "launch", "mvp", "quality",
             "delivery", "status", "release"}

\* Mutant: the review reports are not written again after release hygiene.
StepsWithoutFinal ==
         <<"index", "calibration", "docker", "environment", "plan", "discovery",
           "reproduction", "readiness", "attempts", "launch", "mvp", "quality",
           "delivery", "status", "release">>

\* build_evidence_refresh_steps, in order.
Steps == <<"index", "calibration", "docker", "environment", "plan", "discovery",
           "reproduction", "readiness", "attempts", "launch", "mvp", "quality",
           "delivery", "status", "release", "launch", "delivery", "status">>

Missing == [verdict |-> "missing", fresh |-> FALSE]

Flag == {"docker", "skip run", "quality"}

\* The kinds of saved evaluations; all but those of retrieval save runs.
Kind == {"retrieval", "repair", "scaffold", "patch_search"}

World == [docker : {"absent", "broken", "works"},    \* daemon or image, seeded run
          tests  : BOOLEAN,                          \* compile, pytest and build pass
          clean  : BOOLEAN,                          \* git worktree
          kinds  : SUBSET Kind \ {{"retrieval"}},    \* evaluations saved, each on its own
          agents : BOOLEAN,                          \* a lane of DeepAgents among them
          failures : BOOLEAN,                        \* a saved run that wants attention
          live   : {"none", "credentials", "runs", "configured"},
          \* What a plan says of the tasks, and what focused runs, diagnoses
          \* and setup validations say that a repair rests on.
          issues : {"none", "blocked", "warning", "ready"},
          focus  : {"none", "blocked", "warning", "ready"}]

ASSUME WorldAssumption == Worlds \subseteq World

LiveRuns(w) == w.live \in {"runs", "configured"}

Says(s, a, verdicts) == s[a].verdict \in verdicts

-----------------------------------------------------------------------------
(* What each report says *)

\* docker_daemon_check and docker_image_check.
DockerAnswers(w) == w.docker # "absent"

\* docker_smoke_status.
DockerVerdict(w, opts) ==
    CASE ~DockerAnswers(w)                                   -> "not_available"
      [] DockerAnswers(w) /\ "skip run" \in opts             -> "skipped"
      [] w.docker = "broken" /\ "skip run" \notin opts       -> "failed"
      [] w.docker = "works" /\ "skip run" \notin opts        -> "passed"

\* Writing this report leaves a saved run that passed in the docker sandbox:
\* _docker_sandbox_success_count.
RanInDocker(a, verdict) == a = "docker" /\ verdict = "passed"

\* live_calibration_status.  With no live run saved, one check is "missing":
\* the code's last answer, needs_review, is never given.
CalibrationVerdict(w) ==
    IF LiveRuns(w) THEN "calibrated"
    ELSE IF w.live = "credentials" THEN "ready_to_run" ELSE "not_configured"

\* The saved docker smoke, and the calibration checks as they are now.
EnvironmentVerdict(s, w) ==
    IF ~Says(s, "docker", {"passed", "skipped"}) THEN "blocked"
    ELSE IF Says(s, "docker", {"skipped"}) \/ w.live # "configured"
      THEN "ready_with_warnings" ELSE "ready"

\* _demo_readiness_gates that are not only warnings: three experiments, and
\* among them the kinds that the demo shows.
DemoReady(w) ==
    /\ {"retrieval", "patch_search"} \subseteq w.kinds
    /\ w.kinds \cap {"repair", "scaffold"} # {}

\* What no report of the MVP progress may be without.
MvpIncomplete(w) == ~DemoReady(w) \/ ~w.agents

\* mvp_progress_items: a docker run and a live run are what may be wanting.
MvpWarns(w, ran) == ~ran \/ ~LiveRuns(w)

MvpVerdict(w, ran) ==
    IF MvpIncomplete(w) THEN "in_progress"
    ELSE IF MvpWarns(w, ran) THEN "ready_with_caveats" ELSE "complete"

QualityVerdict(w) == IF w.tests THEN "passed" ELSE "failed"

\* A refresh discovers nothing: it is a dry run over the plan.
DiscoveryVerdict(s) == IF Says(s, "plan", {"blocked"}) THEN "blocked" ELSE "silent"

\* Without --execute nothing is run.
ReproductionVerdict(s) == IF Says(s, "plan", {"blocked"}) THEN "blocked" ELSE "dry_run"

\* Some tasks were seen to fail as their issue says, in "mixed" with others
\* that failed otherwise or timed out.
Reproduced(s) == Says(s, "reproduction", {"reproduced", "some", "mixed"})

\* check_public_issue_repair_readiness_record: no repair is ready that was not
\* reproduced, and "stuck" ones were, to no avail.
ReadinessVerdict(s, w) ==
    IF w.focus = "blocked" THEN IF Reproduced(s) THEN "stuck" ELSE "blocked"
    ELSE IF ~Reproduced(s) THEN "unproven"
    ELSE IF Says(s, "reproduction", {"reproduced"}) THEN w.focus ELSE "some"

\* A dry run asks for the docker sandbox too.
AttemptsVerdict(s, w) ==
    IF Says(s, "readiness", {"blocked", "unproven"}) THEN "unproven"
    ELSE IF Says(s, "readiness", {"stuck"}) \/ ~DockerAnswers(w) THEN "stuck"
    ELSE "dry_run"

\* _all_repairs_validated_after_warning_review.
WarningsValidated(s) == Says(s, "attempts", {"validated"})

\* Executed and validated attempts settle the warnings of the readiness.
IssueItem(s) ==
    CASE Says(s, "readiness", {"missing", "blocked", "stuck"}) -> "blocked"
      [] Says(s, "readiness", {"unproven", "some", "warning"}) ->
            IF WarningsValidated(s) THEN "ready" ELSE "warning"
      [] Says(s, "readiness", {"ready"}) -> "ready"

ReleaseItem(s) ==
    CASE Says(s, "release", {"ready"}) -> "ready"
      [] Says(s, "release", {"missing", "ready_with_warnings"}) -> "warning"
      [] Says(s, "release", {"blocked"}) -> "blocked"

\* launch_blocker_items and their worst.
LaunchVerdict(s) ==
    LET items == {IF Says(s, "docker", {"passed"}) THEN "ready" ELSE "blocked",
                  IF Says(s, "calibration", {"calibrated"}) THEN "ready" ELSE "warning",
                  IssueItem(s), ReleaseItem(s)}
    IN IF "blocked" \in items THEN "blocked"
       ELSE IF "warning" \in items THEN "ready_with_warnings" ELSE "ready"

DeliveryBlocked(s) ==
    \/ Says(s, "quality", {"failed"})
    \/ Says(s, "release", {"blocked"})
    \/ Says(s, "environment", {"blocked"})
    \/ Says(s, "docker", {"failed", "not_available"})
    \/ Says(s, "calibration", {"not_configured"})
    \/ Says(s, "plan", {"blocked"})
    \/ Says(s, "discovery", {"blocked"})
    \/ Says(s, "reproduction", {"blocked", "mixed", "failed"})
    \/ Says(s, "readiness", {"blocked", "stuck"})
    \/ Says(s, "attempts", {"failed", "broken", "stuck"})

DeliveryCaveat(s, w) ==
    \/ ~w.clean
    \/ ~Says(s, "mvp", {"complete"})
    \/ ~Says(s, "release", {"ready"})
    \/ ~Says(s, "environment", {"ready"})
    \/ ~Says(s, "docker", {"passed"})
    \/ ~Says(s, "calibration", {"calibrated"})
    \/ Says(s, "plan", {"warning"})
    \/ Says(s, "discovery", {"silent"})
    \/ Says(s, "reproduction", {"dry_run", "unreproduced"})
    \/ IssueItem(s) = "warning"
    \/ Says(s, "attempts", {"dry_run", "unproven"})

\* What the audit asks for.
Audited == Artifact \ {"delivery", "status"}

\* The launch item passes whatever the launch report says.
DeliveryVerdict(s, w) ==
    IF DeliveryBlocked(s) THEN "in_progress_with_blockers"
    ELSE IF w.kinds = {} \/ \E a \in Audited : s[a] = Missing
      THEN "in_progress_missing_evidence"
    ELSE IF DeliveryCaveat(s, w) THEN "in_progress_with_caveats"
    ELSE "ready_for_completion_review"

\* The sources of the project status.
Sources == Artifact \ {"status"}

\* project_evidence_freshness_status.
Freshness(s) ==
    IF \E a \in Sources : s[a] = Missing THEN "missing"
    ELSE IF \E a \in Sources : ~s[a].fresh THEN "stale" ELSE "fresh"

\* _project_overall_status.
StatusVerdict(s) ==
    IF \E a \in Sources : s[a] = Missing THEN "incomplete_evidence"
    ELSE IF \/ Says(s, "delivery", {"in_progress_with_blockers"})
            \/ Says(s, "launch", {"blocked"})
            \/ Says(s, "quality", {"failed"})
            \/ Says(s, "release", {"blocked"})
            \/ Says(s, "environment", {"blocked"})
      THEN "in_progress_with_blockers"
    ELSE IF \/ Says(s, "mvp", {"ready_with_caveats"})
            \/ Says(s, "release", {"ready_with_warnings"})
            \/ Says(s, "calibration", {"not_configured"})
      THEN "ready_with_caveats"
    ELSE "ready"

\* REQUIRED_RELEASE_ARTIFACTS: neither the docker smoke nor the MVP progress.
Required == Artifact \ {"docker", "mvp", "release"}

\* Mutant: a saved project status will do, whatever it says of its sources.
ReleaseIgnoresAge(s, w, note) ==
    IF \/ \E a \in Required : s[a] = Missing
       \/ ~DemoReady(w)
       \/ ~w.clean
    THEN "blocked"
    ELSE IF ~Says(s, "environment", {"ready"}) \/ ~LiveRuns(w) \/ ~w.failures
      THEN "ready_with_warnings" ELSE "ready"

\* release_hygiene_checks and their worst.  A required report without a date
\* would be a warning: every writer dates its report.
ReleaseVerdict(s, w, note) ==
    IF \/ \E a \in Required : s[a] = Missing
       \/ note # "fresh"
       \/ ~DemoReady(w)
       \/ ~w.clean
    THEN "blocked"
    ELSE IF ~Says(s, "environment", {"ready"}) \/ ~LiveRuns(w) \/ ~w.failures
      THEN "ready_with_warnings" ELSE "ready"

\* What artifact a would say if it were written now, with these options.
Verdict(a, opts) ==
    CASE a = "index"       -> "saved"
      [] a = "calibration" -> CalibrationVerdict(world)
      [] a = "docker"      -> DockerVerdict(world, opts)
      [] a = "environment" -> EnvironmentVerdict(saved, world)
      [] a = "plan"        -> world.issues
      [] a = "discovery"   -> DiscoveryVerdict(saved)
      [] a = "reproduction" -> ReproductionVerdict(saved)
      [] a = "readiness"   -> ReadinessVerdict(saved, world)
      [] a = "attempts"    -> AttemptsVerdict(saved, world)
      [] a = "launch"      -> LaunchVerdict(saved)
      [] a = "mvp"         -> MvpVerdict(world, proven)
      [] a = "quality"     -> QualityVerdict(world)
      [] a = "delivery"    -> DeliveryVerdict(saved, world)
      [] a = "status"      -> StatusVerdict(saved)
      [] a = "release"     -> ReleaseVerdict(saved, world, noted)

-----------------------------------------------------------------------------
(* Refreshing *)

Write(a, opts) ==
    /\ saved' = [saved EXCEPT ![a] = [verdict |-> Verdict(a, opts), fresh |-> TRUE]]
    /\ noted' = IF a = "status" THEN Freshness(saved) ELSE noted
    /\ proven' = (proven \/ RanInDocker(a, Verdict(a, opts)))

Keep == UNCHANGED <<saved, noted, proven>>

\* What public issues are about is not there to be written about.
Absent(a) ==
    \/ a \in {"plan", "discovery", "reproduction"} /\ world.issues = "none"
    \/ a \in {"readiness", "attempts"} /\ world.focus = "none"

\* A step that the flags or missing inputs leave out.
Skipped(a) ==
    \/ Absent(a)
    \/ a \in {"docker", "quality"} /\ a \notin flags

\* Mutant: executed reproductions are kept even when none of them reproduced.
KeptUnreproduced(a) ==
    \/ a = "reproduction" /\ ~Says(saved, a, {"missing", "dry_run", "blocked"})
    \/ a = "attempts" /\ Says(saved, a, {"validated", "some", "failed"})

\* Executed reproductions are kept as soon as one of them did reproduce, and
\* executed attempts unless one task of the batch was blocked.
Kept(a) ==
    \/ a = "reproduction" /\ Reproduced(saved)
    \/ a = "attempts" /\ Says(saved, a, {"validated", "some", "failed"})

\* Its writer reads another's results, and raises without them.
Unplanned(a) ==
    \/ a \in {"discovery", "reproduction"} /\ saved["plan"] = Missing
    \/ a = "attempts" /\ saved["readiness"] = Missing

\* After a step, or a failure of it.
Advance(failed) ==
    /\ step' = IF step = Len(Steps) THEN 0 ELSE step + 1
    /\ upset' = (upset \/ failed)
    /\ settled' = IF step < Len(Steps) THEN settled
                  ELSE IF upset' THEN 0
                  ELSE IF settled < 2 THEN settled + 1 ELSE 2
    /\ UNCHANGED <<world, flags>>

StartRefresh ==
    /\ step = 0
    /\ step' = 1
    /\ flags' \in SUBSET Flag
    /\ "skip run" \in flags' => "docker" \in flags'
    /\ upset' = FALSE
    /\ UNCHANGED <<saved, noted, world, proven, settled, events>>

RunStep ==
    /\ step > 0
    /\ LET a == Steps[step]
       IN IF Skipped(a) \/ Kept(a) THEN Keep
          ELSE ~Unplanned(a) /\ Write(a, flags)
    /\ Advance(FALSE)
    /\ UNCHANGED events

\* Something other than the steps of a refresh happens.
Event ==
    /\ events < MaxEvents
    /\ events' = events + 1

\* A writer raises: its artifact stays as it was, and the other steps go on.
FailStep ==
    /\ step > 0
    /\ ~Skipped(Steps[step])
    /\ ~Kept(Steps[step])
    /\ IF Unplanned(Steps[step]) THEN UNCHANGED events ELSE Event
    /\ Keep
    /\ Advance(TRUE)

Disturb ==
    /\ settled' = 0
    /\ upset' = (step > 0)

\* The refresh is interrupted: what it wrote so far stays.
Interrupt ==
    /\ Event
    /\ step > 0
    /\ step' = 0
    /\ settled' = 0
    /\ UNCHANGED <<saved, noted, world, proven, flags, upset>>

\* One report on its own, by the command of that name, with the options that
\* a refresh gives it.
WriteReport(a) ==
    /\ Event
    /\ step = 0
    /\ ~Absent(a)
    /\ ~Unplanned(a)
    /\ \E opts \in {{}, {"skip run"}} : Write(a, opts)
    /\ Disturb
    /\ UNCHANGED <<world, step, flags>>

\* What an execution by hand can say.  "mixed" and "failed" reproductions ended
\* otherwise than their issue says; "some" repairs are validated and the rest
\* left out, in "partly" blocked, and "broken" ones failed and were blocked.
Outcomes(a) ==
    CASE a = "discovery" -> {"signals", "silent", "blocked"}
      [] a = "reproduction" ->
            {"reproduced", "some", "mixed", "failed", "unreproduced"}
            \cup (IF Says(saved, "plan", {"blocked"}) THEN {"blocked"} ELSE {})
      [] a = "attempts" ->
            IF Says(saved, "readiness", {"blocked", "unproven"}) THEN {"unproven"}
            ELSE {"some", "failed", "partly", "broken", "stuck"}
                 \cup (IF Says(saved, "readiness", {"warning", "ready"})
                       THEN {"validated"} ELSE {})

\* discover-public-issue-failure-signals, or execute-public-issue-reproductions
\* and -repairs, with --execute.
Execute(a, verdict) ==
    /\ Event
    /\ step = 0
    /\ world.issues # "none"
    /\ ~Unplanned(a)
    /\ saved' = [saved EXCEPT ![a] = [verdict |-> verdict, fresh |-> TRUE]]
    /\ Disturb
    /\ UNCHANGED <<noted, world, proven, step, flags>>

\* A day passes, and everything saved is older than 24 hours.
DayPasses ==
    /\ events < MaxEvents + (IF world \in Lasting THEN 1 ELSE 0)
    /\ events' = events + 1
    /\ step = 0
    /\ saved' = [a \in Artifact |-> [saved[a] EXCEPT !.fresh = FALSE]]
    /\ Disturb
    /\ UNCHANGED <<noted, world, proven, step, flags>>

\* The machine or the checkout changes, between any two steps.  Issue tasks
\* and their focused runs stay once they are there.
WorldChanges ==
    /\ Event
    /\ world' \in Worlds \ {world}
    /\ world.issues # "none" => world'.issues # "none"
    /\ world.focus # "none" => world'.focus # "none"
    /\ Disturb
    /\ UNCHANGED <<saved, noted, proven, step, flags>>

Init ==
    /\ saved = [a \in Artifact |-> Missing]
    /\ noted = "missing"
    /\ world \in Worlds
    /\ proven = FALSE
    /\ step = 0
    /\ flags = {}
    /\ upset = FALSE
    /\ settled = 0
    /\ events = 0

Next ==
    \/ StartRefresh
    \/ RunStep
    \/ FailStep
    \/ Interrupt
    \/ \E a \in Artifact : WriteReport(a)
    \/ \E a \in {"discovery", "reproduction", "attempts"} :
          \E verdict \in Outcomes(a) : Execute(a, verdict)
    \/ DayPasses
    \/ WorldChanges

Spec == Init /\ [][Next]_vars

-----------------------------------------------------------------------------
(* Properties *)

\* Two refreshes in a row that nothing disturbs settle every report: a third
\* one, with the options of the second, would write what is saved.  One is not
\* enough, because project status and release hygiene read each other
\* (build_evidence_refresh_steps).
SecondRefreshSettles ==
    settled = 2 /\ step = 0 =>
        /\ \A a \in Artifact :
              Skipped(a) \/ Kept(a) \/ saved[a] = [verdict |-> Verdict(a, flags), fresh |-> TRUE]
        /\ noted = Freshness(saved)

\* Nothing holds the release up but the evidence.
GoodWorld == world.docker = "works" /\ world.tests /\ world.clean /\ DemoReady(world)

\* Executed evidence that no refresh renews is younger than a day.
KeptIsFresh == \A a \in Artifact : Kept(a) => saved[a].fresh

\* On a machine where every check passes, two refreshes in a row with docker
\* smoke and quality gate included lift the release blockers, as their
\* next actions promise, unless executed evidence is more than a day old; and
\* the project is then ready, as far as live runs, public issues and what was
\* executed for them allow (_project_status_freshness_check,
\* project_overall_status).
TwoRefreshesCure ==
    /\ settled = 2
    /\ step = 0
    /\ flags = {"docker", "quality"}
    /\ GoodWorld
    /\ world.issues # "none"
    /\ world.focus # "none"
    /\ KeptIsFresh
    => /\ ~Says(saved, "release", {"blocked"})
       /\ \/ Says(saved, "status", {"ready", "ready_with_caveats"})
          \/ world.live = "none"
          \/ "blocked" \in {world.issues, world.focus}
          \/ Says(saved, "reproduction", {"mixed"})
          \/ Says(saved, "attempts", {"failed"})

\* A project that a refresh without failures calls ready, with or without
\* caveats, rests on a docker smoke and a quality gate that passed and on
\* sources all younger than a day, those that this refresh left out included
\* (project_overall_status, which looks at no age itself).
ReadyIsFresh ==
    /\ settled > 0
    /\ step = 0
    /\ Says(saved, "status", {"ready", "ready_with_caveats"})
    => /\ Freshness(saved) = "fresh"
       /\ Says(saved, "docker", {"passed"})
       /\ Says(saved, "quality", {"passed"})
=============================================================================
