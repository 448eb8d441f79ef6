----------------------- MODULE EvidenceRefresh_proofs -----------------------
(***************************************************************************)
(* Proofs about the portfolio reports, for any machines and checkouts and  *)
(* any number of refreshes and of events between and within them: two      *)
(* undisturbed refreshes settle every report, they lift the release        *)
(* blockers where nothing but the evidence held the release up, and what a *)
(* refresh calls ready rests on passed checks and sources of the last day. *)
(*                                                                         *)
(* A report is current when it says what it would say if it were written   *)
(* now.  Writing one leaves those current that do not read it (ReadBy), so *)
(* that a refresh makes every report current but release hygiene, which    *)
(* read the project status of before; the second refresh leaves what that  *)
(* status says of its sources as it is, and makes release hygiene current  *)
(* too.                                                                    *)
(***************************************************************************)
EXTENDS EvidenceRefresh, TLAPS

\* What the reports say.
Word == {"missing", "saved", "none", "not_available", "skipped", "failed", "passed",
         "not_configured", "ready_to_run", "calibrated", "blocked", "warning", "ready",
         "ready_with_warnings", "ready_with_caveats", "signals", "silent", "dry_run",
         "reproduced", "some", "mixed", "unreproduced", "unproven", "stuck", "validated",
         "partly", "broken", "in_progress", "complete", "in_progress_with_blockers",
         "in_progress_missing_evidence", "in_progress_with_caveats",
         "ready_for_completion_review", "incomplete_evidence"}

Report == [verdict : Word, fresh : BOOLEAN]

TypeOK ==
    /\ saved \in [Artifact -> Report]
    /\ noted \in {"missing", "stale", "fresh"}
    /\ world \in Worlds
    /\ proven \in BOOLEAN
    /\ step \in 0..18
    /\ flags \in SUBSET Flag
    /\ upset \in BOOLEAN
    /\ settled \in 0..2
    /\ events \in Nat

\* A saved quality gate passed or failed.
QualityIsKnown == saved["quality"] = Missing \/ Says(saved, "quality", {"passed", "failed"})

\* The other artifacts that the report a reads.  Only a docker smoke changes
\* what MVP progress knows of docker runs.
ReadBy(a) ==
    CASE a = "environment" -> {"docker"}
      [] a = "discovery"   -> {"plan"}
      [] a = "reproduction" -> {"plan"}
      [] a = "readiness"   -> {"reproduction"}
      [] a = "attempts"    -> {"readiness"}
      [] a = "launch"      -> {"docker", "calibration", "readiness", "attempts", "release"}
      [] a = "mvp"         -> {"docker"}
      [] a = "delivery"    -> Audited
      [] a = "status"      -> Sources
      [] a = "release"     -> Required
      [] OTHER             -> {}

\* Artifact a says what a refresh with these flags would have it say now.
Current(a) ==
    Skipped(a) \/ Kept(a) \/ saved[a] = [verdict |-> Verdict(a, flags), fresh |-> TRUE]

\* The artifacts that every refresh writes.
Always == Artifact \ {"docker", "plan", "discovery", "reproduction", "readiness",
                      "attempts", "quality"}

AlwaysFresh == \A a \in Always : saved[a].fresh

\* The steps whose artifact no later step writes or reads into another.
LastWrites == 1..9 \cup {11, 12, 16, 17}

\* Release hygiene lets nothing through unless all sources are fresh.
ReleaseIsFresh == Says(saved, "release", {"blocked"}) \/ Freshness(saved) = "fresh"

\* Before step n of a refresh that nothing disturbed so far, when the one
\* before it was undisturbed too ("again"), or not.
AtWork(n, again) ==
    /\ \A i \in LastWrites : i < n => Current(Steps[i])
    /\ \A i \in 1..18 : i < n /\ Steps[i] \in Always => saved[Steps[i]].fresh
    /\ again => AlwaysFresh
    /\ n > 14 /\ noted = "fresh" => Freshness(saved) = "fresh"
    /\ n > 15 => ReleaseIsFresh
    /\ again /\ n > 14 => noted = Freshness(saved)
    /\ again /\ n > 15 => Current("release")

\* After one that nothing disturbed, or after two.
AtRest(twice) ==
    /\ \A a \in Artifact \ {"release"} : Current(a)
    /\ AlwaysFresh
    /\ noted = Freshness(saved)
    /\ ReleaseIsFresh
    /\ twice => Current("release")

IInv ==
    /\ TypeOK
    /\ QualityIsKnown
    /\ step > 0 /\ ~upset => AtWork(step, settled > 0)
    /\ step = 0 /\ settled > 0 => AtRest(settled = 2)

-----------------------------------------------------------------------------
(* The reports *)

\* The steps of a refresh.
LEMMA StepAt ==
    /\ Len(Steps) = 18
    /\ Steps[1] = "index"         /\ Steps[2] = "calibration" /\ Steps[3] = "docker"
    /\ Steps[4] = "environment"   /\ Steps[5] = "plan"        /\ Steps[6] = "discovery"
    /\ Steps[7] = "reproduction"  /\ Steps[8] = "readiness"   /\ Steps[9] = "attempts"
    /\ Steps[10] = "launch"       /\ Steps[11] = "mvp"        /\ Steps[12] = "quality"
    /\ Steps[13] = "delivery"     /\ Steps[14] = "status"     /\ Steps[15] = "release"
    /\ Steps[16] = "launch"       /\ Steps[17] = "delivery"   /\ Steps[18] = "status"
BY DEF Steps

LEMMA StepType == \A i \in 1..18 : Steps[i] \in Artifact
<1> SUFFICES ASSUME NEW i \in 1..18 PROVE Steps[i] \in Artifact
  OBVIOUS
<1>1. i \in {1, 2, 3, 4, 5, 6, 7, 8, 9, 10, 11, 12, 13, 14, 15, 16, 17, 18}
  OBVIOUS
<1>2. QED
  BY <1>1, StepAt DEF Artifact

\* A report has a verdict.
LEMMA VerdictType ==
    ASSUME TypeOK, NEW a \in Artifact, NEW opts
    PROVE  Verdict(a, opts) \in Word
<1>1. world \in World
  BY WorldAssumption DEF TypeOK
<1>2. DockerVerdict(world, opts) \in {"not_available", "skipped", "failed", "passed"}
  <2>1. world.docker \in {"absent", "broken", "works"}
    BY <1>1 DEF World
  <2>2. CASE world.docker = "absent"
    BY <2>2 DEF DockerVerdict, DockerAnswers
  <2>3. CASE world.docker # "absent" /\ "skip run" \in opts
    BY <2>3 DEF DockerVerdict, DockerAnswers
  <2>4. CASE world.docker = "broken" /\ "skip run" \notin opts
    BY <2>4 DEF DockerVerdict, DockerAnswers
  <2>5. CASE world.docker = "works" /\ "skip run" \notin opts
    BY <2>5 DEF DockerVerdict, DockerAnswers
  <2>6. QED
    BY <2>1, <2>2, <2>3, <2>4, <2>5
<1>3. CASE a = "docker"
  BY <1>2, <1>3 DEF Word, Verdict
<1>4. CASE a = "plan"
  BY <1>1, <1>4 DEF Word, Verdict, World
<1>5. CASE a = "index"
  BY <1>5 DEF Word, Verdict
<1>6. CASE a = "calibration"
  BY <1>6 DEF Word, Verdict, CalibrationVerdict
<1>7. CASE a = "environment"
  BY <1>7 DEF Word, Verdict, EnvironmentVerdict
<1>8. CASE a \in {"discovery", "reproduction", "readiness", "attempts"}
  <2>1. CASE a = "discovery"
    BY <2>1 DEF Word, Verdict, DiscoveryVerdict
  <2>2. CASE a = "reproduction"
    BY <2>2 DEF Word, Verdict, ReproductionVerdict
  <2>3. CASE a = "readiness"
    <3>1. world.focus \in {"none", "blocked", "warning", "ready"}
      BY <1>1 DEF World
    <3>2. ReadinessVerdict(saved, world) \in
             {"stuck", "blocked", "unproven", "some", "none", "warning", "ready"}
      BY <3>1 DEF ReadinessVerdict, Reproduced, Says
    <3>3. QED
      BY <2>3, <3>2 DEF Word, Verdict
  <2>4. CASE a = "attempts"
    BY <2>4 DEF Word, Verdict, AttemptsVerdict
  <2>5. QED
    BY <1>8, <2>1, <2>2, <2>3, <2>4
<1>9. CASE a = "launch"
  <2>1. LaunchVerdict(saved) \in {"blocked", "ready_with_warnings", "ready"}
    BY DEF LaunchVerdict
  <2>2. QED
    BY <1>9, <2>1 DEF Word, Verdict
<1>10. CASE a = "mvp"
  BY <1>10 DEF Word, Verdict, MvpVerdict
<1>11. CASE a = "quality"
  BY <1>11 DEF Word, Verdict, QualityVerdict
<1>12. CASE a = "delivery"
  <2>1. DeliveryVerdict(saved, world) \in
           {"in_progress_with_blockers", "in_progress_missing_evidence",
            "in_progress_with_caveats", "ready_for_completion_review"}
    BY DEF DeliveryVerdict
  <2>2. QED
    BY <1>12, <2>1 DEF Word, Verdict
<1>13. CASE a = "status"
  <2>1. StatusVerdict(saved) \in
           {"incomplete_evidence", "in_progress_with_blockers", "ready_with_caveats", "ready"}
    BY DEF StatusVerdict
  <2>2. QED
    BY <1>13, <2>1 DEF Word, Verdict
<1>14. CASE a = "release"
  <2>1. ReleaseVerdict(saved, world, noted) \in {"blocked", "ready_with_warnings", "ready"}
    BY DEF ReleaseVerdict
  <2>2. QED
    BY <1>14, <2>1 DEF Word, Verdict
<1>15. QED
  BY <1>3, <1>4, <1>5, <1>6, <1>7, <1>8, <1>9, <1>10, <1>11, <1>12, <1>13, <1>14 DEF Artifact

\* A report that reads none of what changed would say the same.
LEMMA VerdictKept ==
    ASSUME NEW b \in Artifact, TypeOK, UNCHANGED <<world, flags>>,
           saved' \in [Artifact -> Report],
           \A c \in ReadBy(b) : saved'[c] = saved[c],
           b = "mvp" => proven' = proven,
           b = "release" => noted' = noted
    PROVE  Verdict(b, flags)' = Verdict(b, flags)
<1>1. CASE b \in {"index", "calibration", "docker", "plan", "quality", "mvp"}
  BY <1>1 DEF Verdict
<1>2. CASE b = "environment"
  BY <1>2 DEF Verdict, ReadBy, EnvironmentVerdict, Says
<1>3. CASE b \in {"discovery", "reproduction", "readiness", "attempts"}
  <2>1. CASE b = "discovery"
    BY <2>1 DEF Verdict, ReadBy, DiscoveryVerdict, Says
  <2>2. CASE b = "reproduction"
    BY <2>2 DEF Verdict, ReadBy, ReproductionVerdict, Says
  <2>3. CASE b = "readiness"
    BY <2>3 DEF Verdict, ReadBy, ReadinessVerdict, Reproduced, Says
  <2>4. CASE b = "attempts"
    BY <2>4 DEF Verdict, ReadBy, AttemptsVerdict, Says
  <2>5. QED
    BY <1>3, <2>1, <2>2, <2>3, <2>4
<1>4. CASE b = "launch"
  <2>1. /\ saved'["docker"] = saved["docker"] /\ saved'["calibration"] = saved["calibration"]
        /\ saved'["readiness"] = saved["readiness"] /\ saved'["attempts"] = saved["attempts"]
        /\ saved'["release"] = saved["release"]
    BY <1>4 DEF ReadBy
  <2>2. IssueItem(saved') = IssueItem(saved) /\ ReleaseItem(saved') = ReleaseItem(saved)
    BY <2>1 DEF IssueItem, ReleaseItem, Says, WarningsValidated
  <2>3. QED
    BY <1>4, <2>1, <2>2 DEF Verdict, LaunchVerdict, Says
<1>5. CASE b = "delivery"
  <2>1. \A c \in Audited : saved'[c] = saved[c]
    BY <1>5 DEF ReadBy
  <2>2. IssueItem(saved') = IssueItem(saved)
    BY <2>1 DEF IssueItem, Says, WarningsValidated, Audited, Artifact
  <2>3. DeliveryBlocked(saved') = DeliveryBlocked(saved)
    BY <2>1 DEF DeliveryBlocked, Says, Audited, Artifact
  <2>4. DeliveryCaveat(saved', world) = DeliveryCaveat(saved, world)
    BY <2>1, <2>2 DEF DeliveryCaveat, Says, Audited, Artifact
  <2>5. (\E c \in Audited : saved'[c] = Missing) <=> \E c \in Audited : saved[c] = Missing
    BY <2>1
  <2>6. DeliveryVerdict(saved', world) = DeliveryVerdict(saved, world)
    BY <2>3, <2>4, <2>5 DEF DeliveryVerdict
  <2>7. QED
    BY <1>5, <2>6 DEF Verdict
<1>6. CASE b = "status"
  <2>1. \A c \in Sources : saved'[c] = saved[c]
    BY <1>6 DEF ReadBy
  <2>2. (\E c \in Sources : saved'[c] = Missing) <=> \E c \in Sources : saved[c] = Missing
    BY <2>1
  <2>3. StatusVerdict(saved') = StatusVerdict(saved)
    BY <2>1, <2>2 DEF StatusVerdict, Says, Sources, Artifact
  <2>4. QED
    BY <1>6, <2>3 DEF Verdict
<1>7. CASE b = "release"
  <2>1. \A c \in Required : saved'[c] = saved[c]
    BY <1>7 DEF ReadBy
  <2>2. (\E c \in Required : saved'[c] = Missing) <=> \E c \in Required : saved[c] = Missing
    BY <2>1
  <2>3. ReleaseVerdict(saved', world, noted) = ReleaseVerdict(saved, world, noted)
    BY <2>1, <2>2 DEF ReleaseVerdict, Says, Required, Artifact
  <2>4. QED
    BY <1>7, <2>3 DEF Verdict
<1>8. QED
  BY <1>1, <1>2, <1>3, <1>4, <1>5, <1>6, <1>7 DEF Artifact

-----------------------------------------------------------------------------
(* Writing one report *)

LEMMA FreshnessType == \A s : Freshness(s) \in {"missing", "stale", "fresh"}
BY DEF Freshness

\* All sources are fresh, or Freshness says otherwise.
LEMMA FreshMeans ==
    ASSUME TypeOK
    PROVE  Freshness(saved) = "fresh" <=> \A c \in Sources : saved[c].fresh
<1>1. \A c \in Sources : saved[c].fresh => saved[c] # Missing
  BY DEF Missing
<1>2. \A c \in Sources : saved[c].fresh \in BOOLEAN
  BY DEF TypeOK, Report, Sources
<1>3. QED
  BY <1>1, <1>2 DEF Freshness

LEMMA WriteWrites ==
    ASSUME TypeOK, NEW a \in Artifact, NEW opts, Write(a, opts)
    PROVE  /\ saved' \in [Artifact -> Report]
           /\ saved'[a] = [verdict |-> Verdict(a, opts), fresh |-> TRUE]
           /\ \A b \in Artifact : b # a => saved'[b] = saved[b]
           /\ a # "status" => noted' = noted
           /\ a = "status" => noted' = Freshness(saved)
           /\ a # "docker" => proven' = proven
           /\ noted' \in {"missing", "stale", "fresh"}
           /\ proven' \in BOOLEAN
<1>1. [verdict |-> Verdict(a, opts), fresh |-> TRUE] \in Report
  BY VerdictType DEF Report
<1>2. saved' = [saved EXCEPT ![a] = [verdict |-> Verdict(a, opts), fresh |-> TRUE]]
  BY DEF Write
<1>3. saved \in [Artifact -> Report]
  BY DEF TypeOK
<1>4. noted' = IF a = "status" THEN Freshness(saved) ELSE noted
  BY DEF Write
<1>5. noted' \in {"missing", "stale", "fresh"}
  BY <1>4, FreshnessType DEF TypeOK
<1>6. proven' = (proven \/ RanInDocker(a, Verdict(a, opts))) /\ proven \in BOOLEAN
  BY DEF Write, TypeOK
<1>7. proven' \in BOOLEAN
  BY <1>6
<1>8. a # "docker" => ~RanInDocker(a, Verdict(a, opts))
  BY DEF RanInDocker
<1>9. a # "docker" => proven' = proven
  BY <1>6, <1>8
<1>10. QED
  BY <1>1, <1>2, <1>3, <1>4, <1>5, <1>7, <1>9

LEMMA WriteFreshens ==
    ASSUME TypeOK, NEW a \in Artifact, NEW opts, Write(a, opts)
    PROVE  saved'[a].fresh = TRUE /\ saved'[a] # Missing
<1>1. saved'[a] = [verdict |-> Verdict(a, opts), fresh |-> TRUE]
  BY WriteWrites
<1>2. saved'[a].fresh = TRUE
  BY <1>1
<1>3. Missing.fresh = FALSE
  BY DEF Missing
<1>4. QED
  BY <1>2, <1>3

\* What is fresh was written.
LEMMA FreshIsThere == \A r : r.fresh => r # Missing
BY DEF Missing

\* No report reads itself.
LEMMA ReadsOthers == \A a \in Artifact : a \notin ReadBy(a)
<1> SUFFICES ASSUME NEW a \in Artifact PROVE a \notin ReadBy(a)
  OBVIOUS
<1>1. CASE a = "delivery"
  BY <1>1 DEF ReadBy, Audited
<1>2. CASE a = "status"
  BY <1>2 DEF ReadBy, Sources
<1>3. CASE a = "release"
  BY <1>3 DEF ReadBy, Required
<1>4. CASE a \notin {"delivery", "status", "release"}
  BY <1>4 DEF ReadBy
<1>5. QED
  BY <1>1, <1>2, <1>3, <1>4

\* What was just written is current.
LEMMA WrittenIsCurrent ==
    ASSUME TypeOK, NEW a \in Artifact, Write(a, flags), UNCHANGED <<world, flags>>
    PROVE  Current(a)'
<1>1. \A c \in ReadBy(a) : c # a
  BY ReadsOthers
<1>2. \A c \in ReadBy(a) : c \in Artifact
  BY DEF ReadBy, Audited, Sources, Required, Artifact
<1>3. \A c \in ReadBy(a) : saved'[c] = saved[c]
  BY <1>1, <1>2, WriteWrites
<1>4. Verdict(a, flags)' = Verdict(a, flags)
  BY <1>3, WriteWrites, VerdictKept
<1>5. QED
  BY <1>4, WriteWrites DEF Current

\* The others stay current unless they read what was written.
LEMMA OthersStayCurrent ==
    ASSUME TypeOK, NEW a \in Artifact, Write(a, flags), UNCHANGED <<world, flags>>,
           NEW b \in Artifact, b # a, a \notin ReadBy(b), Current(b),
           b = "release" => noted' = noted
    PROVE  Current(b)'
<1>1. \A c \in ReadBy(b) : c \in Artifact /\ c # a
  BY DEF ReadBy, Audited, Sources, Required, Artifact
<1>2. \A c \in ReadBy(b) : saved'[c] = saved[c]
  BY <1>1, WriteWrites
<1>3. b = "mvp" => a # "docker"
  BY DEF ReadBy
<1>4. Verdict(b, flags)' = Verdict(b, flags)
  BY <1>2, <1>3, WriteWrites, VerdictKept
<1>5. saved'[b] = saved[b]
  BY WriteWrites
<1>6. Skipped(b)' = Skipped(b)
  BY DEF Skipped, Absent
<1>7. Kept(b)' = Kept(b)
  BY <1>5 DEF Kept, Reproduced, Says
<1>8. QED
  BY <1>4, <1>5, <1>6, <1>7 DEF Current

\* Writing keeps fresh sources fresh.
LEMMA FreshStaysFresh ==
    ASSUME TypeOK, TypeOK', NEW a \in Artifact, NEW opts, Write(a, opts),
           Freshness(saved) = "fresh"
    PROVE  Freshness(saved') = "fresh"
<1>1. \A c \in Sources : saved[c].fresh
  BY FreshMeans
<1>2. ASSUME NEW c \in Sources PROVE saved'[c].fresh
  <2>1. CASE c = a
    BY <2>1, WriteFreshens
  <2>2. CASE c # a
    BY <1>1, <2>2, WriteWrites DEF Sources
  <2>3. QED
    BY <2>1, <2>2
<1>3. \A c \in Sources : saved'[c] # Missing
  BY <1>2, FreshIsThere
<1>4. QED
  BY <1>2, <1>3 DEF Freshness

\* Writing what was fresh, or no source, changes no freshness.
LEMMA FreshnessKept ==
    ASSUME TypeOK, NEW a \in Artifact, NEW opts, Write(a, opts),
           a = "status" \/ saved[a].fresh
    PROVE  Freshness(saved') = Freshness(saved)
<1>1. ASSUME NEW c \in Sources
      PROVE  (saved'[c].fresh <=> saved[c].fresh) /\ (saved'[c] = Missing <=> saved[c] = Missing)
  <2>1. c # "status" /\ c \in Artifact
    BY DEF Sources
  <2>2. CASE c = a
    <3>1. saved[c].fresh /\ saved[c] # Missing
      BY <2>1, <2>2, FreshIsThere
    <3>2. QED
      BY <2>2, <3>1, WriteFreshens
  <2>3. CASE c # a
    BY <2>1, <2>3, WriteWrites
  <2>4. QED
    BY <2>2, <2>3
<1>2. QED
  BY <1>1 DEF Freshness

\* Release hygiene stays current when reports that were fresh already are
\* written again.
LEMMA ReleaseStaysCurrent ==
    ASSUME TypeOK, TypeOK', NEW a \in {"launch", "delivery", "status"}, Write(a, flags),
           UNCHANGED <<world, flags>>, AlwaysFresh, Current("release"), noted' = noted
    PROVE  Current("release")'
<1>0. a \in Artifact /\ a \in Always /\ a # "release" /\ a # "environment"
  BY DEF Artifact, Always
<1>1. saved'["release"] = saved["release"] /\ saved'["environment"] = saved["environment"]
  BY <1>0, WriteWrites DEF Artifact
<1>2. saved[a] # Missing /\ saved'[a] # Missing
  BY <1>0, WriteFreshens, FreshIsThere DEF AlwaysFresh
<1>3. (\E c \in Required : saved'[c] = Missing) <=> \E c \in Required : saved[c] = Missing
  BY <1>0, <1>2, WriteWrites DEF Required
<1>4. ReleaseVerdict(saved', world, noted) = ReleaseVerdict(saved, world, noted)
  BY <1>1, <1>3 DEF ReleaseVerdict, Says
<1>5. Verdict("release", flags)' = Verdict("release", flags)
  BY <1>4 DEF Verdict
<1>6. ~Skipped("release") /\ ~Kept("release")
  BY DEF Skipped, Absent, Kept
<1>7. QED
  BY <1>1, <1>5, <1>6 DEF Current

-----------------------------------------------------------------------------
(* Types *)

LEMMA AdvanceType ==
    ASSUME TypeOK, step > 0, NEW failed \in BOOLEAN, Advance(failed)
    PROVE  /\ step' \in 0..18 /\ upset' \in BOOLEAN /\ settled' \in 0..2
           /\ world' \in Worlds /\ flags' \in SUBSET Flag
<1>1. step' = IF step = 18 THEN 0 ELSE step + 1
  BY StepAt DEF Advance
<1>2. upset' = (upset \/ failed) /\ upset \in BOOLEAN
  BY DEF Advance, TypeOK
<1>3. upset' \in BOOLEAN
  BY <1>2
<1>4. settled' \in {settled, 0, settled + 1, 2} /\ (settled' = settled + 1 => settled < 2)
  BY DEF Advance, TypeOK
<1>5. QED
  BY <1>1, <1>3, <1>4 DEF TypeOK, Advance

LEMMA TypeStep == TypeOK /\ [Next]_vars => TypeOK'
<1> SUFFICES ASSUME TypeOK, [Next]_vars PROVE TypeOK'
  OBVIOUS
<1> USE DEF TypeOK
<1>1. CASE StartRefresh
  <2>1. step' = 1 /\ upset' = FALSE /\ flags' \in SUBSET Flag
    BY <1>1 DEF StartRefresh
  <2>2. UNCHANGED <<saved, noted, world, proven, settled, events>>
    BY <1>1 DEF StartRefresh
  <2>3. upset' \in BOOLEAN
    BY <2>1
  <2>4. QED
    BY <2>1, <2>2, <2>3
<1>2. CASE RunStep
  <2> DEFINE a == Steps[step]
  <2>1. step > 0 /\ step \in 1..18 /\ a \in Artifact
    BY <1>2, StepType DEF RunStep
  <2>2. /\ saved' \in [Artifact -> Report] /\ noted' \in {"missing", "stale", "fresh"}
        /\ proven' \in BOOLEAN
    <3>1. CASE Keep
      BY <3>1 DEF Keep
    <3>2. CASE Write(a, flags)
      BY <2>1, <3>2, WriteWrites
    <3>3. QED
      BY <1>2, <3>1, <3>2 DEF RunStep
  <2>3. Advance(FALSE) /\ UNCHANGED events
    BY <1>2 DEF RunStep
  <2>4. QED
    BY <2>1, <2>2, <2>3, AdvanceType
<1>3. CASE FailStep
  <2>1. step > 0 /\ Advance(TRUE) /\ Keep
    BY <1>3 DEF FailStep
  <2>2. events' \in Nat
    BY <1>3 DEF FailStep, Event
  <2>3. QED
    BY <2>1, <2>2, AdvanceType DEF Keep
<1>4. CASE Interrupt
  BY <1>4 DEF Interrupt, Event
<1>5. ASSUME NEW a \in Artifact, WriteReport(a) PROVE TypeOK'
  <2>1. \E opts : Write(a, opts)
    BY <1>5 DEF WriteReport
  <2>2. /\ saved' \in [Artifact -> Report] /\ noted' \in {"missing", "stale", "fresh"}
        /\ proven' \in BOOLEAN
    BY <2>1, WriteWrites
  <2>3. Event /\ Disturb /\ UNCHANGED <<world, step, flags>>
    BY <1>5, Zenon DEF WriteReport
  <2>4. events' \in Nat
    BY <2>3 DEF Event
  <2>5. upset' \in BOOLEAN /\ settled' = 0
    BY <2>3 DEF Disturb
  <2>6. QED
    BY <2>2, <2>3, <2>4, <2>5
<1>6. ASSUME NEW a \in {"discovery", "reproduction", "attempts"},
             NEW verdict \in Outcomes(a), Execute(a, verdict)
      PROVE  TypeOK'
  <2>0. a \in Artifact /\ verdict \in Word
    BY <1>6 DEF Outcomes, Artifact, Word
  <2>1. saved' \in [Artifact -> Report]
    BY <1>6, <2>0 DEF Execute, Report
  <2>2. events' \in Nat
    BY <1>6 DEF Execute, Event
  <2>3. upset' \in BOOLEAN /\ settled' = 0
    BY <1>6 DEF Execute, Disturb
  <2>4. UNCHANGED <<noted, world, proven, step, flags>>
    BY <1>6 DEF Execute
  <2>5. QED
    BY <2>1, <2>2, <2>3, <2>4
<1>7. CASE DayPasses
  <2>1. saved' \in [Artifact -> Report]
    BY <1>7 DEF DayPasses, Report
  <2>2. events' \in Nat
    BY <1>7 DEF DayPasses
  <2>3. upset' \in BOOLEAN /\ settled' = 0
    BY <1>7 DEF DayPasses, Disturb
  <2>4. QED
    BY <1>7, <2>1, <2>2, <2>3 DEF DayPasses
<1>8. CASE WorldChanges
  <2>1. Event /\ Disturb /\ world' \in Worlds /\ UNCHANGED <<saved, noted, proven, step, flags>>
    BY <1>8 DEF WorldChanges
  <2>2. events' \in Nat
    BY <2>1 DEF Event
  <2>3. upset' \in BOOLEAN /\ settled' = 0
    BY <2>1 DEF Disturb
  <2>4. QED
    BY <2>1, <2>2, <2>3
<1>9. CASE UNCHANGED vars
  BY <1>9 DEF vars
<1>10. QED
  BY <1>1, <1>2, <1>3, <1>4, <1>5, <1>6, <1>7, <1>8, <1>9 DEF Next

LEMMA TypeInit == Init => TypeOK
<1> SUFFICES ASSUME Init PROVE TypeOK
  OBVIOUS
<1>1. Missing \in Report
  BY DEF Missing, Report, Word
<1>2. saved \in [Artifact -> Report]
  BY <1>1 DEF Init
<1>3. noted \in {"missing", "stale", "fresh"} /\ world \in Worlds /\ proven \in BOOLEAN
  BY DEF Init
<1>4. flags \in SUBSET Flag
  BY DEF Init
<1>5. upset \in BOOLEAN
  BY DEF Init
<1>6. step \in 0..18 /\ settled \in 0..2 /\ events \in Nat
  BY DEF Init
<1>7. QED
  BY <1>2, <1>3, <1>4, <1>5, <1>6 DEF TypeOK

\* The reports, their ages and the state of a refresh keep their types.
THEOREM TypeCorrect == Spec => []TypeOK
BY TypeInit, TypeStep, PTL DEF Spec

-----------------------------------------------------------------------------
(* The quality gate *)

LEMMA QualityStep == TypeOK /\ QualityIsKnown /\ [Next]_vars => QualityIsKnown'
<1> SUFFICES ASSUME TypeOK, QualityIsKnown, [Next]_vars PROVE QualityIsKnown'
  OBVIOUS
<1>1. saved'["quality"] = saved["quality"] => QualityIsKnown'
  BY DEF QualityIsKnown, Says
<1>2. ASSUME NEW a \in Artifact, NEW opts, Write(a, opts) PROVE QualityIsKnown'
  <2>1. CASE a = "quality"
    <3>1. Verdict(a, opts) \in {"passed", "failed"}
      BY <2>1 DEF Verdict, QualityVerdict
    <3>2. saved'["quality"] = [verdict |-> Verdict(a, opts), fresh |-> TRUE]
      BY <1>2, <2>1, WriteWrites
    <3>3. QED
      BY <3>1, <3>2 DEF QualityIsKnown, Says
  <2>2. CASE a # "quality"
    BY <1>1, <1>2, <2>2, WriteWrites DEF Artifact
  <2>3. QED
    BY <2>1, <2>2
<1>3. CASE StartRefresh
  BY <1>1, <1>3 DEF StartRefresh
<1>4. CASE RunStep
  <2>1. Steps[step] \in Artifact
    BY <1>4, StepType DEF RunStep, TypeOK
  <2>2. Keep \/ Write(Steps[step], flags)
    BY <1>4 DEF RunStep
  <2>3. QED
    BY <1>1, <1>2, <2>1, <2>2 DEF Keep
<1>5. CASE FailStep
  BY <1>1, <1>5 DEF FailStep, Keep
<1>6. CASE Interrupt
  BY <1>1, <1>6 DEF Interrupt
<1>7. ASSUME NEW a \in Artifact, WriteReport(a) PROVE QualityIsKnown'
  BY <1>2, <1>7 DEF WriteReport
<1>8. ASSUME NEW a \in {"discovery", "reproduction", "attempts"}, NEW verdict,
             Execute(a, verdict)
      PROVE  QualityIsKnown'
  <2>1. "quality" \in Artifact
    BY DEF Artifact
  <2>2. QED
    BY <1>1, <1>8, <2>1 DEF Execute, TypeOK
<1>9. CASE DayPasses
  <2>1. saved'["quality"] = [saved["quality"] EXCEPT !.fresh = FALSE]
    BY <1>9 DEF DayPasses, Artifact
  <2>2. saved["quality"] \in Report
    BY DEF TypeOK, Artifact
  <2>3. saved["quality"] = Missing => saved'["quality"] = Missing
    <3>1. saved["quality"] = Missing => saved["quality"].fresh = FALSE
      BY DEF Missing
    <3>2. saved["quality"].fresh = FALSE => saved'["quality"] = saved["quality"]
      BY <2>1, <2>2 DEF Report
    <3>3. QED
      BY <3>1, <3>2
  <2>4. saved'["quality"].verdict = saved["quality"].verdict
    BY <2>1, <2>2 DEF Report
  <2>5. QED
    BY <2>3, <2>4 DEF QualityIsKnown, Says
<1>10. CASE WorldChanges
  BY <1>1, <1>10 DEF WorldChanges
<1>11. CASE UNCHANGED vars
  BY <1>1, <1>11 DEF vars
<1>12. QED
  BY <1>3, <1>4, <1>5, <1>6, <1>7, <1>8, <1>9, <1>10, <1>11 DEF Next

-----------------------------------------------------------------------------
(* The steps of a refresh *)

\* What the last step to write an artifact makes of it, no later step reads.
LEMMA LaterStepsLeave ==
    ASSUME NEW i \in LastWrites, NEW k \in 1..18, i < k
    PROVE  /\ Steps[i] # Steps[k]
           /\ Steps[k] \notin ReadBy(Steps[i])
           /\ Steps[i] # "release"
<1>1. i \in {1, 2, 3, 4, 5, 6, 7, 8, 9, 11, 12, 16, 17}
  BY DEF LastWrites
<1>2. k \in {1, 2, 3, 4, 5, 6, 7, 8, 9, 10, 11, 12, 13, 14, 15, 16, 17, 18}
  OBVIOUS
<1>3. CASE i = 17
  <2>1. k \in {18}
    BY <1>2, <1>3
  <2>2. QED
    BY <1>3, <2>1, StepAt DEF ReadBy, Audited
<1>4. CASE i = 16
  <2>1. k \in {17, 18}
    BY <1>2, <1>4
  <2>2. QED
    BY <1>4, <2>1, StepAt DEF ReadBy
<1>5. CASE i = 12
  <2>1. k \in {13, 14, 15, 16, 17, 18}
    BY <1>2, <1>5
  <2>2. QED
    BY <1>5, <2>1, StepAt DEF ReadBy
<1>6. CASE i = 11
  <2>1. k \in {12, 13, 14, 15, 16, 17, 18}
    BY <1>2, <1>6
  <2>2. QED
    BY <1>6, <2>1, StepAt DEF ReadBy
<1>7. CASE i = 9
  <2>1. k \in {10, 11, 12, 13, 14, 15, 16, 17, 18}
    BY <1>2, <1>7
  <2>2. QED
    BY <1>7, <2>1, StepAt DEF ReadBy
<1>8. CASE i = 8
  <2>1. k \in {9, 10, 11, 12, 13, 14, 15, 16, 17, 18}
    BY <1>2, <1>8
  <2>2. QED
    BY <1>8, <2>1, StepAt DEF ReadBy
<1>9. CASE i = 7
  <2>1. k \in {8, 9, 10, 11, 12, 13, 14, 15, 16, 17, 18}
    BY <1>2, <1>9
  <2>2. QED
    BY <1>9, <2>1, StepAt DEF ReadBy
<1>10. CASE i = 6
  <2>1. k \in {7, 8, 9, 10, 11, 12, 13, 14, 15, 16, 17, 18}
    BY <1>2, <1>10
  <2>2. QED
    BY <1>10, <2>1, StepAt DEF ReadBy
<1>11. CASE i = 5
  <2>1. k \in {6, 7, 8, 9, 10, 11, 12, 13, 14, 15, 16, 17, 18}
    BY <1>2, <1>11
  <2>2. QED
    BY <1>11, <2>1, StepAt DEF ReadBy
<1>12. CASE i = 4
  <2>1. k \in {5, 6, 7, 8, 9, 10, 11, 12, 13, 14, 15, 16, 17, 18}
    BY <1>2, <1>12
  <2>2. QED
    BY <1>12, <2>1, StepAt DEF ReadBy
<1>13. CASE i = 3
  <2>1. k \in {4, 5, 6, 7, 8, 9, 10, 11, 12, 13, 14, 15, 16, 17, 18}
    BY <1>2, <1>13
  <2>2. QED
    BY <1>13, <2>1, StepAt DEF ReadBy
<1>14. CASE i = 2
  <2>1. k \in {3, 4, 5, 6, 7, 8, 9, 10, 11, 12, 13, 14, 15, 16, 17, 18}
    BY <1>2, <1>14
  <2>2. QED
    BY <1>14, <2>1, StepAt DEF ReadBy
<1>15. CASE i = 1
  <2>1. k \in {2, 3, 4, 5, 6, 7, 8, 9, 10, 11, 12, 13, 14, 15, 16, 17, 18}
    BY <1>2, <1>15
  <2>2. QED
    BY <1>15, <2>1, StepAt DEF ReadBy
<1>16. QED
  BY <1>1, <1>3, <1>4, <1>5, <1>6, <1>7, <1>8, <1>9, <1>10, <1>11, <1>12, <1>13, <1>14, <1>15

\* Reports that every refresh writes are never left out.
LEMMA AlwaysWritten == \A a \in Always : ~Skipped(a) /\ ~Kept(a)
BY DEF Always, Skipped, Absent, Kept

\* The steps from release hygiene on.
LEMMA FinalSteps ==
    ASSUME NEW k \in 1..18, k > 14
    PROVE  /\ Steps[k] \in Always
           /\ k < 18 => Steps[k] # "status"
           /\ k > 15 => Steps[k] \in {"launch", "delivery", "status"}
<1>1. k \in {15, 16, 17, 18}
  OBVIOUS
<1>2. QED
  BY <1>1, StepAt DEF Always, Artifact

\* A step of a refresh that nothing disturbed leaves it undisturbed.
LEMMA StepWorks ==
    ASSUME TypeOK, TypeOK', NEW k \in 1..18, step = k, RunStep,
           NEW again \in BOOLEAN, AtWork(k, again)
    PROVE  AtWork(k + 1, again)'
<1> DEFINE a == Steps[k]
<1>1. a \in Artifact
  BY StepType
<1>2. UNCHANGED <<world, flags>>
  BY DEF RunStep, Advance
<1>3. \/ Keep /\ (Skipped(a) \/ Kept(a))
      \/ Write(a, flags)
  BY DEF RunStep
<1>4. a \in Always => Write(a, flags)
  BY <1>3, AlwaysWritten
<1>5. ASSUME NEW i \in LastWrites, i < k + 1 PROVE Current(Steps[i])'
  <2>0. i \in 1..18 /\ Steps[i] \in Artifact
    BY StepType DEF LastWrites
  <2>1. CASE i = k /\ Keep /\ (Skipped(a) \/ Kept(a))
    BY <1>2, <2>1 DEF Keep, Current, Skipped, Absent, Kept, Reproduced, Says
  <2>2. CASE i = k /\ Write(a, flags)
    BY <1>1, <1>2, <2>2, WrittenIsCurrent
  <2>3. CASE i < k
    <3>1. Current(Steps[i])
      BY <2>3 DEF AtWork
    <3>2. Steps[i] # a /\ a \notin ReadBy(Steps[i]) /\ Steps[i] # "release"
      BY <2>3, LaterStepsLeave
    <3>3. CASE Keep
      BY <1>2, <3>1, <3>3 DEF Keep, Current, Skipped, Absent, Kept, Reproduced, Says, Verdict
    <3>4. CASE Write(a, flags)
      BY <1>1, <1>2, <2>0, <3>1, <3>2, <3>4, OthersStayCurrent
    <3>5. QED
      BY <1>3, <3>3, <3>4
  <2>4. QED
    BY <1>3, <1>5, <2>0, <2>1, <2>2, <2>3
<1>6. ASSUME NEW b \in Artifact, saved[b].fresh PROVE saved'[b].fresh
  <2>1. CASE Keep
    BY <1>6, <2>1 DEF Keep
  <2>2. CASE Write(a, flags) /\ b = a
    BY <1>1, <2>2, WriteFreshens
  <2>3. CASE Write(a, flags) /\ b # a
    BY <1>1, <1>6, <2>3, WriteWrites
  <2>4. QED
    BY <1>3, <2>1, <2>2, <2>3
<1>7. ASSUME NEW i \in 1..18, i < k + 1, Steps[i] \in Always PROVE saved'[Steps[i]].fresh
  <2>1. CASE i = k
    BY <1>1, <1>4, <1>7, <2>1, WriteFreshens
  <2>2. CASE i < k
    BY <1>6, <1>7, <2>2, StepType DEF AtWork
  <2>3. QED
    BY <1>7, <2>1, <2>2
<1>8. again => AlwaysFresh'
  BY <1>6 DEF AtWork, AlwaysFresh, Always
<1>9. CASE k < 14
  BY <1>5, <1>7, <1>8, <1>9 DEF AtWork
<1>10. CASE k = 14
  <2>1. a = "status" /\ a \in Always
    BY <1>10, StepAt DEF Always, Artifact
  <2>2. Write(a, flags)
    BY <1>4, <2>1
  <2>3. noted' = Freshness(saved) /\ Freshness(saved') = Freshness(saved)
    BY <1>1, <2>1, <2>2, WriteWrites, FreshnessKept
  <2>4. QED
    BY <1>5, <1>7, <1>8, <1>10, <2>3 DEF AtWork
<1>11. CASE k > 14
  <2>1. a \in Always /\ (k < 18 => a # "status") /\ (k > 15 => a \in {"launch", "delivery", "status"})
    BY <1>11, FinalSteps
  <2>2. Write(a, flags)
    BY <1>4, <2>1
  <2>3. k < 18 => noted' = noted
    BY <1>1, <2>1, <2>2, WriteWrites
  <2>4. k = 18 => noted' = Freshness(saved) /\ Freshness(saved') = Freshness(saved)
    BY <1>1, <2>2, StepAt, WriteWrites, FreshnessKept
  <2>5. Freshness(saved) = "fresh" => Freshness(saved') = "fresh"
    BY <1>1, <2>2, FreshStaysFresh
  <2>6. noted' = "fresh" => Freshness(saved') = "fresh"
    BY <1>11, <2>3, <2>4, <2>5 DEF AtWork
  <2>7. again => noted' = noted /\ noted' = Freshness(saved')
    <3>1. SUFFICES ASSUME again PROVE noted' = noted /\ noted' = Freshness(saved')
      OBVIOUS
    <3>2. noted = Freshness(saved) /\ AlwaysFresh
      BY <1>11, <3>1 DEF AtWork
    <3>3. saved[a].fresh
      BY <2>1, <3>2 DEF AlwaysFresh
    <3>4. Freshness(saved') = Freshness(saved)
      BY <1>1, <2>2, <3>3, FreshnessKept
    <3>5. QED
      BY <2>3, <2>4, <3>2, <3>4
  <2>8. ReleaseIsFresh'
    <3>1. CASE k = 15
      <4>1. a = "release"
        BY <3>1, StepAt
      <4>2. saved'["release"].verdict = ReleaseVerdict(saved, world, noted)
        <5>1. Verdict("release", flags) = ReleaseVerdict(saved, world, noted)
          BY DEF Verdict
        <5>2. saved'["release"] = [verdict |-> Verdict("release", flags), fresh |-> TRUE]
          BY <1>1, <2>2, <4>1, WriteWrites
        <5>3. QED
          BY <5>1, <5>2
      <4>3. noted # "fresh" => ReleaseVerdict(saved, world, noted) = "blocked"
        BY DEF ReleaseVerdict
      <4>4. noted' = noted
        BY <2>3, <3>1
      <4>5. QED
        BY <2>6, <4>2, <4>3, <4>4 DEF ReleaseIsFresh, Says
    <3>2. CASE k > 15
      <4>1. ReleaseIsFresh
        BY <3>2 DEF AtWork
      <4>2. saved'["release"] = saved["release"]
        BY <1>1, <2>1, <2>2, <3>2, WriteWrites DEF Artifact
      <4>3. QED
        BY <2>5, <4>1, <4>2 DEF ReleaseIsFresh, Says
    <3>3. QED
      BY <1>11, <3>1, <3>2
  <2>9. again => Current("release")'
    <3>1. CASE k = 15
      BY <1>1, <1>2, <2>2, <3>1, StepAt, WrittenIsCurrent
    <3>2. CASE k > 15
      BY <1>2, <2>1, <2>2, <2>7, <3>2, ReleaseStaysCurrent DEF AtWork
    <3>3. QED
      BY <1>11, <3>1, <3>2
  <2>10. QED
    BY <1>5, <1>7, <1>8, <2>6, <2>7, <2>8, <2>9 DEF AtWork
<1>12. QED
  BY <1>9, <1>10, <1>11

\* A refresh that ends undisturbed made the reports current: its last write
\* of each, for no later step read it.
LEMMA RefreshEnds ==
    ASSUME TypeOK, TypeOK', step = 18, RunStep, NEW again \in BOOLEAN, AtWork(18, again)
    PROVE  AtRest(again)'
<1>1. AtWork(19, again)'
  BY StepWorks
<1>2. UNCHANGED <<world, flags>>
  BY DEF RunStep, Advance
<1>3. Write("status", flags) /\ "status" \in Artifact
  BY AlwaysWritten, StepAt DEF RunStep, Always, Artifact
<1>4. Current("status")'
  BY <1>2, <1>3, WrittenIsCurrent
<1>5. noted' = Freshness(saved')
  BY <1>3, WriteWrites, FreshnessKept
<1>6. \A i \in {1, 2, 3, 4, 5, 6, 7, 8, 9, 11, 12, 16, 17} : Current(Steps[i])'
  BY <1>1 DEF AtWork, LastWrites
<1>7. ASSUME NEW b \in Artifact \ {"release"} PROVE Current(b)'
  <2>1. CASE b = "status"
    BY <1>4, <2>1
  <2>2. CASE b # "status"
    <3>1. PICK i \in {1, 2, 3, 4, 5, 6, 7, 8, 9, 11, 12, 16, 17} : b = Steps[i]
      BY <2>2, StepAt DEF Artifact
    <3>2. QED
      BY <1>6, <3>1
  <2>3. QED
    BY <2>1, <2>2
<1>8. AlwaysFresh'
  <2>1. \A i \in 1..18 : Steps[i] \in Always => saved'[Steps[i]].fresh
    BY <1>1 DEF AtWork
  <2>2. ASSUME NEW b \in Always PROVE saved'[b].fresh
    <3>1. PICK i \in 1..18 : b = Steps[i]
      BY StepAt DEF Always, Artifact
    <3>2. QED
      BY <2>1, <3>1
  <2>3. QED
    BY <2>2 DEF AlwaysFresh
<1>9. ReleaseIsFresh' /\ (again => Current("release")')
  BY <1>1 DEF AtWork
<1>10. QED
  BY <1>5, <1>7, <1>8, <1>9 DEF AtRest

-----------------------------------------------------------------------------
(* The invariant *)

\* What disturbs the reports is remembered.
LEMMA DisturbStep ==
    ASSUME TypeOK, Disturb, step' = step
    PROVE  (step' > 0 => upset') /\ settled' = 0
BY DEF Disturb

LEMMA UpsetStep ==
    ASSUME TypeOK, step \in 1..18, NEW failed \in BOOLEAN, Advance(failed), upset \/ failed
    PROVE  upset' /\ ~(step' = 0 /\ settled' > 0)
<1>1. upset'
  BY DEF Advance
<1>2. step < 18 => step' > 0
  BY StepAt DEF Advance
<1>3. step = 18 => settled' = 0
  BY <1>1, StepAt DEF Advance
<1>4. QED
  BY <1>1, <1>2, <1>3

LEMMA InvStep == IInv /\ [Next]_vars => IInv'
<1> SUFFICES ASSUME IInv, [Next]_vars PROVE IInv'
  OBVIOUS
<1>1. TypeOK /\ TypeOK' /\ QualityIsKnown'
  BY TypeStep, QualityStep DEF IInv
<1>2. SUFFICES /\ step' > 0 /\ ~upset' => AtWork(step, settled > 0)'
               /\ step' = 0 /\ settled' > 0 => AtRest(settled = 2)'
  BY <1>1 DEF IInv
<1>3. CASE StartRefresh
  <2>1. step' = 1 /\ step = 0 /\ UNCHANGED <<saved, settled>>
    BY <1>3 DEF StartRefresh
  <2>2. settled > 0 => AlwaysFresh
    BY <2>1 DEF IInv, AtRest
  <2>3. settled' > 0 => AlwaysFresh'
    BY <2>1, <2>2 DEF AlwaysFresh
  <2>4. AtWork(1, settled > 0)'
    BY <2>3 DEF AtWork, LastWrites
  <2>5. QED
    BY <2>1, <2>4
<1>4. CASE RunStep
  <2>0. step \in 0..18 /\ step > 0 /\ Advance(FALSE)
    BY <1>1, <1>4, Zenon DEF RunStep, TypeOK
  <2>1. step \in 1..18
    BY <2>0
  <2>2. CASE upset
    BY <1>1, <2>0, <2>1, <2>2, UpsetStep
  <2>3. CASE ~upset /\ step < 18
    <3>1. step' = step + 1 /\ settled' = settled
      BY <2>0, <2>3, StepAt DEF Advance
    <3>2. AtWork(step, settled > 0)
      BY <2>1, <2>3 DEF IInv
    <3>3. \A k \in 1..18, again \in BOOLEAN :
             step = k /\ AtWork(k, again) => AtWork(k + 1, again)'
      BY <1>1, <1>4, StepWorks
    <3>4. PICK k \in 1..18 : k = step
      BY <2>1
    <3>5. PICK again \in BOOLEAN : again <=> settled > 0
      OBVIOUS
    <3>6. AtWork(k, again)
      BY <3>2, <3>4, <3>5 DEF AtWork
    <3>7. AtWork(k + 1, again)'
      BY <3>3, <3>4, <3>6
    <3>8. step' = k + 1 /\ (again <=> settled' > 0)
      BY <3>1, <3>4, <3>5
    <3>9. AtWork(step, settled > 0)'
      BY <3>7, <3>8 DEF AtWork
    <3>10. QED
      BY <2>1, <3>1, <3>9
  <2>4. CASE ~upset /\ step = 18
    <3>1. step' = 0 /\ settled' = IF upset' THEN 0 ELSE IF settled < 2 THEN settled + 1 ELSE 2
      BY <2>0, <2>4, StepAt DEF Advance
    <3>2. settled' = 2 => settled > 0
      BY <1>1, <3>1 DEF TypeOK
    <3>3. AtWork(18, settled > 0)
      BY <2>4 DEF IInv
    <3>4. PICK again \in BOOLEAN : again <=> settled > 0
      OBVIOUS
    <3>5. AtWork(18, again)
      BY <3>3, <3>4 DEF AtWork
    <3>6. AtRest(again)'
      BY <1>1, <1>4, <2>4, <3>5, RefreshEnds
    <3>7. AtRest(settled = 2)'
      BY <3>2, <3>4, <3>6 DEF AtRest
    <3>8. QED
      BY <3>1, <3>7
  <2>5. QED
    BY <2>1, <2>2, <2>3, <2>4
<1>5. CASE FailStep
  <2>1. step \in 0..18 /\ step > 0 /\ Advance(TRUE)
    BY <1>1, <1>5, Zenon DEF FailStep, TypeOK
  <2>2. step \in 1..18
    BY <2>1
  <2>3. QED
    BY <1>1, <2>1, <2>2, UpsetStep
<1>6. CASE Interrupt
  BY <1>6 DEF Interrupt
<1>7. ASSUME Disturb, step' = step
      PROVE  /\ step' > 0 /\ ~upset' => AtWork(step, settled > 0)'
             /\ step' = 0 /\ settled' > 0 => AtRest(settled = 2)'
  <2>1. (step' > 0 => upset') /\ settled' = 0
    BY <1>1, <1>7, DisturbStep
  <2>2. QED
    BY <2>1
<1>8. ASSUME NEW a, WriteReport(a) PROVE Disturb /\ step' = step
  BY <1>8, Zenon DEF WriteReport
<1>9. ASSUME NEW a, NEW verdict, Execute(a, verdict) PROVE Disturb /\ step' = step
  BY <1>9, Zenon DEF Execute
<1>10. ASSUME DayPasses PROVE Disturb /\ step' = step
  BY <1>10, Zenon DEF DayPasses
<1>11. ASSUME WorldChanges PROVE Disturb /\ step' = step
  BY <1>11, Zenon DEF WorldChanges
<1>12. CASE UNCHANGED vars
  <2>1. AtWork(step, settled > 0)' <=> AtWork(step, settled > 0)
    BY <1>12 DEF vars, AtWork, Current, Skipped, Absent, Kept, Reproduced, Says, AlwaysFresh, ReleaseIsFresh, Verdict
  <2>2. AtRest(settled = 2)' <=> AtRest(settled = 2)
    BY <1>12 DEF vars, AtRest, Current, Skipped, Absent, Kept, Reproduced, Says, AlwaysFresh, ReleaseIsFresh, Verdict
  <2>3. QED
    BY <1>12, <2>1, <2>2 DEF IInv, vars
<1>13. QED
  BY <1>3, <1>4, <1>5, <1>6, <1>7, <1>8, <1>9, <1>10, <1>11, <1>12 DEF Next

LEMMA InvInit == Init => IInv
<1> SUFFICES ASSUME Init PROVE IInv
  OBVIOUS
<1>1. TypeOK
  BY TypeInit
<1>2. QualityIsKnown /\ step = 0 /\ settled = 0
  BY DEF Init, QualityIsKnown, Artifact
<1>3. QED
  BY <1>1, <1>2 DEF IInv

\* Every state of the portfolio keeps the invariant.
THEOREM Invariance == Spec => []IInv
BY InvInit, InvStep, PTL DEF Spec

-----------------------------------------------------------------------------
(* What the refreshes promise *)

LEMMA SettledMeans == IInv => SecondRefreshSettles
<1> SUFFICES ASSUME IInv, settled = 2, step = 0
             PROVE  (\A a \in Artifact : Current(a)) /\ noted = Freshness(saved)
  BY DEF SecondRefreshSettles, Current
<1>1. AtRest(TRUE)
  BY DEF IInv, AtRest
<1>2. QED
  BY <1>1 DEF AtRest

\* For any machine, checkout and flags, and whatever came before: two
\* undisturbed refreshes leave every report as a third one would write it
\* (build_evidence_refresh_steps).
THEOREM RefreshSettles == Spec => []SecondRefreshSettles
BY Invariance, SettledMeans, PTL

LEMMA ReadyMeans == IInv => ReadyIsFresh
<1> SUFFICES ASSUME IInv, settled > 0, step = 0,
                    Says(saved, "status", {"ready", "ready_with_caveats"})
             PROVE  /\ Freshness(saved) = "fresh"
                    /\ Says(saved, "docker", {"passed"})
                    /\ Says(saved, "quality", {"passed"})
  BY DEF ReadyIsFresh
<1>1. (\A a \in Artifact \ {"release"} : Current(a)) /\ ReleaseIsFresh
  BY DEF IInv, AtRest
<1>2. ASSUME NEW a \in {"status", "launch"} PROVE saved[a].verdict = Verdict(a, flags)
  <2>1. a \in Always /\ a \in Artifact \ {"release"}
    BY DEF Always, Artifact
  <2>2. saved[a] = [verdict |-> Verdict(a, flags), fresh |-> TRUE]
    BY <1>1, <2>1, AlwaysWritten DEF Current
  <2>3. QED
    BY <2>2
<1>3. saved["status"].verdict = StatusVerdict(saved) /\ saved["launch"].verdict = LaunchVerdict(saved)
  BY <1>2 DEF Verdict
<1>4. /\ \A a \in Sources : saved[a] # Missing
      /\ ~Says(saved, "launch", {"blocked"})
      /\ ~Says(saved, "quality", {"failed"})
      /\ ~Says(saved, "release", {"blocked"})
  BY <1>3 DEF StatusVerdict, Says
<1>5. Freshness(saved) = "fresh"
  BY <1>1, <1>4 DEF ReleaseIsFresh
<1>6. Says(saved, "docker", {"passed"})
  <2>1. LaunchVerdict(saved) # "blocked"
    BY <1>3, <1>4 DEF Says
  <2>2. ~Says(saved, "docker", {"passed"}) => LaunchVerdict(saved) = "blocked"
    BY DEF LaunchVerdict
  <2>3. QED
    BY <2>1, <2>2
<1>7. Says(saved, "quality", {"passed"})
  BY <1>4 DEF IInv, QualityIsKnown, Says, Sources, Artifact
<1>8. QED
  BY <1>5, <1>6, <1>7

\* For any machine, checkout and flags: what an undisturbed refresh calls
\* ready rests on a docker smoke and a quality gate that passed, and on
\* sources all younger than a day, although project_overall_status looks at
\* no age itself.
THEOREM ReadyRestsOnFresh == Spec => []ReadyIsFresh
BY Invariance, ReadyMeans, PTL

\* Nothing holds the release up, and all reports are current.
Cured ==
    /\ AtRest(TRUE)
    /\ flags = {"docker", "quality"}
    /\ GoodWorld
    /\ world.issues # "none"
    /\ world.focus # "none"
    /\ KeptIsFresh

\* Then every report but kept executions is as the refresh wrote it.
LEMMA CuredIsWritten ==
    ASSUME Cured, NEW a \in Artifact, ~Kept(a)
    PROVE  saved[a] = [verdict |-> Verdict(a, flags), fresh |-> TRUE]
<1>1. Current(a)
  BY DEF Cured, AtRest
<1>2. ~Skipped(a)
  BY DEF Cured, Skipped, Absent
<1>3. QED
  BY <1>1, <1>2 DEF Current

LEMMA CuredIsFresh ==
    ASSUME TypeOK, Cured
    PROVE  noted = "fresh" /\ \A a \in Artifact : saved[a] # Missing
<1>1. ASSUME NEW a \in Artifact PROVE saved[a].fresh
  <2>1. CASE Kept(a)
    BY <2>1 DEF Cured, KeptIsFresh
  <2>2. CASE ~Kept(a)
    <3>1. saved[a] = [verdict |-> Verdict(a, flags), fresh |-> TRUE]
      BY <2>2, CuredIsWritten
    <3>2. QED
      BY <3>1
  <2>3. QED
    BY <2>1, <2>2
<1>2. \A a \in Artifact : saved[a] # Missing
  BY <1>1, FreshIsThere
<1>3. Freshness(saved) = "fresh"
  BY <1>1, FreshMeans DEF Sources
<1>4. QED
  BY <1>2, <1>3 DEF Cured, AtRest

\* What the reports say that read no other.
LEMMA CuredSays ==
    ASSUME TypeOK, Cured
    PROVE  /\ saved["docker"].verdict = "passed"
           /\ saved["quality"].verdict = "passed"
           /\ saved["plan"].verdict = world.issues
           /\ saved["calibration"].verdict = CalibrationVerdict(world)
           /\ saved["environment"].verdict \in {"ready_with_warnings", "ready"}
           /\ saved["release"].verdict \in {"ready_with_warnings", "ready"}
           /\ saved["discovery"].verdict = DiscoveryVerdict(saved)
           /\ saved["readiness"].verdict = ReadinessVerdict(saved, world)
           /\ saved["launch"].verdict = LaunchVerdict(saved)
           /\ saved["delivery"].verdict = DeliveryVerdict(saved, world)
           /\ saved["status"].verdict = StatusVerdict(saved)
<1>1. ASSUME NEW a \in Artifact \ {"reproduction", "attempts"}
      PROVE  saved[a].verdict = Verdict(a, flags)
  <2>1. ~Kept(a)
    BY DEF Kept
  <2>2. saved[a] = [verdict |-> Verdict(a, flags), fresh |-> TRUE]
    BY <2>1, CuredIsWritten
  <2>3. QED
    BY <2>2
<1>2. saved["docker"].verdict = "passed"
  <2>1. world.docker = "works" /\ "skip run" \notin flags
    BY DEF Cured, GoodWorld
  <2>2. DockerVerdict(world, flags) = "passed"
    BY <2>1 DEF DockerVerdict, DockerAnswers
  <2>3. Verdict("docker", flags) = DockerVerdict(world, flags)
    BY DEF Verdict
  <2>4. QED
    BY <1>1, <2>2, <2>3 DEF Artifact
<1>3. saved["quality"].verdict = "passed"
  <2>1. Verdict("quality", flags) = "passed"
    BY DEF Verdict, QualityVerdict, Cured, GoodWorld
  <2>2. QED
    BY <1>1, <2>1 DEF Artifact
<1>4. saved["environment"].verdict \in {"ready_with_warnings", "ready"}
  <2>1. EnvironmentVerdict(saved, world) \in {"ready_with_warnings", "ready"}
    BY <1>2 DEF EnvironmentVerdict, Says
  <2>2. Verdict("environment", flags) = EnvironmentVerdict(saved, world)
    BY DEF Verdict
  <2>3. QED
    BY <1>1, <2>1, <2>2 DEF Artifact
<1>5. saved["release"].verdict \in {"ready_with_warnings", "ready"}
  <2>1. DemoReady(world) /\ world.clean
    BY DEF Cured, GoodWorld
  <2>2. ReleaseVerdict(saved, world, noted) \in {"ready_with_warnings", "ready"}
    BY <2>1, CuredIsFresh DEF ReleaseVerdict, Required
  <2>3. Verdict("release", flags) = ReleaseVerdict(saved, world, noted)
    BY DEF Verdict
  <2>4. QED
    BY <1>1, <2>2, <2>3 DEF Artifact
<1>6. /\ Verdict("plan", flags) = world.issues
      /\ Verdict("calibration", flags) = CalibrationVerdict(world)
      /\ Verdict("discovery", flags) = DiscoveryVerdict(saved)
      /\ Verdict("readiness", flags) = ReadinessVerdict(saved, world)
      /\ Verdict("launch", flags) = LaunchVerdict(saved)
      /\ Verdict("delivery", flags) = DeliveryVerdict(saved, world)
      /\ Verdict("status", flags) = StatusVerdict(saved)
  BY DEF Verdict
<1>7. QED
  BY <1>1, <1>2, <1>3, <1>4, <1>5, <1>6 DEF Artifact

\* What was executed for the issues, or a dry run in its place, blocks nothing
\* but by a failure.
LEMMA CuredExecutions ==
    ASSUME TypeOK, Cured, world.issues # "blocked", world.focus \in {"warning", "ready"},
           ~Says(saved, "reproduction", {"mixed"}), ~Says(saved, "attempts", {"failed"})
    PROVE  /\ saved["readiness"].verdict \in {"unproven", "some", "warning", "ready"}
           /\ ~Says(saved, "reproduction", {"blocked", "mixed", "failed"})
           /\ ~Says(saved, "attempts", {"failed", "broken", "stuck"})
<1>1. saved["readiness"].verdict \in {"unproven", "some", "warning", "ready"}
  <2>1. CASE ~Reproduced(saved)
    <3>1. ReadinessVerdict(saved, world) = "unproven"
      BY <2>1 DEF ReadinessVerdict
    <3>2. QED
      BY <3>1, CuredSays
  <2>2. CASE Says(saved, "reproduction", {"some", "mixed"})
    <3>1. Reproduced(saved)
      BY <2>2 DEF Reproduced, Says
    <3>2. ReadinessVerdict(saved, world) = "some"
      BY <2>2, <3>1 DEF ReadinessVerdict, Says
    <3>3. QED
      BY <3>2, CuredSays
  <2>3. CASE Says(saved, "reproduction", {"reproduced"})
    <3>1. Reproduced(saved)
      BY <2>3 DEF Reproduced, Says
    <3>2. ReadinessVerdict(saved, world) = world.focus
      BY <2>3, <3>1 DEF ReadinessVerdict, Says
    <3>3. QED
      BY <3>2, CuredSays
  <2>4. QED
    BY <2>1, <2>2, <2>3 DEF Reproduced, Says
<1>2. ~Says(saved, "reproduction", {"blocked", "mixed", "failed"})
  <2>1. CASE Kept("reproduction")
    BY <2>1 DEF Kept, Reproduced, Says
  <2>2. CASE ~Kept("reproduction")
    <3>1. saved["reproduction"].verdict = ReproductionVerdict(saved)
      BY <2>2, CuredIsWritten DEF Verdict, Artifact
    <3>2. ReproductionVerdict(saved) = "dry_run"
      BY CuredSays DEF ReproductionVerdict, Says
    <3>3. QED
      BY <3>1, <3>2 DEF Says
  <2>3. QED
    BY <2>1, <2>2
<1>3. ~Says(saved, "attempts", {"failed", "broken", "stuck"})
  <2>1. CASE Kept("attempts")
    BY <2>1 DEF Kept, Says
  <2>2. CASE ~Kept("attempts")
    <3>1. saved["attempts"].verdict = AttemptsVerdict(saved, world)
      BY <2>2, CuredIsWritten DEF Verdict, Artifact
    <3>2. DockerAnswers(world)
      BY DEF DockerAnswers, Cured, GoodWorld
    <3>3. AttemptsVerdict(saved, world) \in {"unproven", "dry_run"}
      BY <1>1, <3>2 DEF AttemptsVerdict, Says
    <3>4. QED
      BY <3>1, <3>3 DEF Says
  <2>3. QED
    BY <2>1, <2>2
<1>4. QED
  BY <1>1, <1>2, <1>3

\* Then neither launch blockers nor the delivery audit block, but for issues.
LEMMA CuredIsReady ==
    ASSUME TypeOK, Cured, world.issues # "blocked", world.focus # "blocked",
           world.live # "none",
           ~Says(saved, "reproduction", {"mixed"}), ~Says(saved, "attempts", {"failed"})
    PROVE  Says(saved, "status", {"ready", "ready_with_caveats"})
<1>1. /\ world.issues \in {"warning", "ready"}
      /\ world.focus \in {"warning", "ready"}
      /\ world.live \in {"credentials", "runs", "configured"}
  <2>1. world \in World
    BY WorldAssumption DEF TypeOK
  <2>2. world.issues # "none" /\ world.focus # "none"
    BY DEF Cured
  <2>3. world.issues \in {"none", "blocked", "warning", "ready"}
    BY <2>1 DEF World
  <2>4. world.focus \in {"none", "blocked", "warning", "ready"}
    BY <2>1 DEF World
  <2>5. world.live \in {"none", "credentials", "runs", "configured"}
    BY <2>1 DEF World
  <2>6. QED
    BY <2>2, <2>3, <2>4, <2>5
<1>2. IssueItem(saved) \in {"ready", "warning"}
  <2>1. saved["readiness"].verdict \in {"unproven", "some", "warning", "ready"}
    BY <1>1, CuredExecutions
  <2>2. CASE saved["readiness"].verdict \in {"unproven", "some", "warning"}
    BY <2>2 DEF IssueItem, Says
  <2>3. CASE saved["readiness"].verdict = "ready"
    BY <2>3 DEF IssueItem, Says
  <2>4. QED
    BY <2>1, <2>2, <2>3
<1>3. ReleaseItem(saved) \in {"ready", "warning"}
  <2>1. CASE saved["release"].verdict = "ready"
    BY <2>1 DEF ReleaseItem, Says
  <2>2. CASE saved["release"].verdict = "ready_with_warnings"
    BY <2>2 DEF ReleaseItem, Says
  <2>3. QED
    BY <2>1, <2>2, CuredSays
<1>4. LaunchVerdict(saved) # "blocked"
  BY <1>2, <1>3, CuredSays DEF LaunchVerdict, Says
<1>5. CalibrationVerdict(world) # "not_configured"
  BY <1>1 DEF CalibrationVerdict, LiveRuns
<1>6. DiscoveryVerdict(saved) # "blocked"
  BY <1>1, CuredSays DEF DiscoveryVerdict, Says
<1>7. ~DeliveryBlocked(saved)
  <2>1. ~Says(saved, "readiness", {"blocked", "stuck"})
    BY <1>1, CuredExecutions DEF Says
  <2>2. /\ ~Says(saved, "reproduction", {"blocked", "mixed", "failed"})
        /\ ~Says(saved, "attempts", {"failed", "broken", "stuck"})
    BY <1>1, CuredExecutions
  <2>3. QED
    BY <1>1, <1>5, <1>6, <2>1, <2>2, CuredSays DEF DeliveryBlocked, Says
<1>8. DeliveryVerdict(saved, world) # "in_progress_with_blockers"
  BY <1>7 DEF DeliveryVerdict
<1>9. \A a \in Sources : saved[a] # Missing
  BY CuredIsFresh DEF Sources
<1>10. /\ ~Says(saved, "delivery", {"in_progress_with_blockers"})
       /\ ~Says(saved, "launch", {"blocked"})
       /\ ~Says(saved, "quality", {"failed"})
       /\ ~Says(saved, "release", {"blocked"})
       /\ ~Says(saved, "environment", {"blocked"})
  BY <1>4, <1>8, CuredSays DEF Says
<1>11. StatusVerdict(saved) \in {"ready", "ready_with_caveats"}
  BY <1>9, <1>10 DEF StatusVerdict
<1>12. QED
  BY <1>11, CuredSays DEF Says

LEMMA CureMeans == IInv => TwoRefreshesCure
<1> SUFFICES ASSUME IInv, settled = 2, step = 0, flags = {"docker", "quality"}, GoodWorld,
                    world.issues # "none", world.focus # "none", KeptIsFresh
             PROVE  /\ ~Says(saved, "release", {"blocked"})
                    /\ \/ Says(saved, "status", {"ready", "ready_with_caveats"})
                       \/ world.live = "none"
                       \/ "blocked" \in {world.issues, world.focus}
                       \/ Says(saved, "reproduction", {"mixed"})
                       \/ Says(saved, "attempts", {"failed"})
  BY DEF TwoRefreshesCure
<1>1. AtRest(TRUE) /\ TypeOK
  BY DEF IInv, AtRest
<1>2. Cured
  BY <1>1 DEF Cured
<1>3. ~Says(saved, "release", {"blocked"})
  BY <1>1, <1>2, CuredSays DEF Says
<1>4. QED
  BY <1>1, <1>2, <1>3, CuredIsReady

\* On any machine where every check passes, two undisturbed refreshes with
\* docker smoke and quality gate included lift the release blockers, and the
\* project is ready as far as live runs, public issues and what was executed
\* for them allow, unless such evidence, which no refresh renews, is more than
\* a day old (_project_status_freshness_check, project_overall_status).
THEOREM RefreshesCure == Spec => []TwoRefreshesCure
BY Invariance, CureMeans, PTL
=============================================================================
