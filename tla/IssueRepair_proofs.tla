------------------------- MODULE IssueRepair_proofs -------------------------
(***************************************************************************)
(* What holds of IssueRepair for every corpus, every choice of batches and *)
(* every cap.  The chain from a launched repair back to a reproduced issue *)
(* passes through artifacts of any age, so the invariant ties each of them *)
(* to the history of what was reproduced, and not to the artifact before.  *)
(***************************************************************************)
EXTENDS IssueRepair, FiniteSetTheorems, TLAPS

\* A reproduced row is in an executed result, and in the history.
ReproIsReal ==
    repro # NoFile => \A t \in Tasks :
        repro.rows[t].status = "reproduced" =>
            ~repro.dry /\ <<t, repro.rows[t].criteria>> \in proven

\* A readiness row that has seen a reproduction offers the command it saw fail.
ReadyIsReal ==
    ready # NoFile => \A t \in Tasks :
        ready[t].reproduced => <<t, ready[t].command>> \in proven

\* What a refresh has just left.
Refreshed ==
    settled # NoFile =>
        /\ settled \in BOOLEAN
        /\ plan = specs
        /\ KeepsReproductions \/ (repro = DryReproductions /\ told.repro = repro)
        /\ ready = Readiness(repro)
        /\ \/ KeepsAttempts
           \/ /\ told.batch = batch
              /\ \E f \in BatchRows(ready, Refreshing, settled) :
                    batch = Outputs(ready, Refreshing, f)

IInv == TypeOK /\ ReproIsReal /\ ReadyIsReal /\ LaunchIsProven /\ Refreshed

-----------------------------------------------------------------------------
(* Facts about the operators *)

\* The rows of a reproduction are reproduced only where executing them gave it,
\* with the criteria of the plan.
LEMMA ReproRowsType ==
    ASSUME NEW tasks, NEW planned \in Specs, NEW dry \in BOOLEAN, NEW outcome,
           ~dry => outcome \in [Tasks -> Executed]
    PROVE  /\ ReproRows(tasks, planned, dry, outcome) \in [Tasks -> ReproRow]
           /\ \A t \in Tasks :
                 /\ ReproRows(tasks, planned, dry, outcome)[t].criteria = planned[t]
                 /\ ReproRows(tasks, planned, dry, outcome)[t].status = "reproduced" =>
                       ~dry /\ planned[t] \in Criteria
<1> DEFINE status(t) == CASE t \notin tasks -> "absent"
                          [] t \in tasks /\ planned[t] = NoSpec -> "blocked"
                          [] OTHER -> IF dry THEN "dry_run" ELSE outcome[t]
           row(t) == [status |-> status(t), criteria |-> planned[t]]
<1>1. ASSUME NEW t \in Tasks
      PROVE  /\ status(t) \in Executed \cup {"absent", "blocked", "dry_run"}
             /\ status(t) = "reproduced" => ~dry /\ planned[t] # NoSpec
  <2>1. CASE t \notin tasks
    BY <2>1
  <2>2. CASE t \in tasks /\ planned[t] = NoSpec
    BY <2>2
  <2>3. CASE t \in tasks /\ planned[t] # NoSpec
    <3>1. status(t) = IF dry THEN "dry_run" ELSE outcome[t]
      BY <2>3
    <3> QED BY <2>3, <3>1
  <2> QED BY <2>1, <2>2, <2>3
<1>2. ReproRows(tasks, planned, dry, outcome) = [t \in Tasks |-> row(t)]
  BY DEF ReproRows
<1>3. \A t \in Tasks : planned[t] \in Criteria \cup {NoSpec}
  BY DEF Specs
<1> HIDE DEF status
<1>4. \A t \in Tasks : row(t) \in ReproRow
  BY <1>1, <1>3 DEF ReproRow
<1>5. \A t \in Tasks : /\ row(t).criteria = planned[t]
                      /\ row(t).status = status(t)
  OBVIOUS
<1> HIDE DEF row
<1> QED BY <1>1, <1>2, <1>3, <1>4, <1>5

\* A dry run reproduces nothing.
LEMMA DryRowsType ==
    ASSUME NEW tasks, NEW planned \in Specs, NEW outcome
    PROVE  /\ ReproRows(tasks, planned, TRUE, outcome) \in [Tasks -> ReproRow]
           /\ \A t \in Tasks : ReproRows(tasks, planned, TRUE, outcome)[t].status # "reproduced"
<1> DEFINE status(t) == CASE t \notin tasks -> "absent"
                          [] t \in tasks /\ planned[t] = NoSpec -> "blocked"
                          [] OTHER -> "dry_run"
           row(t) == [status |-> status(t), criteria |-> planned[t]]
<1>1. \A t \in Tasks : status(t) \in {"absent", "blocked", "dry_run"}
  OBVIOUS
<1>2. ReproRows(tasks, planned, TRUE, outcome) = [t \in Tasks |-> row(t)]
  BY DEF ReproRows
<1>3. \A t \in Tasks : planned[t] \in Criteria \cup {NoSpec}
  BY DEF Specs
<1> HIDE DEF status
<1>4. \A t \in Tasks : row(t) \in ReproRow /\ row(t).status # "reproduced"
  BY <1>1, <1>3 DEF ReproRow
<1> HIDE DEF row
<1> QED BY <1>2, <1>4

\* A readiness row's command and its reproduction go together.
LEMMA ReadyRowType ==
    ASSUME NEW verdict \in Setups, NEW row
    PROVE  /\ ReadyRow(verdict, row).status \in Setups
           /\ ReadyRow(verdict, row).status = "clean" => row.status = "reproduced"
           /\ ReadyRow(verdict, row).reproduced <=> row.status = "reproduced"
           /\ row.status = "reproduced" => ReadyRow(verdict, row).command = row.criteria
BY DEF ReadyRow, ValidationCommand, Setups

LEMMA ReadinessType ==
    ASSUME setup \in [Tasks -> Setups], NEW results
    PROVE  \A t \in Tasks :
              /\ Readiness(results)[t].status \in Setups
              /\ Readiness(results)[t].status = "clean" => Readiness(results)[t].reproduced
              /\ Readiness(results)[t].reproduced =>
                    /\ results # NoFile
                    /\ results.rows[t].status = "reproduced"
                    /\ Readiness(results)[t].command = results.rows[t].criteria
<1> SUFFICES ASSUME NEW t \in Tasks
             PROVE  /\ Readiness(results)[t].status \in Setups
                    /\ Readiness(results)[t].status = "clean" => Readiness(results)[t].reproduced
                    /\ Readiness(results)[t].reproduced =>
                          /\ results # NoFile
                          /\ results.rows[t].status = "reproduced"
                          /\ Readiness(results)[t].command = results.rows[t].criteria
  OBVIOUS
<1> DEFINE row == IF results = NoFile THEN [status |-> "absent", criteria |-> NoSpec]
                  ELSE results.rows[t]
<1>1. Readiness(results)[t] = ReadyRow(setup[t], row)
  BY DEF Readiness
<1>2. row.status = "reproduced" => results # NoFile /\ row = results.rows[t]
  OBVIOUS
<1> HIDE DEF row
<1>3. setup[t] \in Setups
  OBVIOUS
<1> QED BY <1>1, <1>2, <1>3, ReadyRowType

\* What the rows of a batch are, task by task.
LEMMA BatchRowsOf ==
    ASSUME NEW rows, NEW b, NEW passed, NEW f \in BatchRows(rows, b, passed)
    PROVE  /\ f = [t \in Tasks |-> f[t]]
           /\ \A t \in Tasks : f[t] \in IF t \in b.tasks THEN Attempts(rows[t], b, passed)
                                        ELSE {<<>>}
BY DEF BatchRows

\* An attempt that ran was let through by the readiness row.
LEMMA AttemptsType ==
    ASSUME NEW row, NEW b, NEW passed \in BOOLEAN, NEW a \in Attempts(row, b, passed),
           NEW i \in DOMAIN a
    PROVE  /\ a[i] \in Every
           /\ a[i] \in Attempted => row.reproduced
<1> USE DEF Every, Attempted
<1>1. CASE row.status = "absent"
  BY <1>1 DEF Attempts
<1>2. CASE row.status # "absent" /\ (~passed \/ AttemptBlocked(row, b.accept))
  <2>1. a = [j \in 1..b.repeats |-> "blocked"]
    BY <1>2 DEF Attempts, AllAlike
  <2> QED BY <2>1
<1>3. CASE row.status # "absent" /\ ~(~passed \/ AttemptBlocked(row, b.accept))
  <2>1. a \in IF b.dry THEN AllAlike("dry_run", b.repeats) ELSE Launched(b)
    BY <1>3 DEF Attempts
  <2>2. row.reproduced
    BY <1>3 DEF AttemptBlocked
  <2>3. CASE b.dry
    BY <2>1, <2>3 DEF AllAlike
  <2>4. CASE ~b.dry
    <3>1. PICK n \in 1..b.repeats : a \in [1..n -> Outcomes(b)]
      BY <2>1, <2>4 DEF Launched
    <3>2. Outcomes(b) \subseteq {"validated", "failed"}
      BY DEF Outcomes
    <3> QED BY <3>1, <3>2, <2>2
  <2> QED BY <2>3, <2>4
<1> QED BY <1>1, <1>2, <1>3

\* The statuses a batch saves.
LEMMA BatchType ==
    ASSUME NEW rows, NEW b, NEW passed \in BOOLEAN,
           NEW f \in BatchRows(rows, b, passed), NEW t \in Tasks, NEW i \in DOMAIN f[t]
    PROVE  /\ f[t][i] \in Every
           /\ f[t][i] \in Attempted => rows[t].reproduced
<1>1. CASE t \in b.tasks
  <2>1. f[t] \in Attempts(rows[t], b, passed)
    BY <1>1, BatchRowsOf
  <2> QED BY <2>1, AttemptsType
<1>2. CASE t \notin b.tasks
  BY <1>2, BatchRowsOf
<1> QED BY <1>1, <1>2

\* A batch that runs nothing can only turn out one way.
LEMMA DryBatchIsUnique ==
    ASSUME NEW rows, NEW b, b.dry, NEW passed \in BOOLEAN,
           NEW f \in BatchRows(rows, b, passed), NEW g \in BatchRows(rows, b, passed)
    PROVE  f = g
<1>1. ASSUME NEW t \in Tasks PROVE f[t] = g[t]
  <2>1. CASE t \notin b.tasks
    BY <2>1, BatchRowsOf
  <2>2. CASE t \in b.tasks
    <3>1. f[t] \in Attempts(rows[t], b, passed) /\ g[t] \in Attempts(rows[t], b, passed)
      BY <2>2, BatchRowsOf
    <3>2. \E a : Attempts(rows[t], b, passed) \subseteq {a}
      <4>1. CASE rows[t].status = "absent"
        BY <4>1 DEF Attempts
      <4>2. CASE rows[t].status # "absent" /\ (~passed \/ AttemptBlocked(rows[t], b.accept))
        BY <4>2 DEF Attempts, AllAlike
      <4>3. CASE rows[t].status # "absent" /\ ~(~passed \/ AttemptBlocked(rows[t], b.accept))
        BY <4>3 DEF Attempts, AllAlike
      <4> QED BY <4>1, <4>2, <4>3
    <3> QED BY <3>1, <3>2
  <2> QED BY <2>1, <2>2
<1>2. f = [t \in Tasks |-> f[t]] /\ g = [t \in Tasks |-> g[t]]
  BY BatchRowsOf
<1> QED BY <1>1, <1>2, Zenon

-----------------------------------------------------------------------------
(* The invariant is inductive *)

\* The parts of TypeOK that speak of one artifact.
ReproType == repro = NoFile \/ repro \in ReproResults

ReadyType == ready = NoFile \/ \A t \in Tasks :
    /\ ready[t].status \in Setups
    /\ ready[t].status = "clean" => ready[t].reproduced

BatchTyped == batch = NoFile \/
    \A t \in Tasks : \A i \in DOMAIN batch.rows[t] : batch.rows[t][i] \in Every

ToldType == told = [repro |-> told.repro, batch |-> told.batch]

LEMMA TypeParts ==
    TypeOK <=> /\ specs \in Specs /\ proven \subseteq Tasks \X Criteria
               /\ setup \in [Tasks -> Setups]
               /\ plan = NoFile \/ plan \in Specs
               /\ ReproType /\ ReadyType /\ BatchTyped /\ ToldType
               /\ launched \subseteq Tasks \X Commands
               /\ edits \in 0..MaxEdits
BY DEF TypeOK, ReproType, ReadyType, BatchTyped, ToldType

LEMMA InitEstablishes == Init => IInv
<1> SUFFICES ASSUME Init PROVE IInv
  OBVIOUS
<1> USE IssueAssumption DEF Init
<1>1. specs \in Specs /\ setup \in [Tasks -> Setups]
  BY DEF Specs, Setups
<1>2. TypeOK
  BY <1>1, TypeParts DEF ReproType, ReadyType, BatchTyped, ToldType
<1>3. ReproIsReal /\ ReadyIsReal /\ LaunchIsProven /\ Refreshed
  BY DEF ReproIsReal, ReadyIsReal, LaunchIsProven, Refreshed
<1> QED BY <1>2, <1>3 DEF IInv

\* What a stage that does not touch an artifact keeps.
LEMMA Kept ==
    ASSUME IInv, proven \subseteq proven'
    PROVE  /\ UNCHANGED repro => ReproType' /\ ReproIsReal'
           /\ UNCHANGED ready => ReadyType' /\ ReadyIsReal'
           /\ UNCHANGED batch => BatchTyped'
           /\ UNCHANGED told => ToldType'
           /\ UNCHANGED launched => LaunchIsProven'
           /\ settled' = NoFile => Refreshed'
<1> USE TypeParts DEF IInv
<1>1. UNCHANGED repro => ReproType' /\ ReproIsReal'
  BY DEF ReproType, ReproIsReal
<1>2. UNCHANGED ready => ReadyType' /\ ReadyIsReal'
  BY DEF ReadyType, ReadyIsReal
<1>3. UNCHANGED batch => BatchTyped'
  BY DEF BatchTyped
<1>4. UNCHANGED told => ToldType'
  BY DEF ToldType
<1>5. UNCHANGED launched => LaunchIsProven'
  BY DEF LaunchIsProven
<1>6. settled' = NoFile => Refreshed'
  BY DEF Refreshed
<1> QED BY <1>1, <1>2, <1>3, <1>4, <1>5, <1>6

\* A killed stage counts against the bound, and the others leave it alone.
LEMMA EditsBound ==
    ASSUME IInv, (edits < MaxEdits /\ edits' = edits + 1) \/ UNCHANGED edits
    PROVE  edits' \in 0..MaxEdits
BY IssueAssumption, TypeParts DEF IInv

LEMMA EditOrPlan ==
    ASSUME IInv, Edit \/ PlanReproductions
    PROVE  IInv'
<1> USE TypeParts DEF IInv
<1>1. /\ UNCHANGED <<repro, ready, batch, told, proven, launched>>
      /\ settled' = NoFile
  BY DEF Edit, PlanReproductions
<1>2. specs' \in Specs /\ setup' \in [Tasks -> Setups]
  BY DEF Edit, PlanReproductions, Specs
<1>3. edits' \in 0..MaxEdits
  BY EditsBound DEF Edit, PlanReproductions
<1>4. plan' = NoFile \/ plan' \in Specs
  BY DEF Edit, PlanReproductions, SavePlan, Specs, NoSpecs
<1>5. ReproType' /\ ReproIsReal' /\ ReadyType' /\ ReadyIsReal' /\ BatchTyped' /\ ToldType'
         /\ LaunchIsProven' /\ Refreshed'
  BY <1>1, Kept
<1>6. TypeOK'
  BY <1>1, <1>2, <1>3, <1>4, <1>5 DEF TypeOK, ReproType, ReadyType, BatchTyped, ToldType
<1> QED BY <1>5, <1>6

LEMMA ReproductionStep ==
    ASSUME IInv, NEW tasks \in Prefixes, NEW dry \in BOOLEAN,
           NEW outcome \in [Tasks -> Executed], ExecuteReproductions(tasks, dry, outcome)
    PROVE  IInv'
<1> USE TypeParts DEF IInv
<1> DEFINE rows == ReproRows(tasks, plan, dry, outcome)
<1>1. /\ UNCHANGED <<specs, setup, plan, ready, batch, launched>>
      /\ settled' = NoFile
      /\ repro' = [dry |-> dry, rows |-> rows]
      /\ proven' = proven \cup
            {<<t, plan[t]>> : t \in {u \in Tasks : repro'.rows[u].status = "reproduced"}}
  BY DEF ExecuteReproductions, SaveReproductions
<1>2. /\ rows \in [Tasks -> ReproRow]
      /\ \A t \in Tasks : /\ rows[t].criteria = plan[t]
                          /\ rows[t].status = "reproduced" => ~dry /\ plan[t] \in Criteria
  <2> plan \in Specs
    BY DEF ExecuteReproductions
  <2> QED BY ReproRowsType
<1> HIDE DEF rows
<1>3. ReproType' /\ ReproIsReal'
  BY <1>1, <1>2 DEF ReproType, ReproResults, ReproIsReal
<1>4. ToldType' /\ edits' \in 0..MaxEdits
  BY EditsBound DEF ExecuteReproductions, SaveReproductions, Killed, ToldType
<1>5. ReadyType' /\ ReadyIsReal' /\ BatchTyped' /\ LaunchIsProven' /\ Refreshed'
  BY <1>1, Kept
<1>6. proven' \subseteq Tasks \X Criteria
  BY <1>1, <1>2
<1>7. TypeOK'
  BY <1>1, <1>3, <1>4, <1>5, <1>6 DEF TypeOK, ReproType, ReadyType, BatchTyped, ToldType
<1> QED BY <1>3, <1>5, <1>7

LEMMA ReadinessStep ==
    ASSUME IInv, CheckReadiness
    PROVE  IInv'
<1> USE TypeParts DEF IInv
<1>1. /\ UNCHANGED <<specs, setup, plan, repro, batch, told, proven, launched, edits>>
      /\ settled' = NoFile
      /\ ready' = Readiness(repro)
  BY DEF CheckReadiness, SaveReadiness
<1>2. ReadyType' /\ ReadyIsReal'
  BY <1>1, ReadinessType DEF ReadyType, ReadyIsReal, ReproIsReal
<1>3. ReproType' /\ ReproIsReal' /\ BatchTyped' /\ ToldType' /\ LaunchIsProven' /\ Refreshed'
  BY <1>1, Kept
<1>4. TypeOK'
  BY <1>1, <1>2, <1>3 DEF TypeOK, ReproType, ReadyType, BatchTyped, ToldType
<1> QED BY <1>2, <1>3, <1>4

LEMMA RepairsStep ==
    ASSUME IInv, NEW b \in Batches, NEW docker \in BOOLEAN, NEW model \in BOOLEAN,
           ExecuteRepairs(b, docker, model)
    PROVE  IInv'
<1> USE TypeParts DEF IInv
<1> DEFINE passed == Preflight(ready, b, docker, model)
<1>1. PICK f \in BatchRows(ready, b, passed) :
         /\ SaveAttempts(Outputs(ready, b, f))
         /\ launched' = launched \cup
               {<<t, ready[t].command>> : t \in {u \in Tasks : \E i \in DOMAIN f[u] :
                                                      f[u][i] \in Attempted}}
  BY DEF ExecuteRepairs
<1>2. /\ UNCHANGED <<specs, setup, plan, repro, ready, proven>>
      /\ settled' = NoFile /\ ready # NoFile
  BY DEF ExecuteRepairs
<1>3. \A t \in Tasks : \A i \in DOMAIN f[t] :
         f[t][i] \in Every /\ (f[t][i] \in Attempted => ready[t].reproduced)
  <2> passed \in BOOLEAN
    BY DEF Preflight, SandboxPasses
  <2> HIDE DEF passed
  <2> QED BY BatchType
<1>4. BatchTyped'
  BY <1>1, <1>3 DEF BatchTyped, Outputs, SaveAttempts
<1>5. ToldType' /\ edits' \in 0..MaxEdits
  BY <1>1, EditsBound DEF SaveAttempts, Killed, ToldType
<1>6. LaunchIsProven'
  <2>1. \A t \in Tasks : (\E i \in DOMAIN f[t] : f[t][i] \in Attempted) =>
           <<t, ready[t].command>> \in proven
    BY <1>2, <1>3 DEF ReadyIsReal
  <2> QED BY <1>1, <1>2, <2>1 DEF LaunchIsProven
<1>7. ReproType' /\ ReproIsReal' /\ ReadyType' /\ ReadyIsReal' /\ Refreshed'
  BY <1>2, Kept
<1>8. launched' \subseteq Tasks \X Commands
  BY <1>2, <1>6 DEF LaunchIsProven, Commands
<1>9. TypeOK'
  BY <1>2, <1>4, <1>5, <1>7, <1>8 DEF TypeOK, ReproType, ReadyType, BatchTyped, ToldType
<1> QED BY <1>6, <1>7, <1>9

LEMMA RefreshStep ==
    ASSUME IInv, NEW docker \in BOOLEAN, Refresh(docker)
    PROVE  IInv'
<1> USE TypeParts DEF IInv
<1>1. /\ UNCHANGED <<specs, setup, proven, launched, edits>>
      /\ plan' = specs /\ settled' = docker
      /\ ready' = Readiness(repro')
  BY DEF Refresh, SavePlan, SaveReadiness
<1>2. repro' = IF KeepsReproductions THEN repro ELSE DryReproductions
  BY DEF Refresh
<1>3. ReproType' /\ ReproIsReal'
  <2>1. CASE KeepsReproductions
    BY <1>1, <1>2, <2>1, Kept
  <2>2. CASE ~KeepsReproductions
    <3> DEFINE rows == ReproRows(Tasks, specs, TRUE, NoSpecs)
    <3>1. /\ rows \in [Tasks -> ReproRow]
          /\ \A t \in Tasks : rows[t].status # "reproduced"
      BY DryRowsType
    <3>2. repro' = [dry |-> TRUE, rows |-> rows]
      BY <1>2, <2>2 DEF DryReproductions
    <3> HIDE DEF rows
    <3> QED BY <3>1, <3>2 DEF ReproType, ReproResults, ReproIsReal
  <2> QED BY <2>1, <2>2
<1>4. ReadyType' /\ ReadyIsReal'
  BY <1>1, <1>3, ReadinessType DEF ReadyType, ReadyIsReal, ReproIsReal
<1>5. \/ KeepsAttempts /\ UNCHANGED batch
      \/ /\ ~KeepsAttempts
         /\ \E f \in BatchRows(ready', Refreshing, docker) : batch' = Outputs(ready', Refreshing, f)
  BY DEF Refresh, AttemptInputs, SandboxPasses
<1>6. told' = [repro |-> IF KeepsReproductions THEN told.repro ELSE repro',
               batch |-> IF KeepsAttempts THEN told.batch ELSE batch']
  BY DEF Refresh
<1>7. BatchTyped' /\ ToldType'
  <2>1. CASE UNCHANGED batch
    BY <1>1, <1>6, <2>1, Kept DEF ToldType
  <2>2. ASSUME NEW f \in BatchRows(ready', Refreshing, docker),
               batch' = Outputs(ready', Refreshing, f)
        PROVE  BatchTyped' /\ ToldType'
    BY <1>6, <2>2, BatchType DEF BatchTyped, ToldType, Outputs
  <2> QED BY <1>5, <2>1, <2>2
<1>8. LaunchIsProven'
  BY <1>1, Kept
<1>9. Refreshed'
  <2>1. KeepsReproductions' \/ (repro' = DryReproductions' /\ told.repro' = repro')
    BY <1>1, <1>2, <1>6 DEF KeepsReproductions, DryReproductions
  <2>2. \/ KeepsAttempts'
        \/ /\ told.batch' = batch'
           /\ \E f \in BatchRows(ready', Refreshing, docker) :
                 batch' = Outputs(ready', Refreshing, f)
    BY <1>5, <1>6 DEF KeepsAttempts
  <2>3. Readiness(repro)' = Readiness(repro')
    BY <1>1 DEF Readiness
  <2>4. settled' \in BOOLEAN
    BY <1>1
  <2> QED BY <1>1, <2>1, <2>2, <2>3, <2>4 DEF Refreshed
<1>10. TypeOK'
  BY <1>1, <1>3, <1>4, <1>7 DEF TypeOK, ReproType, ReadyType, BatchTyped, ToldType
<1> QED BY <1>3, <1>4, <1>8, <1>9, <1>10

LEMMA Stutter ==
    ASSUME IInv, UNCHANGED vars
    PROVE  IInv'
<1> USE TypeParts DEF IInv, vars
<1>1. TypeOK'
  BY DEF TypeOK
<1>2. ReproIsReal' /\ ReadyIsReal' /\ LaunchIsProven'
  BY Kept
<1>3. Refreshed'
  <2>1. KeepsReproductions' = KeepsReproductions /\ KeepsAttempts' = KeepsAttempts
    BY DEF KeepsReproductions, KeepsAttempts
  <2>2. DryReproductions' = DryReproductions
    BY DEF DryReproductions
  <2>3. Readiness(repro)' = Readiness(repro)
    BY DEF Readiness
  <2> QED BY <2>1, <2>2, <2>3 DEF Refreshed
<1> QED BY <1>1, <1>2, <1>3

LEMMA StepKeeps == IInv /\ [Next]_vars => IInv'
BY EditOrPlan, ReproductionStep, ReadinessStep, RepairsStep, RefreshStep, Stutter
   DEF Next, RunReproductions, RunRepairs, RefreshEvidence

\* A reproduced row is enough for a refresh to keep the results it is in, when
\* the summary is theirs.
LEMMA RefreshKeeps ==
    ASSUME IInv, NEW docker \in BOOLEAN, Refresh(docker), told.repro = repro,
           NEW t \in Tasks, Reproduced(t)
    PROVE  Reproduced(t)'
<1>1. KeepsReproductions
  BY DEF IInv, ReproIsReal, KeepsReproductions, Reproduced, Executed
<1>2. repro' = repro
  BY <1>1 DEF Refresh
<1> QED BY <1>2 DEF Reproduced

\* A refresh finds what the one before it left.
LEMMA SecondRefresh ==
    ASSUME IInv, settled # NoFile, Refresh(settled), settled \in BOOLEAN
    PROVE  UNCHANGED <<plan, repro, ready, batch, told>>
<1>1. /\ plan = specs
      /\ KeepsReproductions \/ (repro = DryReproductions /\ told.repro = repro)
      /\ ready = Readiness(repro)
      /\ \/ KeepsAttempts
         \/ /\ told.batch = batch
            /\ \E f \in BatchRows(ready, Refreshing, settled) : batch = Outputs(ready, Refreshing, f)
  BY DEF IInv, Refreshed
<1>2. plan' = plan /\ repro' = repro
  BY <1>1 DEF Refresh, SavePlan
<1>3. ready' = ready
  BY <1>1, <1>2 DEF Refresh, SaveReadiness
<1>4. batch' = batch
  <2>1. CASE KeepsAttempts
    BY <2>1 DEF Refresh
  <2>2. CASE ~KeepsAttempts
    <3>1. PICK f \in BatchRows(ready, Refreshing, settled) : batch = Outputs(ready, Refreshing, f)
      BY <1>1, <2>2
    <3>2. PICK g \in BatchRows(ready', Refreshing, settled) : batch' = Outputs(ready', Refreshing, g)
      BY <2>2 DEF Refresh, AttemptInputs, SandboxPasses
    <3>3. f = g
      <4> Refreshing.dry
        BY DEF Refreshing
      <4> QED BY <1>3, <3>1, <3>2, DryBatchIsUnique
    <3> QED BY <1>3, <3>1, <3>2, <3>3
  <2> QED BY <2>1, <2>2
<1>5. told' = told
  <2>1. told' = [repro |-> IF KeepsReproductions THEN told.repro ELSE repro',
                 batch |-> IF KeepsAttempts THEN told.batch ELSE batch']
    BY DEF Refresh
  <2>2. told' = [repro |-> told.repro, batch |-> told.batch]
    BY <1>1, <1>2, <1>4, <2>1
  <2> QED BY <2>2 DEF IInv, TypeOK
<1> QED BY <1>2, <1>3, <1>4, <1>5

-----------------------------------------------------------------------------
(* The cost of a batch *)

\* What a batch has run is a part of what it projected: no row of a task that is
\* not selected or has no readiness, and no more of a task than its repeats.
LEMMA AttemptedAreProjected ==
    ASSUME NEW rows, NEW b \in BatchOptions, NEW passed \in BOOLEAN,
           NEW f \in BatchRows(rows, b, passed), NEW t \in Tasks, NEW i \in DOMAIN f[t],
           f[t][i] \in Attempted
    PROVE  /\ t \in b.tasks /\ rows[t].status # "absent"
           /\ i \in 1..b.repeats
           /\ passed /\ ~b.dry
<1> USE DEF Attempted
<1>1. t \in b.tasks
  BY BatchRowsOf
<1>2. f[t] \in Attempts(rows[t], b, passed)
  BY <1>1, BatchRowsOf
<1>3. CASE rows[t].status = "absent"
  BY <1>2, <1>3 DEF Attempts
<1>4. CASE rows[t].status # "absent" /\ (~passed \/ AttemptBlocked(rows[t], b.accept))
  <2>1. f[t] = [j \in 1..b.repeats |-> "blocked"]
    BY <1>2, <1>4 DEF Attempts, AllAlike
  <2> QED BY <2>1
<1>5. CASE rows[t].status # "absent" /\ ~(~passed \/ AttemptBlocked(rows[t], b.accept))
  <2>1. f[t] \in IF b.dry THEN AllAlike("dry_run", b.repeats) ELSE Launched(b)
    BY <1>2, <1>5 DEF Attempts
  <2>2. CASE b.dry
    BY <2>1, <2>2 DEF AllAlike
  <2>3. CASE ~b.dry
    <3>1. PICK n \in 1..b.repeats : f[t] \in [1..n -> Outcomes(b)]
      BY <2>1, <2>3 DEF Launched
    <3>2. i \in 1..n /\ b.repeats \in Nat
      BY <3>1 DEF BatchOptions
    <3>3. i \in 1..b.repeats
      BY <3>1, <3>2
    <3> QED BY <1>1, <1>5, <2>3, <3>3
  <2> QED BY <2>2, <2>3
<1> QED BY <1>3, <1>4, <1>5

LEMMA FewerTimes ==
    ASSUME NEW m \in Nat, NEW n \in Nat, NEW k \in Nat, m <= n
    PROVE  m * k <= n * k
OBVIOUS

\* A batch that a cap let through runs at most what was projected for it.
LEMMA BillIsProjected ==
    ASSUME NEW rows, NEW b \in BatchOptions, b.capped,
           NEW docker \in BOOLEAN, NEW model \in BOOLEAN,
           NEW f \in BatchRows(rows, b, Preflight(rows, b, docker, model))
    PROVE  Number(f, Attempted) * (b.retries + 1) <= Cap
<1> DEFINE passed == Preflight(rows, b, docker, model)
           ran == UNION {{t} \X {i \in DOMAIN f[t] : f[t][i] \in Attempted} : t \in Tasks}
           selected == {t \in b.tasks : rows[t].status # "absent"}
<1>1. Number(f, Attempted) = Cardinality(ran)
  BY DEF Number
<1>2. b.repeats \in Nat /\ b.retries \in Nat /\ b.tasks \subseteq Tasks
  BY DEF BatchOptions
<1>3. passed \in BOOLEAN
  BY DEF Preflight, SandboxPasses
<1>4. ASSUME NEW a \in ran
      PROVE  /\ a \in selected \X (1..b.repeats)
             /\ passed /\ ~b.dry
  <2>1. PICK t \in Tasks : a \in {t} \X {i \in DOMAIN f[t] : f[t][i] \in Attempted}
    OBVIOUS
  <2>2. PICK i \in DOMAIN f[t] : f[t][i] \in Attempted /\ a = <<t, i>>
    BY <2>1
  <2>3. /\ t \in b.tasks /\ rows[t].status # "absent"
        /\ i \in 1..b.repeats
        /\ passed /\ ~b.dry
    <3> HIDE DEF passed
    <3> QED BY <1>3, <2>2, AttemptedAreProjected DEF passed
  <2> QED BY <2>2, <2>3
<1>5. CASE ran = {}
  <2>1. Number(f, Attempted) = 0
    BY <1>1, <1>5, FS_EmptySet
  <2> QED BY <1>2, <2>1, IssueAssumption
<1>6. CASE ran # {}
  <2>1. passed /\ ~b.dry
    BY <1>4, <1>6
  <2>2. ProjectedAttempts(Cardinality(selected), b) <= Cap
    BY <2>1 DEF Preflight, WithinBudget
  <2>3. IsFiniteSet(selected) /\ Cardinality(selected) \in Nat
    BY <1>2, IssueAssumption, FS_Subset, FS_CardinalityType
  <2>4. IsFiniteSet(1..b.repeats) /\ Cardinality(1..b.repeats) = b.repeats
    <3> DEFINE r == b.repeats
    <3>1. r \in Nat /\ 1 \in Int /\ r \in Int
      BY <1>2
    <3>2. IsFiniteSet(1..r) /\ Cardinality(1..r) = IF 1 > r THEN 0 ELSE r - 1 + 1
      <4> HIDE DEF r
      <4> QED BY <3>1, FS_Interval
    <3> HIDE DEF r
    <3>3. Cardinality(1..r) = r
      BY <3>1, <3>2
    <3> QED BY <3>2, <3>3 DEF r
  <2>5. /\ IsFiniteSet(selected \X (1..b.repeats))
        /\ Cardinality(selected \X (1..b.repeats)) = Cardinality(selected) * b.repeats
    <3> DEFINE tries == 1..b.repeats
    <3> HIDE DEF selected, tries
    <3>1. IsFiniteSet(tries) /\ Cardinality(tries) = b.repeats
      BY <2>4 DEF tries
    <3>2. IsFiniteSet(selected \X tries)
          /\ Cardinality(selected \X tries) = Cardinality(selected) * Cardinality(tries)
      BY <2>3, <3>1, FS_Product
    <3>3. Cardinality(selected \X tries) = Cardinality(selected) * b.repeats
      BY <3>1, <3>2, Zenon
    <3> QED BY <3>2, <3>3 DEF tries
  <2>6. /\ Cardinality(ran) <= Cardinality(selected) * b.repeats
        /\ Cardinality(ran) \in Nat
    <3>1. ran \in SUBSET (selected \X (1..b.repeats))
      BY <1>4
    <3> HIDE DEF ran, selected
    <3> QED BY <2>5, <3>1, FS_Subset, FS_CardinalityType
  <2> DEFINE n == Cardinality(selected) * b.repeats
  <2>7. n \in Nat
    <3> HIDE DEF selected
    <3> QED BY <1>2, <2>3
  <2>8. n * (b.retries + 1) <= Cap
    BY <2>2 DEF ProjectedAttempts
  <2>9. Cardinality(ran) * (b.retries + 1) <= n * (b.retries + 1)
    <3> HIDE DEF n, ran
    <3> b.retries + 1 \in Nat
      BY <1>2
    <3> QED BY <2>6, <2>7, FewerTimes DEF n
  <2> HIDE DEF n, ran
  <2>10. Cardinality(ran) * (b.retries + 1) \in Nat /\ n * (b.retries + 1) \in Nat
    BY <1>2, <2>6, <2>7
  <2> QED BY <1>1, <2>8, <2>9, <2>10, IssueAssumption
<1> QED BY <1>5, <1>6

LEMMA BillStep ==
    ASSUME SpendWithinCap, [Next]_vars
    PROVE  SpendWithinCap'
<1> USE DEF SpendWithinCap
<1>1. CASE UNCHANGED bill
  BY <1>1
<1>2. ASSUME NEW b \in Batches, NEW docker \in BOOLEAN, NEW model \in BOOLEAN,
             ExecuteRepairs(b, docker, model)
      PROVE  bill' <= Cap
  <2>1. PICK f \in BatchRows(ready, b, Preflight(ready, b, docker, model)) :
           bill' = IF b.capped THEN Number(f, Attempted) * (b.retries + 1) ELSE 0
    BY <1>2 DEF ExecuteRepairs
  <2>2. b \in BatchOptions
    BY IssueAssumption
  <2>3. CASE b.capped
    BY <2>1, <2>2, <2>3, BillIsProjected
  <2>4. CASE ~b.capped
    BY <2>1, <2>4, IssueAssumption
  <2> QED BY <2>3, <2>4
<1>3. Next => UNCHANGED bill \/ RunRepairs
  BY DEF Next, Edit, PlanReproductions, RunReproductions, ExecuteReproductions, CheckReadiness,
         RefreshEvidence, Refresh
<1> QED BY <1>1, <1>2, <1>3 DEF RunRepairs, vars

-----------------------------------------------------------------------------
(* Theorems *)

LEMMA Invariant == Spec => []IInv
<1>1. Init => IInv
  BY InitEstablishes
<1>2. IInv /\ [Next]_vars => IInv'
  BY StepKeeps
<1> QED BY <1>1, <1>2, PTL DEF Spec

\* Every stage writes only rows of its kind, and calls a task clean only with a
\* reproduction, for any corpus and any batches.
THEOREM TypeCorrect == Spec => []TypeOK
<1>1. IInv => TypeOK
  BY DEF IInv
<1> QED BY <1>1, Invariant, PTL

\* No repair is launched but with a command an executed reproduction has seen
\* fail as expected (execute_public_issue_repair_record), for any corpus, and
\* whatever the ages of the artifacts between the two.
THEOREM LaunchesAreProven == Spec => []LaunchIsProven
<1>1. IInv => LaunchIsProven
  BY DEF IInv
<1> QED BY <1>1, Invariant, PTL

\* A refresh of the evidence loses no reproduction that the summary knows of
\* (_has_executed_public_reproduction_evidence).
THEOREM ReproductionsAreKept == Spec => RefreshKeepsReproductions
<1>1. IInv /\ [Next]_vars =>
        [RefreshEvidence /\ told.repro = repro =>
             \A t \in Tasks : Reproduced(t) => Reproduced(t)']_vars
  BY RefreshKeeps DEF RefreshEvidence
<1> QED BY <1>1, Invariant, PTL DEF Spec, RefreshKeepsReproductions

\* A second refresh changes nothing (public_issue_evidence_refresh_steps).
THEOREM RefreshesSettle == Spec => RefreshSettles
<1>1. IInv /\ settled # NoFile /\ Refresh(settled) => settled \in BOOLEAN
  BY DEF IInv, Refreshed
<1>2. IInv /\ [Next]_vars =>
        [settled # NoFile /\ Refresh(settled) => UNCHANGED <<plan, repro, ready, batch, told>>]_vars
  BY <1>1, SecondRefresh
<1> QED BY <1>2, Invariant, PTL DEF Spec, RefreshSettles

\* A batch never costs more than its cap, retries, repeats and blocked rows
\* included, when no call costs more than its estimate
\* (execute_public_issue_repairs compares the projection with the cap), for any
\* number of tasks and any options.
THEOREM BillsStayWithinCap == Spec => []SpendWithinCap
<1>1. Init => SpendWithinCap
  BY IssueAssumption DEF Init, SpendWithinCap
<1>2. SpendWithinCap /\ [Next]_vars => SpendWithinCap'
  BY BillStep
<1> QED BY <1>1, <1>2, PTL DEF Spec
=============================================================================
