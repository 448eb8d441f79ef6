----------------------------- MODULE IssueCorpus -----------------------------
(***************************************************************************)
(* How a corpus of public issues becomes tasks on disk, and reviewed specs *)
(* become reproduction commands (evaluation/issue_corpus): validate and    *)
(* preflight the corpus, preview (clone the repositories and retrieve),    *)
(* materialize the tasks, validate them and their readiness, plan focused  *)
(* tests, plan reproductions, review and validate specs, discover failure  *)
(* signals.  IssueSetup and IssueRepair start from what is made here.      *)
(*                                                                         *)
(* Each command reads the files that are there and rewrites its own.  The  *)
(* user edits the corpus and the specs and runs the commands in any order, *)
(* on all issues or the first few; repositories move on; clones fail, and  *)
(* a command may be killed before its results are written.                 *)
(***************************************************************************)
EXTENDS SequencesExt, Naturals

CONSTANTS Corpora,    \* bound: the corpora the user has
          MaxRevision, \* bound: revisions of a repository
          TestFile,   \* the test-like file that retrieval finds at a revision, or NoFile
          Retrieved,  \* the revisions at which retrieval finds any file
          Unruly,     \* test-like files with a fragment that the command policy refuses
          DirOf,      \* safe_artifact_name of every task id and every repository
          OwnSpecs,   \* bound: the specs that the user writes without the template
          MaxEvents,  \* bound: edits, moved repositories, kills and reviews
          NoFile,     \* nothing there
          Bare        \* a task directory without a manifest

Entries == UNION {ToSet(c) : c \in Corpora}
Ids == {e.id : e \in Entries}
Repositories == {e.repository : e \in Entries}
Urls == {e.url : e \in Entries}
Revisions == 1..MaxRevision
Dirs == {DirOf[n] : n \in Ids \cup Repositories}

\* sound: the fields of the entry are all there, and of the right form.
Entry == [id : Ids, repository : Repositories, url : Urls, sound : BOOLEAN]

\* What a reviewed spec says: a command, the policy may refuse, and failure signals.
ReviewedSpec == [command : {"given", "refused", "none"}, signals : BOOLEAN]

ASSUME CorpusAssumption ==
    /\ \A c \in Corpora : c \in Seq(Entry)
    /\ MaxRevision \in Nat \ {0}
    /\ Revisions \subseteq DOMAIN TestFile
    /\ \A r \in Revisions : TestFile[r] # NoFile => r \in Retrieved
    /\ Unruly \cap {NoFile, "suite", "given"} = {}
    /\ Ids \cup Repositories \subseteq DOMAIN DirOf
    /\ OwnSpecs \subseteq ReviewedSpec
    /\ MaxEvents \in Nat

VARIABLES corpus,   \* issues.json
          heads,    \* newest revision at every URL
          clones,   \* repositories/<dir>: URL and revision, 0 where a clone was cut short
          preview,  \* context_preview_results: a row per issue
          tasks,    \* materialized_tasks/<dir>: its manifest, or Bare without one
          made,     \* materialized_task_results, read by no command and kept while chain holds
          focused,  \* focused_test_plan_results: a row per directory of tasks
          specs,    \* the reviewed specs, by task id
          plan,     \* reproduction_plan_results, and the template written from it
          chain,    \* history: how far the commands have been run in order on this corpus
          sure,     \* history: directories with a ready spec, and those planned with it
          events    \* history: what MaxEvents bounds

vars == <<corpus, heads, clones, preview, tasks, made, focused, specs, plan,
          chain, sure, events>>

\* Each of these at most once in a behaviour.
Happens(what) ==
    /\ what \notin events /\ Cardinality(events) < MaxEvents
    /\ events' = events \cup {what}

\* The rows of the commands' results.
PreviewRow == [id : Ids, repository : Repositories, status : {"completed", "failed"},
               dir : Dirs, revision : Revisions \cup {0}]

Manifest == [id : Ids, repository : Repositories, url : Urls, dir : Dirs, revision : Revisions]

MadeRow == [id : Ids, dir : Dirs, status : {"materialized", "failed"}]

\* What a focused plan runs: a test file, or all there is.
Tests == {TestFile[r] : r \in Revisions} \cup {"suite"}

FocusedRow == [id : Ids \cup {NoFile}, status : {"planned", "fallback", "blocked"},
               command : Tests \cup {NoFile}]

PlanRow == [id : Ids \cup Dirs, status : {"planned", "warning", "blocked"}, dir : Dirs \cup {NoFile},
            source : {"spec", "focused", "repository", "missing"},
            command : Tests \cup {"given", "refused", "none"}, signals : BOOLEAN]

Clone == [url : Urls, revision : Revisions \cup {0}]

\* The markers for what is not there are nothing that could be.
ASSUME MarkerAssumption ==
    /\ NoFile \notin Dirs /\ NoFile \notin Clone
    /\ NoFile \notin Manifest /\ Bare \notin Manifest
    /\ NoFile \notin FocusedRow /\ NoFile # "suite"
    /\ \A D \in SUBSET Dirs : NoFile \notin [D -> FocusedRow]
    /\ \A r \in Revisions : TestFile[r] \notin {"refused", "none"}

-----------------------------------------------------------------------------
(* validate-issue-corpus and preflight-issue-corpus *)

\* _duplicate_issue_corpus_task_ids
Duplicates(c) == {c[i].id : i \in {j \in DOMAIN c : \E k \in DOMAIN c : k # j /\ c[k].id = c[j].id}}

EntryStatus(c, i) ==
    IF c[i].sound /\ c[i].id \notin Duplicates(c) THEN "valid" ELSE "invalid"

\* The commands that only write a report read by no other, like this one, are the
\* rows of their reports.
CorpusReport == [i \in DOMAIN corpus |-> EntryStatus(corpus, i)]

\* The URL that a repository is asked at is that of its last issue; whether it
\* answers is recorded, and no command goes by it.
PreflightUrl(r) == corpus[Max({i \in DOMAIN corpus : corpus[i].repository = r})].url

HostsReport == [r \in {e.repository : e \in ToSet(corpus)} |-> PreflightUrl(r)]

-----------------------------------------------------------------------------
(* preview-issue-corpus-context *)

\* How the preview of an issue may end: the clone fails and leaves nothing or,
\* cut short by its timeout, a part; indexing or retrieval fails; or all goes well.
Endings == {"gone", "cut", "failed", "completed"}

\* A repository is cloned once in a run, unless that failed.
CloneFails == {"gone", "cut"}

Clones(few, endings) ==
    {i \in DOMAIN few : \A j \in 1..(i - 1) :
        few[j].repository = few[i].repository => endings[j] \in CloneFails}

\* The clone that an issue is previewed in.
CloneOf(few, endings, i) ==
    CHOOSE k \in Clones(few, endings) :
        few[k].repository = few[i].repository /\ endings[k] \notin CloneFails

\* What is there is removed before a repository is cloned, into the directory of its name.
Cloned(few, endings) ==
    [d \in Dirs |->
        LET into == {i \in Clones(few, endings) : DirOf[few[i].repository] = d}
        IN  IF into = {} THEN clones[d]
            ELSE LET i == Max(into)
                 IN  IF endings[i] = "gone" THEN NoFile
                     ELSE [url |-> few[i].url,
                           revision |-> IF endings[i] = "cut" THEN 0 ELSE heads[few[i].url]]]

PreviewIssue(few, endings, i) ==
    [id |-> few[i].id, repository |-> few[i].repository, dir |-> DirOf[few[i].repository],
     status |-> IF endings[i] = "completed" THEN "completed" ELSE "failed",
     revision |-> IF endings[i] = "completed" THEN heads[few[CloneOf(few, endings, i)].url] ELSE 0]

\* --max-issues; a killed run has dealt with the first few.
FirstFew(c) == {SubSeq(c, 1, n) : n \in 1..Len(c)}

SavePreview(rows) == preview' = rows

PreviewContext ==
    \E few \in FirstFew(corpus) : \E endings \in [DOMAIN few -> Endings] :
        /\ clones' = Cloned(few, endings)
        /\ \/ /\ SavePreview([i \in DOMAIN few |-> PreviewIssue(few, endings, i)])
              /\ chain' = "previewed" /\ UNCHANGED events
           \/ Happens("kill") /\ chain' = "broken" /\ UNCHANGED preview
        /\ made' = NoFile
        /\ sure' = [d \in Dirs |-> "no"]
        /\ UNCHANGED <<corpus, heads, tasks, focused, specs, plan>>

-----------------------------------------------------------------------------
(* materialize-issue-corpus-tasks, validate-materialized-issue-tasks, *)
(* check-materialized-run-readiness                                   *)

\* previews_by_task: the last preview of a task id counts.
PreviewOf(id) ==
    LET rows == {i \in DOMAIN preview : preview[i].id = id}
    IN  IF rows = {} THEN NoFile ELSE preview[Max(rows)]

Materializes(id) == PreviewOf(id) # NoFile /\ PreviewOf(id).status = "completed"

\* Mutant: a task directory that is there is kept.
KeptManifest(old, entry) ==
    IF old \notin {NoFile, Bare} THEN old
    ELSE [id |-> entry.id, repository |-> entry.repository, url |-> entry.url,
          dir |-> PreviewOf(entry.id).dir, revision |-> PreviewOf(entry.id).revision]

\* issue_corpus_task_manifest: the issue is the entry's, the snapshot the preview's.
\* (issue.md and the runbook next to it repeat what it says.)
NewManifest(old, entry) ==
    [id |-> entry.id, repository |-> entry.repository, url |-> entry.url,
     dir |-> PreviewOf(entry.id).dir, revision |-> PreviewOf(entry.id).revision]

\* A directory is replaced only for a task with a completed preview.
Materialized(entries) ==
    [d \in Dirs |->
        LET for == {i \in DOMAIN entries : DirOf[entries[i].id] = d /\ Materializes(entries[i].id)}
        IN  IF for = {} THEN tasks[d] ELSE NewManifest(tasks[d], entries[Max(for)])]

MadeRows(entries) ==
    [i \in DOMAIN entries |->
        [id |-> entries[i].id, dir |-> DirOf[entries[i].id],
         status |-> IF Materializes(entries[i].id) THEN "materialized" ELSE "failed"]]

SaveMade(rows) == made' = rows

\* A killed run may leave the directory it was at without a manifest.
MaterializeTasks ==
    /\ preview # NoFile
    /\ \E few \in FirstFew(corpus) :
          \/ /\ tasks' = Materialized(few)
             /\ SaveMade(IF chain = "broken" THEN NoFile ELSE MadeRows(few))
             /\ chain' = IF chain = "broken" THEN chain ELSE "made"
             /\ UNCHANGED events
          \/ /\ Happens("kill")
             /\ Materializes(Last(few).id)
             /\ tasks' = [Materialized(Front(few)) EXCEPT ![DirOf[Last(few).id]] = Bare]
             /\ chain' = IF chain = "broken" THEN chain ELSE "previewed"
             /\ made' = NoFile
    /\ sure' = [d \in Dirs |-> "no"]
    /\ UNCHANGED <<corpus, heads, clones, preview, focused, specs, plan>>

TaskDirs == {d \in Dirs : tasks[d] # NoFile}

Whole(d) == tasks[d] \notin {NoFile, Bare}

\* The directory that a manifest names may hold anything.
CheckoutThere(d) == Whole(d) /\ clones[tasks[d].dir] # NoFile

\* validate_materialized_issue_task_dir: retrieval must have found files, though a
\* preview in which it found none is completed.
TaskStatus(d) ==
    IF CheckoutThere(d) /\ tasks[d].revision \in Retrieved THEN "valid" ELSE "invalid"

TasksReport == [d \in TaskDirs |-> TaskStatus(d)]

\* check_materialized_issue_task_run_readiness: ready stands for warning too, which
\* is what a large repository or a full test suite makes of it.
RunReadiness(d) == IF CheckoutThere(d) THEN "ready" ELSE "blocked"

ReadinessReport == [d \in TaskDirs |-> RunReadiness(d)]

-----------------------------------------------------------------------------
(* plan-materialized-focused-tests *)

\* The files of a checkout; one that was cut short may have none.
FileThere(d, file) == clones[d].revision # 0 /\ TestFile[clones[d].revision] = file

\* The commands that are refused: one that a review gives, none at all, and that of
\* a file in whose name the command policy finds a fragment that it blocks.  It
\* allows the suite, which every manifest has a command for.
Refused == {"refused", "none"} \cup Unruly

\* plan_materialized_issue_focused_test: what blocks a plan leaves it its command.
Focus(d) ==
    IF ~Whole(d) THEN [id |-> NoFile, status |-> "blocked", command |-> NoFile]
    ELSE LET file == TestFile[tasks[d].revision]
             command == IF file = NoFile THEN "suite" ELSE file
             blocked == \/ ~CheckoutThere(d) \/ command \in Refused
                        \/ file # NoFile /\ ~FileThere(tasks[d].dir, file)
         IN  [id |-> tasks[d].id, command |-> command,
              status |-> IF blocked THEN "blocked" ELSE IF file = NoFile THEN "fallback" ELSE "planned"]

\* Mutant: a task that has a focused test keeps it.
KeptFocus(d) == IF focused # NoFile /\ d \in DOMAIN focused THEN focused[d] ELSE Focus(d)

FocusRow(d) == Focus(d)

PlanFocusedTests ==
    /\ focused' = [d \in TaskDirs |-> FocusRow(d)]
    /\ chain' = IF chain \in {"made", "focused", "planned"} THEN "focused" ELSE chain
    /\ UNCHANGED <<corpus, heads, clones, preview, tasks, made, specs, plan, sure, events>>

-----------------------------------------------------------------------------
(* plan-public-issue-reproductions, the template and the reviewed specs *)

\* Records are looked up by the name of the task's directory.
FocusedOf(d) ==
    IF focused = NoFile THEN NoFile
    ELSE LET named == {f \in DOMAIN focused : focused[f].id = d}
         IN  IF named = {} THEN NoFile ELSE focused[CHOOSE f \in named : TRUE]

NoSpec == [command |-> "none", signals |-> FALSE]

SpecOf(given, d) == IF d \in DOMAIN given THEN given[d] ELSE NoSpec

\* The command of a reviewed spec goes before that of the focused plan.
Source(given, d) ==
    CASE SpecOf(given, d).command # "none" -> "spec"
      [] SpecOf(given, d).command = "none" /\ FocusedOf(d) # NoFile /\ FocusedOf(d).command # NoFile -> "focused"
      [] OTHER -> IF Whole(d) THEN "repository" ELSE "missing"

Command(given, d) ==
    CASE Source(given, d) = "spec"       -> SpecOf(given, d).command
      [] Source(given, d) = "focused"    -> FocusedOf(d).command
      [] Source(given, d) = "repository" -> "suite"
      [] Source(given, d) = "missing"    -> "none"

\* _plan_public_issue_reproduction_record
Reproduction(given, d) ==
    LET blocked == ~CheckoutThere(d) \/ Command(given, d) \in Refused
        doubtful == ~SpecOf(given, d).signals \/ Source(given, d) = "repository"
    IN  [id |-> IF Whole(d) THEN tasks[d].id ELSE d,
         dir |-> IF Whole(d) THEN tasks[d].dir ELSE NoFile,
         status |-> IF blocked THEN "blocked" ELSE IF doubtful THEN "warning" ELSE "planned",
         source |-> Source(given, d), command |-> Command(given, d),
         signals |-> SpecOf(given, d).signals]

None == [id \in {} |-> NoSpec]

SavePlan(rows) == plan' = rows

PlanReproductions ==
    /\ \E given \in {specs, None} :
          /\ SavePlan([d \in TaskDirs |-> Reproduction(given, d)])
          /\ sure' = [d \in Dirs |-> CASE sure[d] = "no" -> "no"
                                       [] OTHER -> IF given = specs THEN "planned" ELSE "ready"]
    /\ chain' = IF chain \in {"focused", "planned"} THEN "planned" ELSE chain
    /\ UNCHANGED <<corpus, heads, clones, preview, tasks, made, focused, specs, events>>

\* What a command of the plan is when it is given as a reviewed one.
Given(command) ==
    IF command = "none" THEN "none" ELSE IF command \in Refused THEN "refused" ELSE "given"

\* public_issue_reproduction_specs_template: the ids and commands of the plan.
Template == {[id |-> plan[d].id, command |-> Given(plan[d].command)] : d \in DOMAIN plan}

\* The user fills in the template, for all tasks or some, or writes a spec of
\* his own; the specs file may name tasks that are not there.
ReviewSpecs ==
    /\ Happens("review")
    /\ \/ /\ plan # NoFile
          /\ \E rows \in SUBSET Template :
                specs' = [id \in {row.id : row \in rows} |->
                             [command |-> (CHOOSE row \in rows : row.id = id).command, signals |-> TRUE]]
       \/ \E id \in Ids, spec \in OwnSpecs : specs' = [n \in DOMAIN specs \cup {id} |->
                                                       IF n = id THEN spec ELSE specs[n]]
    /\ specs' # specs
    /\ sure' = [d \in Dirs |-> "no"]
    /\ UNCHANGED <<corpus, heads, clones, preview, tasks, made, focused, plan, chain>>

\* Mutant: what blocks the plan is a warning in the validation.
LenientStatus(d) ==
    LET planned == Reproduction(specs, d)
    IN  IF d \notin DOMAIN specs \/ ~planned.signals THEN "blocked"
        ELSE IF planned.source # "spec" THEN "warning" ELSE "ready"

\* _validate_public_issue_reproduction_spec_record
SpecStatus(d) ==
    LET planned == Reproduction(specs, d)
    IN  CASE planned.status = "blocked" \/ d \notin DOMAIN specs \/ ~planned.signals -> "blocked"
          [] OTHER -> IF planned.status = "warning" \/ planned.source # "spec"
                      THEN "warning" ELSE "ready"

\* A spec whose task is not there is blocked, whatever it says.
SpecsReport == [d \in TaskDirs \cup DOMAIN specs |-> IF d \in TaskDirs THEN SpecStatus(d) ELSE "blocked"]

ValidateSpecs ==
    /\ sure' = [d \in Dirs |-> IF d \in DOMAIN SpecsReport /\ SpecsReport[d] = "ready" /\ sure[d] = "no"
                               THEN "ready" ELSE sure[d]]
    /\ UNCHANGED <<corpus, heads, clones, preview, tasks, made, focused, specs, plan, chain, events>>

-----------------------------------------------------------------------------
(* discover-public-issue-failure-signals *)

\* discover_public_issue_failure_signal_record, in the checkout that the plan names:
\* a command that ran has passed, failed, timed out or shown candidate signals.
Found(row, dry) ==
    CASE row.status = "blocked" \/ row.dir = NoFile -> "blocked"
      [] OTHER -> IF clones[row.dir] = NoFile THEN "blocked"
                  ELSE IF dry THEN "dry_run" ELSE "attempted"

Discovery(dry) == [d \in DOMAIN plan |-> Found(plan[d], dry)]

-----------------------------------------------------------------------------
(* The user and the repositories *)

EditCorpus ==
    /\ Happens("edit")
    /\ corpus' \in Corpora \ {corpus}
    /\ chain' = "broken" /\ made' = NoFile
    /\ UNCHANGED <<heads, clones, preview, tasks, focused, specs, plan, sure>>

RepositoryMoves ==
    /\ Happens("move")
    /\ \E u \in Urls, r \in Revisions : r > heads[u] /\ heads' = [heads EXCEPT ![u] = r]
    /\ UNCHANGED <<corpus, clones, preview, tasks, made, focused, specs, plan, chain, sure>>

Init ==
    /\ corpus \in Corpora
    /\ heads = [u \in Urls |-> 1]
    /\ clones = [d \in Dirs |-> NoFile] /\ tasks = [d \in Dirs |-> NoFile]
    /\ preview = NoFile /\ made = NoFile /\ focused = NoFile /\ plan = NoFile
    /\ specs = None
    /\ chain = "broken" /\ sure = [d \in Dirs |-> "no"]
    /\ events = {}

Next ==
    \/ EditCorpus \/ RepositoryMoves
    \/ PreviewContext
    \/ MaterializeTasks
    \/ PlanFocusedTests
    \/ PlanReproductions \/ ReviewSpecs \/ ValidateSpecs

Spec == Init /\ [][Next]_vars

-----------------------------------------------------------------------------

TypeOK ==
    /\ corpus \in Corpora /\ heads \in [Urls -> Revisions]
    /\ clones \in [Dirs -> Clone \cup {NoFile}]
    /\ preview = NoFile \/ preview \in Seq(PreviewRow)
    /\ tasks \in [Dirs -> Manifest \cup {NoFile, Bare}]
    /\ made = NoFile \/ made \in Seq(MadeRow)
    /\ focused = NoFile \/ focused \in [DOMAIN focused -> FocusedRow]
    /\ plan = NoFile \/ plan \in [DOMAIN plan -> PlanRow]
    /\ specs \in [DOMAIN specs -> ReviewedSpec]
    /\ chain \in {"broken", "previewed", "made", "focused", "planned"}
    /\ sure \in [Dirs -> {"no", "ready", "planned"}]
    /\ events \subseteq {"kill", "review", "edit", "move"}

\* What validate-issue-corpus accepts, and besides no two task ids and no two
\* repositories with one directory, and one URL for a repository.
Unambiguous(c) ==
    /\ \A i \in DOMAIN c : EntryStatus(c, i) = "valid"
    /\ \A i, j \in DOMAIN c : DirOf[c[i].id] = DirOf[c[j].id] => i = j
    /\ \A i, j \in DOMAIN c : DirOf[c[i].repository] = DirOf[c[j].repository] =>
          c[i].repository = c[j].repository /\ c[i].url = c[j].url

\* The tasks that the last materialization says it made.
MadeDirs == {made[i].dir : i \in {j \in DOMAIN made : made[j].status = "materialized"}}

\* When the corpus is unambiguous and its preview ran to the end, the manifest of
\* every task that is then materialized is its own, and names the very revision
\* that the checkout holds, so that it is ready for a run, and invalid only where
\* retrieval found nothing: whatever an earlier corpus, a killed run, failed
\* clones, a repository that moved, or a preview of fewer issues left behind.
ManifestsDescribeCheckouts ==
    chain \in {"made", "focused", "planned"} /\ Unambiguous(corpus) =>
        /\ \A d \in MadeDirs :
              /\ TasksReport[d] = "valid" <=> tasks[d].revision \in Retrieved
              /\ ReadinessReport[d] = "ready"
              /\ HostsReport[tasks[d].repository] = tasks[d].url
              /\ clones[tasks[d].dir] = [url |-> tasks[d].url, revision |-> tasks[d].revision]
        /\ \A i \in DOMAIN made : made[i].status = "materialized" => tasks[made[i].dir].id = made[i].id

\* Preview, materialize, plan focused tests and plan reproductions, run in this
\* order on such a corpus, give every task whose id is a directory name a command
\* that is its reviewed one, or runs files that its checkout has; and the command
\* policy blocks some of either, but nothing else blocks a task.
OrderedPlansRun ==
    chain = "planned" /\ Unambiguous(corpus) =>
        \A d \in {e \in MadeDirs : tasks[e].id = e} :
            /\ plan[d].source \in {"spec", "focused"}
            /\ plan[d].status = "blocked" <=> plan[d].command \in Refused
            /\ plan[d].source = "focused" =>
                  plan[d].command = "suite" \/ FileThere(tasks[d].dir, plan[d].command)

\* A task whose reviewed spec was validated as ready, and planned with these specs
\* after that, has the reviewed command planned and is not blocked in discovery, as
\* long as neither specs nor tasks nor checkouts change: whatever focused plans are
\* made, and whatever is planned without the specs, in between.
ReadySpecsRun ==
    \A d \in Dirs : sure[d] = "planned" =>
        /\ plan[d].status = "planned" /\ plan[d].source = "spec"
        /\ \A dry \in BOOLEAN : Discovery(dry)[d] # "blocked"
=============================================================================
