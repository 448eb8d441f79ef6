---------------------------- MODULE ChatSession -----------------------------
(***************************************************************************)
(* A chat session (chat/controller.py and its handlers) is event-sourced:  *)
(* every command changes the process's AgentChatRuntime and appends a row  *)
(* to the session's transcript, and `chat --resume' rebuilds the runtime   *)
(* by replaying those rows (chat/session_resume.py).  The handlers and the *)
(* replay are separate code; this module has both.                         *)
(*                                                                         *)
(* The transcript is kept as what it replays to: `replay' is the           *)
(* accumulator of runtime_from_transcript, advanced by the row's own       *)
(* replay handler when the row is appended, and `saved' the last           *)
(* checkpoint of each label.  The process may die at any step.  A row cut  *)
(* short by it is ignored by every reader, together with the row that a    *)
(* resume appends to it, and a resume appends one that is not replayed.    *)
(*                                                                         *)
(* Which lines a plan, a feedback list or a prompt holds is left out, and  *)
(* so are the commands that only display or measure.                       *)
(***************************************************************************)
EXTENDS Naturals, Sequences

CONSTANTS Task,      \* the texts a user may submit
          NoTask,    \* "no task"
          Notes,     \* the contents a plan or a feedback list may have
          Nothing,   \* the empty one
          Path,      \* the context hints
          Given,     \* stands for the hints on the command line of a resume
          Value,     \* the values of the model override and of the budget
          Keep,      \* "the profile leaves this setting alone"
          Profile,   \* the project's agent profiles
          NoProfile, \* "no agent profile"
          Offers,    \* what selecting a profile changes
          Label,     \* the labels of checkpoints
          Options,   \* the configurations a command line may give
          MaxTasks,  \* bound: tasks in the history
          MaxRuns    \* bound: finished runs

Setting == {"model", "budget"}

\* The hints are still to be taken from the command line.
Inherit == {Given}

\* AgentCliConfig: context is a set of hints, or still to be inherited.
ConfigOver(C) == [settings : [Setting -> Value],
                  context  : C,
                  apply    : BOOLEAN,
                  dirty    : BOOLEAN,           \* allow_dirty_apply
                  profile  : Profile \cup {NoProfile},
                  load     : BOOLEAN]           \* load_agent_instructions

Config == ConfigOver(SUBSET Path)

ASSUME ChatAssumption ==
    /\ NoTask \notin Task
    /\ Nothing \in Notes
    /\ Given \notin Path
    /\ Keep \notin Value
    /\ NoProfile \notin Profile
    /\ Offers \in [Profile -> [settings : [Setting -> Value \cup {Keep}],
                               context  : SUBSET Path]]
    /\ Options \subseteq {c \in Config : c.dirty => c.apply}
    /\ MaxTasks \in Nat
    /\ MaxRuns \in Nat

VARIABLES pc,         \* where the process is, "new" before the session exists
          live,       \* AgentChatRuntime
          text,       \* whose instructions the runtime has loaded
          inhand,     \* the task being handled, and what asked for it
          options,    \* the command line of this process
          runs,       \* finished runs
          replay,     \* what the transcript replays to
          saved       \* the checkpoint each label stands for

process == <<live, text, inhand, options>>
vars == <<pc, process, runs, replay, saved>>

\* What the runtime and the accumulator have in common, a run, the result of
\* an apply and that of a rewind each named by the number of its run.
SessionOver(C) == [mode     : {"act", "plan"},
                   pending  : Task \cup {NoTask},
                   history  : Seq(Task),
                   run      : Nat,
                   applied  : Nat,
                   rewound  : Nat,
                   plan     : Notes,
                   feedback : Notes,
                   summary  : BOOLEAN,
                   config   : C]

Session == SessionOver(Config)
Replay == SessionOver(ConfigOver((SUBSET Path) \cup {Inherit}))

Fresh(c) == [mode |-> "act", pending |-> NoTask, history |-> <<>>, run |-> 0,
             applied |-> 0, rewound |-> 0, plan |-> Nothing, feedback |-> Nothing,
             summary |-> FALSE, config |-> c]

Origin == {"prompt", "text", "command", "approval"}
NoInhand == [task |-> NoTask, from |-> "text"]
Text == [profile : Profile \cup {NoProfile}, project : BOOLEAN]
NoText == [profile |-> NoProfile, project |-> FALSE]

Alive == pc \notin {"new", "down"}

Init ==
    /\ pc = "new"
    /\ options \in Options
    /\ live = Fresh(options)
    /\ text = NoText
    /\ inhand = NoInhand
    /\ runs = 0
    /\ replay = Fresh(options)
    /\ saved = <<>>

-----------------------------------------------------------------------------
(* Replaying a row *)

\* context_paths_from_payload(...) or fallback
OrElse(paths, fallback) == IF paths = {} THEN fallback ELSE paths

OnSessionStart(c) == Fresh([c EXCEPT !.context = OrElse(@, Inherit)])

OnContextUpdate(acc, paths) == [acc EXCEPT !.config.context = paths]

OnSetting(acc, s, v) == [acc EXCEPT !.config.settings[s] = v]

OnPermissions(acc, c) ==
    [acc EXCEPT !.config.apply = c.apply, !.config.dirty = c.apply /\ c.dirty]

OnAgentProfile(acc, c) ==
    [acc EXCEPT !.config.settings = c.settings,
                !.config.profile = c.profile,
                !.config.context = OrElse(c.context, @)]

OnInstructions(acc, c) == [acc EXCEPT !.config.load = c.load]

OnModeUpdate(acc, m) == [acc EXCEPT !.mode = m]

OnPlanModeTask(acc, t) == [acc EXCEPT !.pending = t]

OnPlanModeResolved(acc) == [acc EXCEPT !.pending = NoTask]

OnPlanUpdate(acc, items) == [acc EXCEPT !.plan = items]

OnFeedbackUpdate(acc, items) == [acc EXCEPT !.feedback = items]

\* Mutants: a replay handler that forgets a field its row clears.
UserTaskKeepsPending(acc, t) == [acc EXCEPT !.history = Append(@, t)]
ClearKeepsRun(acc) ==
    [Fresh(acc.config) EXCEPT !.mode = acc.mode, !.run = acc.run]

OnUserTask(acc, t) ==
    [acc EXCEPT !.history = Append(@, t), !.pending = NoTask]

OnRunResult(acc, r) == [acc EXCEPT !.run = r]

OnApplyResult(acc, r) == [acc EXCEPT !.applied = r]

OnRewindResult(acc, r) == [acc EXCEPT !.rewound = r]

OnCompact(acc) == [acc EXCEPT !.history = <<>>, !.summary = TRUE]

OnClear(acc) == [Fresh(acc.config) EXCEPT !.mode = acc.mode]

OnRestore(acc, s) == [s EXCEPT !.config.context = OrElse(@, acc.config.context)]

\* runtime_from_transcript under the command line c.
Resumed(c) ==
    [replay EXCEPT !.config.context = IF @ = Inherit THEN c.context ELSE @]

-----------------------------------------------------------------------------
(* The life of the process *)

\* A row is recorded for a session that becomes s and a replay that becomes d.
Commit(s, d) == live' = s /\ replay' = d

Start ==
    /\ pc = "new"
    /\ pc' = "greeting"
    /\ Commit(Fresh(options), OnSessionStart(options))
    /\ text' = [profile |-> options.profile, project |-> options.load]
    /\ UNCHANGED <<inhand, options, runs, saved>>

\* The texts the command line has loaded come first; rehydrate_config_
\* instructions loads what is then still missing.
Resume(c) ==
    /\ pc = "down"
    /\ pc' = "greeting"
    /\ options' = c
    /\ live' = Resumed(c)
    /\ text' = [profile |-> IF c.profile # NoProfile THEN c.profile
                            ELSE replay.config.profile,
                project |-> c.load \/ replay.config.load]
    /\ UNCHANGED <<inhand, runs, replay, saved>>

\* The memory of the process is gone.
Down ==
    /\ pc' = "down"
    /\ live' = Fresh(options)
    /\ text' = NoText
    /\ inhand' = NoInhand
    /\ UNCHANGED <<options, runs, replay, saved>>

\* /exit, the end of the input, or a SessionStart hook that blocks.
Exit == pc \in {"greeting", "ready"} /\ Down

\* A signal, an exception that no handler catches, a machine that stops.
Kill == Alive /\ Down

\* No prompt on the command line: the session reads its input.
Greet ==
    /\ pc = "greeting"
    /\ pc' = "ready"
    /\ UNCHANGED <<process, runs, replay, saved>>

-----------------------------------------------------------------------------
(* Tasks *)

\* run_chat_task, up to its blocking hooks.
Submit(t, from) ==
    /\ pc' = "submitted"
    /\ inhand' = [task |-> t, from |-> from]
    /\ UNCHANGED <<text, options, runs, saved>>

\* `patchsmith chat [--resume S] "<prompt>"'
InitialPrompt(t) ==
    /\ pc = "greeting"
    /\ Submit(t, "prompt")
    /\ UNCHANGED <<live, replay>>

PlainTextRuns(t) ==
    /\ pc = "ready"
    /\ live.mode = "act"
    /\ Submit(t, "text")
    /\ UNCHANGED <<live, replay>>

\* /run <task>, or a custom command whose prompt is t.
RunCommand(t) ==
    /\ pc = "ready"
    /\ Submit(t, "command")
    /\ UNCHANGED <<live, replay>>

\* /run: the pending task is approved, and gone, before the hooks are asked.
ApprovePlanned ==
    /\ pc = "ready"
    /\ live.pending # NoTask
    /\ Submit(live.pending, "approval")
    /\ Commit([live EXCEPT !.pending = NoTask], OnPlanModeResolved(replay))

\* UserPromptSubmit or PreRun blocks.
HookBlocks ==
    /\ pc = "submitted"
    /\ pc' = "ready"
    /\ inhand' = NoInhand
    /\ UNCHANGED <<live, text, options, runs, replay, saved>>

\* The task is on record before anything is checked or run.
StartTask ==
    /\ pc = "submitted"
    /\ pc' = "running"
    /\ Len(live.history) < MaxTasks
    /\ Commit([live EXCEPT !.history = Append(@, inhand.task), !.pending = NoTask],
              OnUserTask(replay, inhand.task))
    /\ UNCHANGED <<text, inhand, options, runs, saved>>

\* run_preflight_error, a model preflight that finds the model unavailable, or
\* run_error.
TaskFails ==
    /\ pc = "running"
    /\ pc' = "ready"
    /\ inhand' = NoInhand
    /\ UNCHANGED <<live, text, options, runs, replay, saved>>

\* An interactive run applies nothing, so it leaves no apply result.
FinishRun ==
    /\ pc = "running"
    /\ runs < MaxRuns
    /\ pc' = "ready"
    /\ runs' = runs + 1
    /\ inhand' = NoInhand
    /\ Commit([live EXCEPT !.run = runs', !.applied = 0], OnRunResult(replay, runs'))
    /\ UNCHANGED <<text, options, saved>>

-----------------------------------------------------------------------------
(* Commands that change the session *)

\* A command is handled: the session becomes s, the replay d.
Handle(s, d) ==
    /\ pc = "ready"
    /\ Commit(s, d)
    /\ UNCHANGED <<pc, inhand, options, runs>>

PlainTextPlans(t) ==
    /\ live.mode = "plan"
    /\ Handle([live EXCEPT !.pending = t], OnPlanModeTask(replay, t))
    /\ UNCHANGED <<text, saved>>

Mode(m) ==
    /\ Handle([live EXCEPT !.mode = m], OnModeUpdate(replay, m))
    /\ UNCHANGED <<text, saved>>

Cancel ==
    /\ live.pending # NoTask
    /\ Handle([live EXCEPT !.pending = NoTask], OnPlanModeResolved(replay))
    /\ UNCHANGED <<text, saved>>

Clear ==
    /\ Handle([Fresh(live.config) EXCEPT !.mode = live.mode], OnClear(replay))
    /\ UNCHANGED <<text, saved>>

Compact ==
    /\ Handle([live EXCEPT !.history = <<>>, !.summary = TRUE], OnCompact(replay))
    /\ UNCHANGED <<text, saved>>

Plan(items) ==
    /\ Handle([live EXCEPT !.plan = items], OnPlanUpdate(replay, items))
    /\ UNCHANGED <<text, saved>>

Feedback(items) ==
    /\ Handle([live EXCEPT !.feedback = items], OnFeedbackUpdate(replay, items))
    /\ UNCHANGED <<text, saved>>

\* /apply and /rewind act on the last run; the gate is ApplyGate's subject.
Apply ==
    /\ live.run # 0
    /\ Handle([live EXCEPT !.applied = live.run], OnApplyResult(replay, live.run))
    /\ UNCHANGED <<text, saved>>

Rewind ==
    /\ live.run # 0
    /\ Handle([live EXCEPT !.rewound = live.run], OnRewindResult(replay, live.run))
    /\ UNCHANGED <<text, saved>>

\* /context add, remove, clear
ContextChange == {live.config.context \cup {p} : p \in Path}
                     \cup {live.config.context \ {p} : p \in Path} \cup {{}}

Context(paths) ==
    /\ Handle([live EXCEPT !.config.context = paths], OnContextUpdate(replay, paths))
    /\ UNCHANGED <<text, saved>>

\* /model and /budget
Set(s, v) ==
    /\ Handle([live EXCEPT !.config.settings[s] = v], OnSetting(replay, s, v))
    /\ UNCHANGED <<text, saved>>

\* /permissions: manual apply denies dirty trees, allowing them needs auto.
PermissionChange(c) ==
    {[c EXCEPT !.apply = TRUE],
     [c EXCEPT !.apply = FALSE, !.dirty = FALSE],
     [c EXCEPT !.dirty = FALSE],
     [c EXCEPT !.dirty = c.apply]}

Permissions ==
    /\ \E c \in PermissionChange(live.config) :
          Handle([live EXCEPT !.config = c], OnPermissions(replay, c))
    /\ UNCHANGED <<text, saved>>

WithProfile(c, p) ==
    [c EXCEPT !.profile = p,
              !.context = @ \cup Offers[p].context,
              !.settings = [s \in Setting |->
                  IF Offers[p].settings[s] = Keep THEN @[s] ELSE Offers[p].settings[s]]]

\* /agent <name>
SelectProfile(p) ==
    LET c == WithProfile(live.config, p)
    IN /\ Handle([live EXCEPT !.config = c], OnAgentProfile(replay, c))
       /\ text' = [text EXCEPT !.profile = p]
       /\ UNCHANGED saved

\* /agent clear
ClearProfile ==
    LET c == [live.config EXCEPT !.profile = NoProfile]
    IN /\ Handle([live EXCEPT !.config = c], OnAgentProfile(replay, c))
       /\ text' = [text EXCEPT !.profile = NoProfile]
       /\ UNCHANGED saved

\* /instructions or /memory reload, clear, add
Instructions(load) ==
    LET c == [live.config EXCEPT !.load = load]
    IN /\ Handle([live EXCEPT !.config = c], OnInstructions(replay, c))
       /\ text' = [text EXCEPT !.project = load]
       /\ UNCHANGED saved

\* /checkpoint <label>: the last one of a label hides the others.
Checkpoint(l) ==
    /\ pc = "ready"
    /\ saved' = [k \in DOMAIN saved \cup {l} |-> IF k = l THEN live ELSE saved[k]]
    /\ UNCHANGED <<pc, process, runs, replay>>

\* restore_checkpoint_state: the current configuration is the fallback.
Restored(l) == [saved[l] EXCEPT !.config.context = OrElse(@, live.config.context)]

\* /restore <label>
Restore(l) ==
    /\ l \in DOMAIN saved
    /\ Handle(Restored(l), OnRestore(replay, saved[l]))
    /\ UNCHANGED <<text, saved>>

TaskStep ==
    \/ \E t \in Task : InitialPrompt(t) \/ PlainTextRuns(t) \/ RunCommand(t)
    \/ ApprovePlanned
    \/ HookBlocks
    \/ StartTask
    \/ TaskFails
    \/ FinishRun

SessionCommand ==
    \/ \E t \in Task : PlainTextPlans(t)
    \/ \E m \in {"act", "plan"} : Mode(m)
    \/ Cancel
    \/ Clear
    \/ Compact
    \/ \E items \in Notes : Plan(items) \/ Feedback(items)
    \/ Apply
    \/ Rewind
    \/ \E l \in Label : Checkpoint(l) \/ Restore(l)

ConfigCommand ==
    \/ \E paths \in ContextChange : Context(paths)
    \/ \E s \in Setting, v \in Value : Set(s, v)
    \/ Permissions
    \/ \E p \in Profile : SelectProfile(p)
    \/ ClearProfile
    \/ \E load \in BOOLEAN : Instructions(load)

Next ==
    \/ Start
    \/ \E c \in Options : Resume(c)
    \/ Exit
    \/ Kill
    \/ Greet
    \/ TaskStep
    \/ SessionCommand
    \/ ConfigCommand

Spec == Init /\ [][Next]_vars

-----------------------------------------------------------------------------
(* Properties *)

TypeOK ==
    /\ pc \in {"new", "greeting", "ready", "submitted", "running", "down"}
    /\ live \in Session
    /\ text \in Text
    /\ inhand \in [task : Task \cup {NoTask}, from : Origin]
    /\ options \in Options
    /\ runs \in Nat
    /\ replay \in Replay
    /\ DOMAIN saved \subseteq Label
    /\ \A l \in DOMAIN saved : saved[l] \in Session

\* All but the apply result, which a run resets in memory only.
Core(s) == [s EXCEPT !.applied = 0]

\* However the session got here, by commands, restores, kills and resumes,
\* a resume with the same command line rebuilds it: the handlers and the
\* replay handlers of runtime_from_transcript agree.  Only the result of an
\* apply may come back after the run that made it obsolete.
ResumeAgrees ==
    Alive => /\ Core(live) = Core(Resumed(options))
             /\ live.applied \in {0, replay.applied}

\* A task that has begun, or whose approval is on record, is pending no more,
\* neither in memory nor after a kill and a resume: an approval runs a plan
\* at most once (handle_run_command, run_chat_task, _on_user_task).
StartedIsNotPending ==
    pc = "running" \/ (pc = "submitted" /\ inhand.from = "approval") =>
        live.pending = NoTask /\ replay.pending = NoTask

\* Dirty trees are accepted only while apply is automatic, in the session, in
\* every checkpoint and in what a resume would rebuild (handlers/permissions.py
\* and apply_config_update).
DirtyNeedsApply ==
    \A c \in {live.config, replay.config} \cup {saved[l].config : l \in DOMAIN saved} :
        c.dirty => c.apply
=============================================================================
