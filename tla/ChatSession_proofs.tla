------------------------- MODULE ChatSession_proofs -------------------------
(***************************************************************************)
(* Proofs about the chat session, for any tasks, hints, settings, profiles *)
(* and labels and sessions of any length: type correctness, that a resume  *)
(* rebuilds what the handlers left, that what has begun is not pending,    *)
(* and that dirty trees are accepted only under automatic apply.           *)
(***************************************************************************)
EXTENDS ChatSession, TLAPS

\* The context hints a replay d stands for under this process's command line.
HintsOf(d) == IF d.config.context = Inherit THEN options.context ELSE d.config.context

\* ResumeAgrees, field by field, of a session s and a replay d.
Agree(s, d) ==
    /\ s.mode = d.mode
    /\ s.pending = d.pending
    /\ s.history = d.history
    /\ s.run = d.run
    /\ s.applied \in {0, d.applied}
    /\ s.rewound = d.rewound
    /\ s.plan = d.plan
    /\ s.feedback = d.feedback
    /\ s.summary = d.summary
    /\ s.config.settings = d.config.settings
    /\ s.config.context = HintsOf(d)
    /\ s.config.apply = d.config.apply
    /\ s.config.dirty = d.config.dirty
    /\ s.config.profile = d.config.profile
    /\ s.config.load = d.config.load

\* The configuration c accepts dirty trees only under automatic apply.
Careful(c) == c.dirty => c.apply

\* A submitted task is a task.
TaskInHand == pc \in {"submitted", "running"} => inhand.task \in Task

IInv ==
    /\ TypeOK
    /\ TaskInHand
    /\ Alive => Agree(live, replay)
    /\ StartedIsNotPending
    /\ DirtyNeedsApply

-----------------------------------------------------------------------------
(* Types *)

\* No set of hints is mistaken for the hints of the command line.
LEMMA InheritIsNoHint == Inherit \notin SUBSET Path
BY ChatAssumption DEF Inherit

LEMMA OptionType ==
    ASSUME NEW c \in Options
    PROVE  c \in Config /\ Careful(c)
BY ChatAssumption DEF Careful


\* A session whose hints are in C stays one.
LEMMA FieldType ==
    ASSUME NEW C, NEW s \in SessionOver(C)
    PROVE  /\ \A m \in {"act", "plan"} : [s EXCEPT !.mode = m] \in SessionOver(C)
           /\ \A t \in Task \cup {NoTask} : [s EXCEPT !.pending = t] \in SessionOver(C)
           /\ \A r \in Nat : /\ [s EXCEPT !.run = r] \in SessionOver(C)
                             /\ [s EXCEPT !.applied = r] \in SessionOver(C)
                             /\ [s EXCEPT !.rewound = r] \in SessionOver(C)
                             /\ [s EXCEPT !.run = r, !.applied = 0] \in SessionOver(C)
           /\ \A n \in Notes : /\ [s EXCEPT !.plan = n] \in SessionOver(C)
                               /\ [s EXCEPT !.feedback = n] \in SessionOver(C)
           /\ \A c \in C : [s EXCEPT !.config = c] \in SessionOver(C)
<1>1. \A m \in {"act", "plan"} : [s EXCEPT !.mode = m] \in SessionOver(C)
  BY DEF SessionOver
<1>2. \A t \in Task \cup {NoTask} : [s EXCEPT !.pending = t] \in SessionOver(C)
  BY DEF SessionOver
<1>3. \A r \in Nat : /\ [s EXCEPT !.run = r] \in SessionOver(C)
                     /\ [s EXCEPT !.applied = r] \in SessionOver(C)
                     /\ [s EXCEPT !.rewound = r] \in SessionOver(C)
                     /\ [s EXCEPT !.run = r, !.applied = 0] \in SessionOver(C)
  BY DEF SessionOver
<1>4. \A n \in Notes : /\ [s EXCEPT !.plan = n] \in SessionOver(C)
                       /\ [s EXCEPT !.feedback = n] \in SessionOver(C)
  BY DEF SessionOver
<1>5. \A c \in C : [s EXCEPT !.config = c] \in SessionOver(C)
  BY DEF SessionOver
<1>. QED  BY <1>1, <1>2, <1>3, <1>4, <1>5

LEMMA TaskType ==
    ASSUME NEW C, NEW s \in SessionOver(C), NEW t \in Task
    PROVE  [s EXCEPT !.history = Append(@, t), !.pending = NoTask] \in SessionOver(C)
<1>1. Append(s.history, t) \in Seq(Task)
  BY DEF SessionOver
<1>. QED  BY <1>1 DEF SessionOver

LEMMA CompactType ==
    ASSUME NEW C, NEW s \in SessionOver(C)
    PROVE  [s EXCEPT !.history = <<>>, !.summary = TRUE] \in SessionOver(C)
<1>1. <<>> \in Seq(Task)
  OBVIOUS
<1>. QED  BY <1>1 DEF SessionOver

LEMMA FreshType ==
    ASSUME NEW C, NEW c \in C, NEW m \in {"act", "plan"}
    PROVE  /\ Fresh(c) \in SessionOver(C)
           /\ [Fresh(c) EXCEPT !.mode = m] \in SessionOver(C)
<1>1. Fresh(c) \in SessionOver(C)
  BY ChatAssumption DEF Fresh, SessionOver
<1>. QED  BY <1>1, FieldType

\* A command is handled: its session and its replay are what has to be shown.
LEMMA Handled ==
    ASSUME IInv, NEW s \in Session, NEW d \in Replay, Handle(s, d),
           UNCHANGED saved, text' \in Text,
           Agree(s, d), Careful(s.config)
    PROVE  IInv'
<1>1. s = live' /\ d = replay' /\ pc = "ready" /\ UNCHANGED <<pc, inhand, options, runs>>
  BY DEF Handle, Commit
<1>2. TypeOK'
  <2>1. TypeOK
    BY DEF IInv
  <2>. QED  BY <1>1, <2>1 DEF TypeOK
<1>3. Agree(live, replay)'
  BY <1>1 DEF Agree, HintsOf
<1>4. StartedIsNotPending' /\ TaskInHand'
  BY <1>1 DEF StartedIsNotPending, TaskInHand
<1>5. DirtyNeedsApply'
  BY <1>1 DEF IInv, DirtyNeedsApply, Agree, Careful
<1>. QED  BY <1>2, <1>3, <1>4, <1>5 DEF IInv

LEMMA BeforeCommand ==
    ASSUME IInv, pc = "ready"
    PROVE  /\ live \in Session /\ replay \in Replay
           /\ live.config \in Config /\ replay.config \in ConfigOver((SUBSET Path) \cup {Inherit})
           /\ text \in Text
           /\ Agree(live, replay)
           /\ Careful(live.config)
<1>1. TypeOK /\ Agree(live, replay) /\ DirtyNeedsApply
  BY DEF IInv, Alive
<1>2. live \in Session /\ replay \in Replay /\ text \in Text
  BY <1>1 DEF TypeOK
<1>3. live.config \in Config /\ replay.config \in ConfigOver((SUBSET Path) \cup {Inherit})
  BY <1>2 DEF Session, Replay, SessionOver
<1>. QED  BY <1>1, <1>2, <1>3 DEF DirtyNeedsApply, Careful

-----------------------------------------------------------------------------
(* Commands that leave the configuration alone *)

LEMMA PendingStep ==
    ASSUME IInv, (\E t \in Task : PlainTextPlans(t)) \/ Cancel
    PROVE  IInv'
<1>1. PICK t \in Task \cup {NoTask} :
          /\ Handle([live EXCEPT !.pending = t], [replay EXCEPT !.pending = t])
          /\ UNCHANGED <<text, saved>>
  BY DEF PlainTextPlans, Cancel, OnPlanModeTask, OnPlanModeResolved
<1>2. pc = "ready"
  BY <1>1 DEF Handle
<1>3. [live EXCEPT !.pending = t] \in Session /\ [replay EXCEPT !.pending = t] \in Replay
  BY <1>2, BeforeCommand, FieldType DEF Session, Replay
<1>4. Agree([live EXCEPT !.pending = t], [replay EXCEPT !.pending = t])
  BY <1>2, BeforeCommand DEF Agree, HintsOf, Session, Replay, SessionOver
<1>5. Careful([live EXCEPT !.pending = t].config)
  BY <1>2, BeforeCommand DEF Session, SessionOver
<1>. QED  BY <1>1, <1>2, <1>3, <1>4, <1>5, Handled, BeforeCommand

LEMMA ModeStep ==
    ASSUME IInv, NEW m \in {"act", "plan"}, Mode(m)
    PROVE  IInv'
<1>1. /\ Handle([live EXCEPT !.mode = m], [replay EXCEPT !.mode = m])
      /\ UNCHANGED <<text, saved>>
  BY DEF Mode, OnModeUpdate
<1>2. pc = "ready"
  BY <1>1 DEF Handle
<1>3. [live EXCEPT !.mode = m] \in Session /\ [replay EXCEPT !.mode = m] \in Replay
  BY <1>2, BeforeCommand, FieldType DEF Session, Replay
<1>4. Agree([live EXCEPT !.mode = m], [replay EXCEPT !.mode = m])
  BY <1>2, BeforeCommand DEF Agree, HintsOf, Session, Replay, SessionOver
<1>5. Careful([live EXCEPT !.mode = m].config)
  BY <1>2, BeforeCommand DEF Session, SessionOver
<1>. QED  BY <1>1, <1>2, <1>3, <1>4, <1>5, Handled, BeforeCommand

LEMMA PlanStep ==
    ASSUME IInv, NEW n \in Notes, Plan(n)
    PROVE  IInv'
<1>1. /\ Handle([live EXCEPT !.plan = n], [replay EXCEPT !.plan = n])
      /\ UNCHANGED <<text, saved>>
  BY DEF Plan, OnPlanUpdate
<1>2. pc = "ready"
  BY <1>1 DEF Handle
<1>3. [live EXCEPT !.plan = n] \in Session /\ [replay EXCEPT !.plan = n] \in Replay
  BY <1>2, BeforeCommand, FieldType DEF Session, Replay
<1>4. Agree([live EXCEPT !.plan = n], [replay EXCEPT !.plan = n])
  BY <1>2, BeforeCommand DEF Agree, HintsOf, Session, Replay, SessionOver
<1>5. Careful([live EXCEPT !.plan = n].config)
  BY <1>2, BeforeCommand DEF Session, SessionOver
<1>. QED  BY <1>1, <1>2, <1>3, <1>4, <1>5, Handled, BeforeCommand

LEMMA FeedbackStep ==
    ASSUME IInv, NEW n \in Notes, Feedback(n)
    PROVE  IInv'
<1>1. /\ Handle([live EXCEPT !.feedback = n], [replay EXCEPT !.feedback = n])
      /\ UNCHANGED <<text, saved>>
  BY DEF Feedback, OnFeedbackUpdate
<1>2. pc = "ready"
  BY <1>1 DEF Handle
<1>3. [live EXCEPT !.feedback = n] \in Session /\ [replay EXCEPT !.feedback = n] \in Replay
  BY <1>2, BeforeCommand, FieldType DEF Session, Replay
<1>4. Agree([live EXCEPT !.feedback = n], [replay EXCEPT !.feedback = n])
  BY <1>2, BeforeCommand DEF Agree, HintsOf, Session, Replay, SessionOver
<1>5. Careful([live EXCEPT !.feedback = n].config)
  BY <1>2, BeforeCommand DEF Session, SessionOver
<1>. QED  BY <1>1, <1>2, <1>3, <1>4, <1>5, Handled, BeforeCommand

LEMMA CompactStep == ASSUME IInv, Compact PROVE IInv'
<1> DEFINE s == [live EXCEPT !.history = <<>>, !.summary = TRUE]
           d == [replay EXCEPT !.history = <<>>, !.summary = TRUE]
<1>1. Handle(s, d) /\ UNCHANGED <<text, saved>>
  BY DEF Compact, OnCompact
<1>2. pc = "ready"
  BY <1>1 DEF Handle
<1>3. s \in Session /\ d \in Replay
  BY <1>2, BeforeCommand, CompactType DEF Session, Replay
<1>4. Agree(s, d)
  BY <1>2, BeforeCommand DEF Agree, HintsOf, Session, Replay, SessionOver
<1>5. Careful(s.config)
  BY <1>2, BeforeCommand DEF Session, SessionOver
<1>. QED  BY <1>1, <1>2, <1>3, <1>4, <1>5, Handled, BeforeCommand

LEMMA ClearStep == ASSUME IInv, Clear PROVE IInv'
<1> DEFINE s == [Fresh(live.config) EXCEPT !.mode = live.mode]
           d == [Fresh(replay.config) EXCEPT !.mode = replay.mode]
<1>1. Handle(s, d) /\ UNCHANGED <<text, saved>>
  BY DEF Clear, OnClear
<1>2. pc = "ready"
  BY <1>1 DEF Handle
<1>3. live.mode \in {"act", "plan"} /\ replay.mode \in {"act", "plan"}
  BY <1>2, BeforeCommand DEF Session, Replay, SessionOver
<1>4. s \in Session /\ d \in Replay
  BY <1>2, <1>3, BeforeCommand, FreshType DEF Session, Replay
<1>5. Agree(s, d)
  BY <1>2, BeforeCommand DEF Agree, HintsOf, Fresh
<1>6. Careful(s.config)
  BY <1>2, BeforeCommand DEF Fresh
<1>. QED  BY <1>1, <1>2, <1>4, <1>5, <1>6, Handled, BeforeCommand

LEMMA ResultStep == ASSUME IInv, Apply \/ Rewind PROVE IInv'
<1> DEFINE s(f) == IF f = "applied" THEN [live EXCEPT !.applied = live.run]
                                    ELSE [live EXCEPT !.rewound = live.run]
           d(f) == IF f = "applied" THEN [replay EXCEPT !.applied = live.run]
                                    ELSE [replay EXCEPT !.rewound = live.run]
<1>1. PICK f \in {"applied", "rewound"} : Handle(s(f), d(f)) /\ UNCHANGED <<text, saved>>
  BY DEF Apply, Rewind, OnApplyResult, OnRewindResult
<1>2. pc = "ready"
  BY <1>1 DEF Handle
<1>3. live.run \in Nat
  BY <1>2, BeforeCommand DEF Session, SessionOver
<1>4. s(f) \in Session /\ d(f) \in Replay
  BY <1>2, <1>3, BeforeCommand, FieldType DEF Session, Replay
<1>5. Agree(s(f), d(f))
  BY <1>2, BeforeCommand DEF Agree, HintsOf, Session, Replay, SessionOver
<1>6. Careful(s(f).config)
  BY <1>2, BeforeCommand DEF Session, SessionOver
<1>. QED  BY <1>1, <1>2, <1>4, <1>5, <1>6, Handled, BeforeCommand

-----------------------------------------------------------------------------
(* Commands that change the configuration *)

\* A handler that only changes the configuration, from one that agrees with
\* the replay to another.
LEMMA Configured ==
    ASSUME IInv, pc = "ready",
           NEW c \in Config, NEW e \in ConfigOver((SUBSET Path) \cup {Inherit}),
           Handle([live EXCEPT !.config = c], [replay EXCEPT !.config = e]),
           UNCHANGED saved, text' \in Text,
           c.settings = e.settings, c.apply = e.apply, c.dirty = e.dirty,
           c.profile = e.profile, c.load = e.load,
           c.context = IF e.context = Inherit THEN options.context ELSE e.context,
           Careful(c)
    PROVE  IInv'
<1> DEFINE s == [live EXCEPT !.config = c]
           d == [replay EXCEPT !.config = e]
<1>1. s \in Session /\ d \in Replay
  BY BeforeCommand, FieldType DEF Session, Replay
<1>2. s.config = c /\ d.config = e
  BY BeforeCommand DEF Session, Replay, SessionOver
<1>3. Agree(s, d)
  BY <1>2, BeforeCommand DEF Agree, HintsOf, Session, Replay, SessionOver
<1>. QED  BY <1>1, <1>2, <1>3, Handled

LEMMA ContextStep ==
    ASSUME IInv, NEW paths \in ContextChange, Context(paths)
    PROVE  IInv'
<1> DEFINE c == [live.config EXCEPT !.context = paths]
           e == [replay.config EXCEPT !.context = paths]
<1>1. Handle([live EXCEPT !.config.context = paths], [replay EXCEPT !.config.context = paths])
      /\ UNCHANGED <<text, saved>>
  BY DEF Context, OnContextUpdate
<1>2. pc = "ready"
  BY <1>1 DEF Handle
<1>3. live.config \in Config /\ replay.config \in ConfigOver((SUBSET Path) \cup {Inherit})
  BY <1>2, BeforeCommand
<1>4. live.config.context \in SUBSET Path
  BY <1>3 DEF Config, ConfigOver
<1>5. paths \in SUBSET Path
  BY <1>4 DEF ContextChange
<1>6. c \in Config /\ e \in ConfigOver((SUBSET Path) \cup {Inherit})
  BY <1>3, <1>5 DEF Config, ConfigOver
<1>7. Handle([live EXCEPT !.config = c], [replay EXCEPT !.config = e])
  BY <1>1, <1>2, BeforeCommand DEF Session, Replay, SessionOver
<1>8. /\ c.settings = e.settings /\ c.profile = e.profile
      /\ c.apply = e.apply /\ c.dirty = e.dirty /\ c.load = e.load
      /\ c.context = paths /\ e.context = paths
      /\ Careful(c)
  BY <1>2, <1>3, BeforeCommand DEF Agree, Careful, Config, ConfigOver
<1>9. paths # Inherit
  BY <1>5, InheritIsNoHint
<1>. QED  BY <1>1, <1>2, <1>6, <1>7, <1>8, <1>9, Configured, BeforeCommand

LEMMA SetStep ==
    ASSUME IInv, NEW x \in Setting, NEW v \in Value, Set(x, v)
    PROVE  IInv'
<1> DEFINE c == [live.config EXCEPT !.settings[x] = v]
           e == [replay.config EXCEPT !.settings[x] = v]
<1>1. Handle([live EXCEPT !.config.settings[x] = v], [replay EXCEPT !.config.settings[x] = v])
      /\ UNCHANGED <<text, saved>>
  BY DEF Set, OnSetting
<1>2. pc = "ready"
  BY <1>1 DEF Handle
<1>3. live.config \in Config /\ replay.config \in ConfigOver((SUBSET Path) \cup {Inherit})
  BY <1>2, BeforeCommand
<1>4. c \in Config /\ e \in ConfigOver((SUBSET Path) \cup {Inherit})
  BY <1>3 DEF Config, ConfigOver
<1>5. Handle([live EXCEPT !.config = c], [replay EXCEPT !.config = e])
  BY <1>1, <1>2, BeforeCommand DEF Session, Replay, SessionOver
<1>6. /\ c.settings = e.settings /\ c.profile = e.profile
      /\ c.apply = e.apply /\ c.dirty = e.dirty /\ c.load = e.load
      /\ c.context = live.config.context /\ e.context = replay.config.context
      /\ Careful(c)
  BY <1>2, <1>3, BeforeCommand DEF Agree, Careful, Config, ConfigOver
<1>7. c.context = IF e.context = Inherit THEN options.context ELSE e.context
  BY <1>2, <1>6, BeforeCommand DEF Agree, HintsOf
<1>. QED  BY <1>1, <1>2, <1>4, <1>5, <1>6, <1>7, Configured, BeforeCommand

LEMMA PermissionsStep == ASSUME IInv, Permissions PROVE IInv'
<1>1. PICK c \in PermissionChange(live.config) :
          /\ Handle([live EXCEPT !.config = c], OnPermissions(replay, c))
          /\ UNCHANGED <<text, saved>>
  BY DEF Permissions
<1> DEFINE e == [replay.config EXCEPT !.apply = c.apply, !.dirty = c.dirty]
<1>2. pc = "ready"
  BY <1>1 DEF Handle
<1>3. live.config \in Config /\ replay.config \in ConfigOver((SUBSET Path) \cup {Inherit})
  BY <1>2, BeforeCommand
<1>4. c \in Config /\ Careful(c)
  BY <1>2, <1>3, BeforeCommand DEF PermissionChange, Careful, Config, ConfigOver
<1>5. /\ c.settings = live.config.settings /\ c.profile = live.config.profile
      /\ c.load = live.config.load /\ c.context = live.config.context
  BY <1>3 DEF PermissionChange, Config, ConfigOver
<1>6. c.apply \in BOOLEAN /\ c.dirty \in BOOLEAN
  BY <1>4 DEF Config, ConfigOver
<1>7. (c.apply /\ c.dirty) = c.dirty
  BY <1>4, <1>6 DEF Careful
<1>8. OnPermissions(replay, c) = [replay EXCEPT !.config = e]
  <2>1. OnPermissions(replay, c) = [replay EXCEPT !.config.apply = c.apply, !.config.dirty = c.dirty]
    BY <1>7 DEF OnPermissions
  <2>. QED  BY <1>2, <2>1, BeforeCommand DEF Replay, SessionOver
<1>9. e \in ConfigOver((SUBSET Path) \cup {Inherit})
  BY <1>3, <1>6 DEF ConfigOver
<1>10. /\ e.settings = replay.config.settings /\ e.profile = replay.config.profile
       /\ e.load = replay.config.load /\ e.context = replay.config.context
       /\ e.apply = c.apply /\ e.dirty = c.dirty
  BY <1>3 DEF ConfigOver
<1>11. Handle([live EXCEPT !.config = c], [replay EXCEPT !.config = e])
  BY <1>1, <1>8
<1>12. c.context = IF e.context = Inherit THEN options.context ELSE e.context
  BY <1>2, <1>5, <1>10, BeforeCommand DEF Agree, HintsOf
<1>13. c.settings = e.settings /\ c.profile = e.profile /\ c.load = e.load
  BY <1>2, <1>5, <1>10, BeforeCommand DEF Agree
<1>. QED  BY <1>1, <1>2, <1>4, <1>9, <1>10, <1>11, <1>12, <1>13, Configured, BeforeCommand

LEMMA InstructionsStep ==
    ASSUME IInv, NEW b \in BOOLEAN, Instructions(b)
    PROVE  IInv'
<1> DEFINE c == [live.config EXCEPT !.load = b]
           e == [replay.config EXCEPT !.load = c.load]
<1>1. /\ Handle([live EXCEPT !.config = c], [replay EXCEPT !.config.load = c.load])
      /\ text' = [text EXCEPT !.project = b] /\ UNCHANGED saved
  BY DEF Instructions, OnInstructions
<1>2. pc = "ready"
  BY <1>1 DEF Handle
<1>3. live.config \in Config /\ replay.config \in ConfigOver((SUBSET Path) \cup {Inherit})
  BY <1>2, BeforeCommand
<1>4. c \in Config /\ c.load = b
  BY <1>3 DEF Config, ConfigOver
<1>5. e \in ConfigOver((SUBSET Path) \cup {Inherit})
  BY <1>3, <1>4 DEF ConfigOver
<1>6. Handle([live EXCEPT !.config = c], [replay EXCEPT !.config = e])
  BY <1>1, <1>2, BeforeCommand DEF Replay, SessionOver
<1>7. /\ c.settings = e.settings /\ c.profile = e.profile
      /\ c.apply = e.apply /\ c.dirty = e.dirty /\ c.load = e.load
      /\ c.context = live.config.context /\ e.context = replay.config.context
      /\ Careful(c)
  BY <1>2, <1>3, BeforeCommand DEF Agree, Careful, Config, ConfigOver
<1>8. c.context = IF e.context = Inherit THEN options.context ELSE e.context
  BY <1>2, <1>7, BeforeCommand DEF Agree, HintsOf
<1>9. text' \in Text
  BY <1>1, <1>2, BeforeCommand DEF Text
<1>. QED  BY <1>1, <1>2, <1>4, <1>5, <1>6, <1>7, <1>8, <1>9, Configured

\* Selecting the profile p, or none, with the configuration c that results.
LEMMA ProfileChange ==
    ASSUME IInv, NEW c \in Config, Handle([live EXCEPT !.config = c], OnAgentProfile(replay, c)),
           UNCHANGED saved, text' \in Text,
           c.apply = live.config.apply, c.dirty = live.config.dirty,
           c.load = live.config.load, live.config.context \subseteq c.context
    PROVE  IInv'
<1> DEFINE e == [replay.config EXCEPT !.settings = c.settings, !.profile = c.profile,
                                      !.context = OrElse(c.context, @)]
<1>1. pc = "ready"
  BY DEF Handle
<1>2. live.config \in Config /\ replay.config \in ConfigOver((SUBSET Path) \cup {Inherit})
  BY <1>1, BeforeCommand
<1>3. /\ live.config.context \in SUBSET Path /\ c.context \in SUBSET Path
      /\ c.settings \in [Setting -> Value] /\ c.profile \in Profile \cup {NoProfile}
      /\ replay.config.context \in (SUBSET Path) \cup {Inherit}
  BY <1>2 DEF Config, ConfigOver
<1>4. OrElse(c.context, replay.config.context) \in (SUBSET Path) \cup {Inherit}
  BY <1>3 DEF OrElse
<1>5. e \in ConfigOver((SUBSET Path) \cup {Inherit})
  BY <1>2, <1>3, <1>4 DEF ConfigOver
<1>6. OnAgentProfile(replay, c) = [replay EXCEPT !.config = e]
  BY <1>1, BeforeCommand DEF OnAgentProfile, Replay, SessionOver
<1>7. /\ e.settings = c.settings /\ e.profile = c.profile
      /\ e.apply = replay.config.apply /\ e.dirty = replay.config.dirty
      /\ e.load = replay.config.load
      /\ e.context = OrElse(c.context, replay.config.context)
  BY <1>2 DEF ConfigOver
<1>8. c.context = IF e.context = Inherit THEN options.context ELSE e.context
  <2>1. CASE c.context = {}
    <3>1. live.config.context = {} /\ e.context = replay.config.context
      BY <2>1, <1>7 DEF OrElse
    <3>. QED  BY <2>1, <3>1, <1>1, BeforeCommand DEF Agree, HintsOf
  <2>2. CASE c.context # {}
    BY <2>2, <1>3, <1>7, InheritIsNoHint DEF OrElse
  <2>. QED  BY <2>1, <2>2
<1>9. c.apply = e.apply /\ c.dirty = e.dirty /\ c.load = e.load /\ Careful(c)
  BY <1>1, <1>7, BeforeCommand DEF Agree, Careful
<1>. QED  BY <1>1, <1>5, <1>6, <1>7, <1>8, <1>9, Configured

LEMMA SelectProfileStep ==
    ASSUME IInv, NEW p \in Profile, SelectProfile(p)
    PROVE  IInv'
<1> DEFINE c == WithProfile(live.config, p)
<1>1. /\ Handle([live EXCEPT !.config = c], OnAgentProfile(replay, c))
      /\ text' = [text EXCEPT !.profile = p] /\ UNCHANGED saved
  BY DEF SelectProfile
<1>2. pc = "ready"
  BY <1>1 DEF Handle
<1>3. live.config \in Config
  BY <1>2, BeforeCommand
<1>4. /\ Offers[p].context \in SUBSET Path
      /\ \A x \in Setting : Offers[p].settings[x] \in Value \cup {Keep}
  BY ChatAssumption
<1>5. c \in Config
  BY <1>3, <1>4 DEF WithProfile, Config, ConfigOver
<1>6. /\ c.apply = live.config.apply /\ c.dirty = live.config.dirty
      /\ c.load = live.config.load /\ live.config.context \subseteq c.context
  BY <1>3 DEF WithProfile, Config, ConfigOver
<1>7. text' \in Text
  BY <1>1, <1>2, BeforeCommand DEF Text
<1>. QED  BY <1>1, <1>5, <1>6, <1>7, ProfileChange

LEMMA ClearProfileStep == ASSUME IInv, ClearProfile PROVE IInv'
<1> DEFINE c == [live.config EXCEPT !.profile = NoProfile]
<1>1. /\ Handle([live EXCEPT !.config = c], OnAgentProfile(replay, c))
      /\ text' = [text EXCEPT !.profile = NoProfile] /\ UNCHANGED saved
  BY DEF ClearProfile
<1>2. pc = "ready"
  BY <1>1 DEF Handle
<1>3. live.config \in Config
  BY <1>2, BeforeCommand
<1>4. c \in Config
  BY <1>3 DEF Config, ConfigOver
<1>5. /\ c.apply = live.config.apply /\ c.dirty = live.config.dirty
      /\ c.load = live.config.load /\ live.config.context \subseteq c.context
  BY <1>3 DEF Config, ConfigOver
<1>6. text' \in Text
  BY <1>1, <1>2, BeforeCommand DEF Text
<1>. QED  BY <1>1, <1>4, <1>5, <1>6, ProfileChange

-----------------------------------------------------------------------------
(* Checkpoints *)

LEMMA CheckpointStep ==
    ASSUME IInv, NEW l \in Label, Checkpoint(l)
    PROVE  IInv'
<1>1. /\ pc = "ready" /\ UNCHANGED <<pc, process, runs, replay>>
      /\ saved' = [k \in DOMAIN saved \cup {l} |-> IF k = l THEN live ELSE saved[k]]
  BY DEF Checkpoint
<1>2. TypeOK /\ DirtyNeedsApply
  BY DEF IInv
<1>3. /\ DOMAIN saved' \subseteq Label
      /\ \A k \in DOMAIN saved' : saved'[k] = live \/ (k \in DOMAIN saved /\ saved'[k] = saved[k])
  BY <1>1, <1>2 DEF TypeOK
<1>4. TypeOK'
  <2>1. \A k \in DOMAIN saved' : saved'[k] \in Session
    BY <1>1, <1>2, <1>3, BeforeCommand DEF TypeOK
  <2>. QED  BY <1>1, <1>2, <1>3, <2>1 DEF TypeOK, process
<1>5. Agree(live, replay)'
  BY <1>1, BeforeCommand DEF Agree, HintsOf, process
<1>6. StartedIsNotPending' /\ TaskInHand'
  BY <1>1 DEF StartedIsNotPending, TaskInHand
<1>7. DirtyNeedsApply'
  BY <1>1, <1>2, <1>3 DEF DirtyNeedsApply, process
<1>. QED  BY <1>4, <1>5, <1>6, <1>7 DEF IInv

LEMMA RestoreStep ==
    ASSUME IInv, NEW l \in Label, Restore(l)
    PROVE  IInv'
<1> DEFINE old == saved[l]
           c == [old.config EXCEPT !.context = OrElse(@, live.config.context)]
           e == [old.config EXCEPT !.context = OrElse(@, replay.config.context)]
<1>1. /\ l \in DOMAIN saved
      /\ Handle(Restored(l), OnRestore(replay, old))
      /\ UNCHANGED <<text, saved>>
  BY DEF Restore
<1>2. pc = "ready"
  BY <1>1 DEF Handle
<1>3. old \in Session /\ Careful(old.config)
  BY <1>1 DEF IInv, TypeOK, DirtyNeedsApply, Careful
<1>4. old.config \in Config /\ live.config \in Config
         /\ replay.config \in ConfigOver((SUBSET Path) \cup {Inherit})
  BY <1>2, <1>3, BeforeCommand DEF Session, SessionOver
<1>5. /\ old.config.context \in SUBSET Path /\ live.config.context \in SUBSET Path
      /\ replay.config.context \in (SUBSET Path) \cup {Inherit}
  BY <1>4 DEF Config, ConfigOver
<1>6. /\ OrElse(old.config.context, live.config.context) \in SUBSET Path
      /\ OrElse(old.config.context, replay.config.context) \in (SUBSET Path) \cup {Inherit}
  BY <1>5 DEF OrElse
<1>7. c \in Config /\ e \in ConfigOver((SUBSET Path) \cup {Inherit})
  BY <1>4, <1>6 DEF Config, ConfigOver
<1>8. /\ Restored(l) = [old EXCEPT !.config = c]
      /\ OnRestore(replay, old) = [old EXCEPT !.config = e]
  BY <1>3 DEF Restored, OnRestore, Session, SessionOver
<1>9. [old EXCEPT !.config = c] \in Session /\ [old EXCEPT !.config = e] \in Replay
  BY <1>3, <1>7 DEF Session, Replay, SessionOver
<1>10. /\ c.settings = e.settings /\ c.profile = e.profile /\ c.load = e.load
       /\ c.apply = e.apply /\ c.dirty = e.dirty /\ Careful(c)
       /\ c.context = OrElse(old.config.context, live.config.context)
       /\ e.context = OrElse(old.config.context, replay.config.context)
  BY <1>3, <1>4 DEF Careful, Config, ConfigOver
<1>11. c.context = IF e.context = Inherit THEN options.context ELSE e.context
  <2>1. CASE old.config.context = {}
    BY <2>1, <1>2, <1>10, BeforeCommand DEF OrElse, Agree, HintsOf
  <2>2. CASE old.config.context # {}
    BY <2>2, <1>5, <1>10, InheritIsNoHint DEF OrElse
  <2>. QED  BY <2>1, <2>2
<1>12. /\ [old EXCEPT !.config = c].config = c
       /\ [old EXCEPT !.config = e].config = e
  BY <1>3 DEF Session, SessionOver
<1>13. Agree([old EXCEPT !.config = c], [old EXCEPT !.config = e])
  BY <1>3, <1>10, <1>11, <1>12 DEF Agree, HintsOf, Session, SessionOver
<1>14. text' \in Text
  BY <1>1, <1>2, BeforeCommand
<1>. QED  BY <1>1, <1>8, <1>9, <1>10, <1>12, <1>13, <1>14, Handled

-----------------------------------------------------------------------------
(* Tasks *)

LEMMA BeforeTask ==
    ASSUME IInv, Alive
    PROVE  /\ TypeOK /\ Agree(live, replay) /\ DirtyNeedsApply
           /\ live \in Session /\ replay \in Replay /\ text \in Text
           /\ inhand.task \in Task \cup {NoTask}
BY DEF IInv, TypeOK

LEMMA SubmitStep ==
    ASSUME IInv, NEW t \in Task, InitialPrompt(t) \/ PlainTextRuns(t) \/ RunCommand(t)
    PROVE  IInv'
<1>1. PICK from \in {"prompt", "text", "command"} :
          /\ Submit(t, from)
          /\ pc \in {"greeting", "ready"}
          /\ UNCHANGED <<live, replay>>
  BY DEF InitialPrompt, PlainTextRuns, RunCommand
<1>2. /\ pc' = "submitted" /\ inhand' = [task |-> t, from |-> from]
      /\ UNCHANGED <<text, options, runs, saved, live, replay>>
  BY <1>1 DEF Submit
<1>3. Alive
  BY <1>1 DEF Alive
<1>4. TypeOK'
  BY <1>2, <1>3, BeforeTask DEF TypeOK, Origin
<1>5. Agree(live, replay)'
  BY <1>2, <1>3, BeforeTask DEF Agree, HintsOf
<1>6. StartedIsNotPending' /\ TaskInHand'
  BY <1>2 DEF StartedIsNotPending, TaskInHand
<1>7. DirtyNeedsApply'
  BY <1>2, <1>3, BeforeTask DEF DirtyNeedsApply
<1>. QED  BY <1>4, <1>5, <1>6, <1>7 DEF IInv

LEMMA ApprovePlannedStep == ASSUME IInv, ApprovePlanned PROVE IInv'
<1> DEFINE s == [live EXCEPT !.pending = NoTask]
           d == [replay EXCEPT !.pending = NoTask]
<1>1. /\ pc = "ready" /\ live.pending # NoTask
      /\ pc' = "submitted" /\ inhand' = [task |-> live.pending, from |-> "approval"]
      /\ live' = s /\ replay' = d
      /\ UNCHANGED <<text, options, runs, saved>>
  BY DEF ApprovePlanned, Submit, Commit, OnPlanModeResolved
<1>2. TypeOK /\ Agree(live, replay) /\ DirtyNeedsApply /\ live \in Session /\ replay \in Replay
  BY <1>1, BeforeTask DEF Alive
<1>3. s \in Session /\ d \in Replay
  BY <1>2, FieldType DEF Session, Replay
<1>4. live.pending \in Task
  BY <1>1, <1>2 DEF Session, SessionOver
<1>5. TypeOK'
  BY <1>1, <1>2, <1>3, <1>4 DEF TypeOK, Origin
<1>6. Agree(s, d)
  BY <1>2 DEF Agree, HintsOf, Session, Replay, SessionOver
<1>7. Agree(live, replay)'
  BY <1>1, <1>6 DEF Agree, HintsOf
<1>8. s.pending = NoTask /\ d.pending = NoTask /\ s.config = live.config /\ d.config = replay.config
  BY <1>2 DEF Session, Replay, SessionOver
<1>9. StartedIsNotPending' /\ TaskInHand'
  BY <1>1, <1>4, <1>8 DEF StartedIsNotPending, TaskInHand
<1>10. DirtyNeedsApply'
  BY <1>1, <1>2, <1>8 DEF DirtyNeedsApply
<1>. QED  BY <1>5, <1>7, <1>9, <1>10 DEF IInv

LEMMA GiveUpStep == ASSUME IInv, HookBlocks \/ TaskFails PROVE IInv'
<1>1. /\ pc \in {"submitted", "running"} /\ pc' = "ready" /\ inhand' = NoInhand
      /\ UNCHANGED <<live, text, options, runs, replay, saved>>
  BY DEF HookBlocks, TaskFails
<1>2. TypeOK /\ Agree(live, replay) /\ DirtyNeedsApply
  BY <1>1, BeforeTask DEF Alive
<1>3. TypeOK'
  BY <1>1, <1>2 DEF TypeOK, NoInhand, Origin
<1>4. Agree(live, replay)'
  BY <1>1, <1>2 DEF Agree, HintsOf
<1>5. StartedIsNotPending' /\ TaskInHand' /\ DirtyNeedsApply'
  BY <1>1, <1>2 DEF StartedIsNotPending, TaskInHand, DirtyNeedsApply
<1>. QED  BY <1>3, <1>4, <1>5 DEF IInv

LEMMA StartTaskStep == ASSUME IInv, StartTask PROVE IInv'
<1> DEFINE s == [live EXCEPT !.history = Append(@, inhand.task), !.pending = NoTask]
           d == [replay EXCEPT !.history = Append(@, inhand.task), !.pending = NoTask]
<1>1. /\ pc = "submitted" /\ pc' = "running" /\ live' = s /\ replay' = d
      /\ UNCHANGED <<text, inhand, options, runs, saved>>
  BY DEF StartTask, Commit, OnUserTask
<1>2. TypeOK /\ Agree(live, replay) /\ DirtyNeedsApply /\ live \in Session /\ replay \in Replay
  BY <1>1, BeforeTask DEF Alive
<1>3. inhand.task \in Task
  BY <1>1 DEF IInv, TaskInHand
<1>4. s \in Session /\ d \in Replay
  BY <1>2, <1>3, TaskType DEF Session, Replay
<1>5. TypeOK'
  BY <1>1, <1>2, <1>4 DEF TypeOK
<1>6. live.history = replay.history
  BY <1>2 DEF Agree
<1>7. Append(live.history, inhand.task) = Append(replay.history, inhand.task)
  BY <1>6
<1>8. Agree(s, d)
  BY <1>2, <1>7 DEF Agree, HintsOf, Session, Replay, SessionOver
<1>9. Agree(live, replay)'
  BY <1>1, <1>8 DEF Agree, HintsOf
<1>10. s.pending = NoTask /\ d.pending = NoTask /\ s.config = live.config /\ d.config = replay.config
  BY <1>2 DEF Session, Replay, SessionOver
<1>11. StartedIsNotPending' /\ TaskInHand'
  BY <1>1, <1>3, <1>10 DEF StartedIsNotPending, TaskInHand
<1>12. DirtyNeedsApply'
  BY <1>1, <1>2, <1>10 DEF DirtyNeedsApply
<1>. QED  BY <1>5, <1>9, <1>11, <1>12 DEF IInv

LEMMA FinishRunStep == ASSUME IInv, FinishRun PROVE IInv'
<1> DEFINE s == [live EXCEPT !.run = runs + 1, !.applied = 0]
           d == [replay EXCEPT !.run = runs + 1]
<1>1. /\ pc = "running" /\ pc' = "ready" /\ runs' = runs + 1 /\ inhand' = NoInhand
      /\ live' = s /\ replay' = d
      /\ UNCHANGED <<text, options, saved>>
  BY DEF FinishRun, Commit, OnRunResult
<1>2. TypeOK /\ Agree(live, replay) /\ DirtyNeedsApply /\ live \in Session /\ replay \in Replay
  BY <1>1, BeforeTask DEF Alive
<1>3. runs + 1 \in Nat
  BY <1>2 DEF TypeOK
<1>4. s \in Session /\ d \in Replay
  BY <1>2, <1>3, FieldType DEF Session, Replay
<1>5. TypeOK'
  BY <1>1, <1>2, <1>3, <1>4 DEF TypeOK, NoInhand, Origin
<1>6. Agree(s, d)
  BY <1>2 DEF Agree, HintsOf, Session, Replay, SessionOver
<1>7. Agree(live, replay)'
  BY <1>1, <1>6 DEF Agree, HintsOf
<1>8. s.config = live.config /\ d.config = replay.config
  BY <1>2 DEF Session, Replay, SessionOver
<1>9. StartedIsNotPending' /\ TaskInHand'
  BY <1>1 DEF StartedIsNotPending, TaskInHand
<1>10. DirtyNeedsApply'
  BY <1>1, <1>2, <1>8 DEF DirtyNeedsApply
<1>. QED  BY <1>5, <1>7, <1>9, <1>10 DEF IInv

-----------------------------------------------------------------------------
(* The life of the process *)

LEMMA InitEstablishes == Init => IInv
<1> SUFFICES ASSUME Init PROVE IInv
  OBVIOUS
<1>1. options \in Config /\ Careful(options)
  BY OptionType DEF Init
<1>2. options \in ConfigOver((SUBSET Path) \cup {Inherit})
  BY <1>1 DEF Config, ConfigOver
<1>3. Fresh(options) \in Session /\ Fresh(options) \in Replay
  BY <1>1, <1>2, FreshType DEF Session, Replay
<1>4. DOMAIN saved = {}
  BY DEF Init
<1>5. TypeOK
  BY <1>3, <1>4 DEF Init, TypeOK, NoText, Text, NoInhand, Origin
<1>6. StartedIsNotPending /\ TaskInHand /\ ~Alive
  BY DEF Init, StartedIsNotPending, TaskInHand, Alive
<1>7. DirtyNeedsApply
  BY <1>1, <1>4 DEF Init, DirtyNeedsApply, Careful, Fresh
<1>. QED  BY <1>5, <1>6, <1>7 DEF IInv

LEMMA StartStep == ASSUME IInv, Start PROVE IInv'
<1> DEFINE s == Fresh(options)
           e == [options EXCEPT !.context = OrElse(@, Inherit)]
           d == Fresh(e)
<1>1. /\ pc = "new" /\ pc' = "greeting" /\ live' = s /\ replay' = d
      /\ text' = [profile |-> options.profile, project |-> options.load]
      /\ UNCHANGED <<inhand, options, runs, saved>>
  BY DEF Start, Commit, OnSessionStart
<1>2. TypeOK /\ DirtyNeedsApply
  BY DEF IInv
<1>3. options \in Config /\ Careful(options)
  BY <1>2, OptionType DEF TypeOK
<1>4. /\ options.context \in SUBSET Path
      /\ options.profile \in Profile \cup {NoProfile} /\ options.load \in BOOLEAN
  BY <1>3 DEF Config, ConfigOver
<1>5. OrElse(options.context, Inherit) \in (SUBSET Path) \cup {Inherit}
  BY <1>4 DEF OrElse
<1>6. e \in ConfigOver((SUBSET Path) \cup {Inherit})
  BY <1>3, <1>5 DEF Config, ConfigOver
<1>7. s \in Session /\ d \in Replay
  BY <1>3, <1>6, FreshType DEF Session, Replay
<1>8. TypeOK'
  BY <1>1, <1>2, <1>4, <1>7 DEF TypeOK, Text
<1>9. /\ e.settings = options.settings /\ e.profile = options.profile
      /\ e.apply = options.apply /\ e.dirty = options.dirty /\ e.load = options.load
      /\ e.context = OrElse(options.context, Inherit)
  BY <1>3 DEF Config, ConfigOver
<1>10. options.context = IF e.context = Inherit THEN options.context ELSE e.context
  BY <1>9 DEF OrElse
<1>11. Agree(s, d)
  BY <1>9, <1>10 DEF Agree, HintsOf, Fresh
<1>12. Agree(live, replay)'
  BY <1>1, <1>11 DEF Agree, HintsOf
<1>13. StartedIsNotPending' /\ TaskInHand'
  BY <1>1 DEF StartedIsNotPending, TaskInHand
<1>14. s.config = options /\ d.config = e
  BY DEF Fresh
<1>15. DirtyNeedsApply'
  <2>1. Careful(s.config) /\ Careful(d.config)
    BY <1>3, <1>9, <1>14 DEF Careful
  <2>2. \A l \in DOMAIN saved : Careful(saved[l].config)
    BY <1>2 DEF DirtyNeedsApply, Careful
  <2>. HIDE DEF s, d
  <2>. QED  BY <1>1, <2>1, <2>2 DEF DirtyNeedsApply, Careful
<1>. QED  BY <1>8, <1>12, <1>13, <1>15 DEF IInv

LEMMA ResumeStep ==
    ASSUME IInv, NEW c \in Options, Resume(c)
    PROVE  IInv'
<1> DEFINE e == [replay.config EXCEPT !.context = IF @ = Inherit THEN c.context ELSE @]
           s == [replay EXCEPT !.config = e]
<1>1. /\ pc = "down" /\ pc' = "greeting" /\ options' = c /\ live' = Resumed(c)
      /\ text' = [profile |-> IF c.profile # NoProfile THEN c.profile
                              ELSE replay.config.profile,
                  project |-> c.load \/ replay.config.load]
      /\ UNCHANGED <<inhand, runs, replay, saved>>
  BY DEF Resume
<1>2. TypeOK /\ DirtyNeedsApply
  BY DEF IInv
<1>3. replay \in Replay /\ replay.config \in ConfigOver((SUBSET Path) \cup {Inherit})
  BY <1>2 DEF TypeOK, Replay, SessionOver
<1>4. c \in Config
  BY OptionType
<1>5. /\ c.context \in SUBSET Path /\ replay.config.context \in (SUBSET Path) \cup {Inherit}
      /\ c.profile \in Profile \cup {NoProfile} /\ replay.config.profile \in Profile \cup {NoProfile}
      /\ c.load \in BOOLEAN /\ replay.config.load \in BOOLEAN
  BY <1>3, <1>4 DEF Config, ConfigOver
<1>6. e \in Config
  BY <1>3, <1>5 DEF Config, ConfigOver
<1>7. Resumed(c) = s
  BY <1>3 DEF Resumed, Replay, SessionOver
<1>8. s \in Session
  BY <1>3, <1>6 DEF Session, Replay, SessionOver
<1>9. text' \in Text
  BY <1>1, <1>5 DEF Text
<1>10. TypeOK'
  BY <1>1, <1>2, <1>7, <1>8, <1>9 DEF TypeOK
<1>11. /\ s.config = e
       /\ e.settings = replay.config.settings /\ e.profile = replay.config.profile
       /\ e.apply = replay.config.apply /\ e.dirty = replay.config.dirty
       /\ e.load = replay.config.load
       /\ e.context = IF replay.config.context = Inherit THEN c.context ELSE replay.config.context
  BY <1>3 DEF Replay, SessionOver, ConfigOver
<1>12. /\ s.mode = replay.mode /\ s.pending = replay.pending /\ s.history = replay.history
       /\ s.run = replay.run /\ s.applied = replay.applied /\ s.rewound = replay.rewound
       /\ s.plan = replay.plan /\ s.feedback = replay.feedback /\ s.summary = replay.summary
  BY <1>3 DEF Replay, SessionOver
<1>13. Agree(live, replay)'
  BY <1>1, <1>7, <1>11, <1>12 DEF Agree, HintsOf
<1>14. StartedIsNotPending' /\ TaskInHand'
  BY <1>1 DEF StartedIsNotPending, TaskInHand
<1>15. DirtyNeedsApply'
  <2>1. Careful(replay.config) /\ \A l \in DOMAIN saved : Careful(saved[l].config)
    BY <1>2 DEF DirtyNeedsApply, Careful
  <2>2. live'.config.apply = replay.config.apply /\ live'.config.dirty = replay.config.dirty
    BY <1>1, <1>7, <1>11
  <2>. QED  BY <1>1, <2>1, <2>2 DEF DirtyNeedsApply, Careful
<1>. QED  BY <1>10, <1>13, <1>14, <1>15 DEF IInv

LEMMA DownStep == ASSUME IInv, Exit \/ Kill PROVE IInv'
<1>1. /\ pc' = "down" /\ live' = Fresh(options) /\ text' = NoText /\ inhand' = NoInhand
      /\ UNCHANGED <<options, runs, replay, saved>>
  BY DEF Exit, Kill, Down
<1>2. TypeOK /\ DirtyNeedsApply
  BY DEF IInv
<1>3. options \in Config /\ Careful(options)
  BY <1>2, OptionType DEF TypeOK
<1>4. Fresh(options) \in Session
  BY <1>3, FreshType DEF Session
<1>5. TypeOK'
  BY <1>1, <1>2, <1>4 DEF TypeOK, NoText, Text, NoInhand, Origin
<1>6. ~Alive' /\ StartedIsNotPending' /\ TaskInHand'
  BY <1>1 DEF Alive, StartedIsNotPending, TaskInHand
<1>7. Fresh(options).config = options
  BY DEF Fresh
<1>8. DirtyNeedsApply'
  BY <1>1, <1>2, <1>3, <1>7 DEF DirtyNeedsApply, Careful
<1>. QED  BY <1>5, <1>6, <1>8 DEF IInv

LEMMA GreetStep == ASSUME IInv, Greet PROVE IInv'
<1>1. pc = "greeting" /\ pc' = "ready" /\ UNCHANGED <<process, runs, replay, saved>>
  BY DEF Greet
<1>2. TypeOK /\ Agree(live, replay) /\ DirtyNeedsApply
  BY <1>1, BeforeTask DEF Alive
<1>3. TypeOK'
  BY <1>1, <1>2 DEF TypeOK, process
<1>4. Agree(live, replay)'
  BY <1>1, <1>2 DEF Agree, HintsOf, process
<1>5. StartedIsNotPending' /\ TaskInHand' /\ DirtyNeedsApply'
  BY <1>1, <1>2 DEF StartedIsNotPending, TaskInHand, DirtyNeedsApply, process
<1>. QED  BY <1>3, <1>4, <1>5 DEF IInv

LEMMA StutterStep == ASSUME IInv, UNCHANGED vars PROVE IInv'
<1>1. TypeOK' /\ TaskInHand' /\ StartedIsNotPending' /\ DirtyNeedsApply'
  BY DEF IInv, vars, process, TypeOK, TaskInHand, StartedIsNotPending, DirtyNeedsApply
<1>2. (Alive => Agree(live, replay))'
  BY DEF IInv, vars, process, Alive, Agree, HintsOf
<1>. QED  BY <1>1, <1>2 DEF IInv

LEMMA NextPreserves == IInv /\ [Next]_vars => IInv'
<1> SUFFICES ASSUME IInv, [Next]_vars PROVE IInv'
  OBVIOUS
<1>1. CASE Start \/ (\E c \in Options : Resume(c)) \/ Exit \/ Kill \/ Greet
  BY <1>1, StartStep, ResumeStep, DownStep, GreetStep
<1>2. CASE TaskStep
  BY <1>2, SubmitStep, ApprovePlannedStep, GiveUpStep, StartTaskStep, FinishRunStep DEF TaskStep
<1>3. CASE SessionCommand
  BY <1>3, PendingStep, ModeStep, ClearStep, CompactStep, PlanStep, FeedbackStep, ResultStep,
     CheckpointStep, RestoreStep DEF SessionCommand
<1>4. CASE ConfigCommand
  BY <1>4, ContextStep, SetStep, PermissionsStep, SelectProfileStep, ClearProfileStep,
     InstructionsStep DEF ConfigCommand
<1>5. CASE UNCHANGED vars
  BY <1>5, StutterStep
<1>. QED  BY <1>1, <1>2, <1>3, <1>4, <1>5 DEF Next

LEMMA Invariance == Spec => []IInv
BY InitEstablishes, NextPreserves, PTL DEF Spec

-----------------------------------------------------------------------------
(* Theorems *)

\* The session, its replay and its checkpoints keep their types: every replay
\* handler leaves the accumulator something a resume can start from.
THEOREM TypeCorrect == Spec => []TypeOK
<1>1. IInv => TypeOK
  BY DEF IInv
<1>. QED  BY <1>1, Invariance, PTL

\* Field by field, what a resume rebuilds is the live session.
LEMMA AgreeIsEquality ==
    ASSUME IInv, Alive
    PROVE  Core(live) = Core(Resumed(options)) /\ live.applied \in {0, replay.applied}
<1> DEFINE e == [replay.config EXCEPT !.context = IF @ = Inherit THEN options.context ELSE @]
<1>1. /\ Agree(live, replay) /\ live \in Session /\ replay \in Replay
  BY BeforeTask
<1>2. /\ live.config \in Config
      /\ replay.config \in ConfigOver((SUBSET Path) \cup {Inherit})
  BY <1>1 DEF Session, Replay, SessionOver
<1>3. Resumed(options) = [replay EXCEPT !.config = e]
  BY <1>1 DEF Resumed, Replay, SessionOver
<1>4. live.config = e
  BY <1>1, <1>2 DEF Agree, HintsOf, Config, ConfigOver
<1>5. [live EXCEPT !.applied = 0] = [[replay EXCEPT !.config = e] EXCEPT !.applied = 0]
  BY <1>1, <1>4 DEF Agree, Session, Replay, SessionOver
<1>. QED  BY <1>1, <1>3, <1>5 DEF Core, Agree

\* After any commands, checkpoints, kills and resumes, a resume with the same
\* command line rebuilds the session the handlers left (chat/session_resume.py).
THEOREM ResumeRebuilds == Spec => []ResumeAgrees
<1>1. IInv => ResumeAgrees
  BY AgreeIsEquality DEF ResumeAgrees
<1>. QED  BY <1>1, Invariance, PTL

\* A task that has begun, or whose approval is on record, is pending no more,
\* in memory and in the transcript (handle_run_command, run_chat_task).
THEOREM ApprovalIsSpent == Spec => []StartedIsNotPending
<1>1. IInv => StartedIsNotPending
  BY DEF IInv
<1>. QED  BY <1>1, Invariance, PTL

\* Dirty trees are accepted only under automatic apply, in the session, its
\* replay and its checkpoints (chat/handlers/permissions.py).
THEOREM DirtyIsDeliberate == Spec => []DirtyNeedsApply
<1>1. IInv => DirtyNeedsApply
  BY DEF IInv
<1>. QED  BY <1>1, Invariance, PTL
=============================================================================
