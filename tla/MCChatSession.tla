--------------------------- MODULE MCChatSession ----------------------------
(***************************************************************************)
(* ChatSession for TLC.  TasksOrSettings keeps the two halves of a session *)
(* apart: tasks and checkpoints, or a configuration that changes.          *)
(***************************************************************************)
EXTENDS ChatSession

CONSTANTS t, a, p, q, override

\* The profile brings a hint and a model, and leaves the budget alone.
AgentOffers == [x \in {a} |-> [settings |-> [model |-> override, budget |-> Keep],
                               context |-> {q}]]

Plain == [settings |-> [s \in Setting |-> CHOOSE v \in Value : v # override],
          context |-> {}, apply |-> FALSE, dirty |-> FALSE,
          profile |-> NoProfile, load |-> TRUE]

\* Bare, with a hint, and with the profile.
SomeOptions == {Plain, [Plain EXCEPT !.context = {p}], WithProfile(Plain, a)}

\* The project's instructions stay loaded, and the lists stay empty.
Brief(s) == s.config.load /\ s.plan = Nothing /\ s.feedback = Nothing

\* No setting, hint or profile is other than at the start.
Unset(s) ==
    /\ s.config.settings = Plain.settings
    /\ s.config.context \in {{}, Inherit}
    /\ s.config.profile = NoProfile

\* No task is given.
Untasked(s) ==
    /\ s.history = <<>>
    /\ s.pending = NoTask
    /\ s.mode = "act"
    /\ inhand = NoInhand

\* Steps are taken from such states only: tasks with checkpoints, settings
\* with checkpoints, or settings and lists.
TasksOrSettings ==
    \/ options = Plain /\ \A s \in {live, replay} : Unset(s) /\ Brief(s)
    \/ options = Plain /\ \A s \in {live, replay} : Untasked(s) /\ Brief(s) /\ ~s.config.apply
    \/ saved = <<>> /\ \A s \in {live, replay} : Untasked(s)
=============================================================================
