----------------------------- MODULE ApplyGate ------------------------------
(***************************************************************************)
(* The apply gate of a chat session (chat/handlers/diff_apply.py,          *)
(* agent_apply.py, agent_diff.py): the diff of the last run reaches the    *)
(* user's working tree only through /diff review, /apply check, /approve   *)
(* and /apply, and what was reviewed, checked, approved or rejected is     *)
(* kept nowhere but in the session's append-only transcript.               *)
(*                                                                         *)
(* `log' holds the transcript events that the gate or a resume reads or    *)
(* that report a change of the tree; the others, the result of a refused   *)
(* apply among them, change none of this.  Two abstractions of git: a      *)
(* check, an apply or a reverse may be refused at any time (not a          *)
(* repository, a dirty tree, a hunk that does not match the user's own     *)
(* edits), and the tree is the set of diffs whose last successful git      *)
(* operation by the session put them in.  A git operation and the event    *)
(* that records it are two steps: the process can die between them.        *)
(***************************************************************************)
EXTENDS Integers, Sequences, FiniteSets

CONSTANTS Run,         \* the repair runs; a run stands for its final.diff
          NoRun,       \* "no run is available", and "nothing in flight"
          MaxEvents,   \* bound: transcript length
          MaxCrashes   \* bound: process deaths

ASSUME GateAssumption ==
    /\ NoRun \notin Run
    /\ MaxEvents \in Nat
    /\ MaxCrashes \in Nat

VARIABLES log,        \* the transcript
          last,       \* AgentChatRuntime.last_run / last_run_payload
          file,       \* final.diff of each run, as /diff review grades it
          tree,       \* the diffs in the working tree
          inflight,   \* the git result not yet recorded, or NoRun
          up,         \* the chat process is running
          crashes     \* process deaths so far

vars == <<log, last, file, tree, inflight, up, crashes>>

\* "void": empty, deleted, or the run has not happened.
Grade == {"void", "plain", "risky"}

EventName == {"run_result", "diff_review", "apply_check_result", "apply_approval",
              "apply_rejection", "apply_result", "rewind_result",
              "session_restore", "session_clear"}

\* What the gate tells apart in a payload: a review that needs no approval
\* from one that does, a git operation that went through from one refused.
Mark == {"none", "plain", "guarded", "ok", "refused"}

Event == [event : EventName, diff : Run \cup {NoRun}, mark : Mark]

\* Nothing in flight is no event.
ASSUME InflightAssumption == NoRun \notin Event

Entry(event, d, mark) == [event |-> event, diff |-> d, mark |-> mark]

Init ==
    /\ log = <<>>
    /\ last = NoRun
    /\ file = [d \in Run |-> "void"]
    /\ tree = {}
    /\ inflight = NoRun
    /\ up = TRUE
    /\ crashes = 0

-----------------------------------------------------------------------------
(* Reading the transcript *)

Positions(s, W) == {i \in 1..Len(s) : s[i] \in W}

\* The largest index of a matching event; 0 stands for the code's -1.
Newest(S) == IF S = {} THEN 0 ELSE CHOOSE i \in S : \A j \in S : j <= i

Events(name, d) == {e \in Event : e.event = name /\ e.diff = d}

LatestRun(s) == Newest(Positions(s, {e \in Event : e.event = "run_result"}))

LatestOf(s, name, d) == Newest(Positions(s, Events(name, d)))

ReviewAt(s, d)   == LatestOf(s, "diff_review", d)
CheckAt(s, d)    == LatestOf(s, "apply_check_result", d)
ApprovalAt(s, d) == LatestOf(s, "apply_approval", d)
RejectedAt(s, d) == LatestOf(s, "apply_rejection", d)

\* Mutants: a check outlives a later review; any approval ever given is enough.
CheckedOnce(s, d)   == CheckAt(s, d) > 0
NeverApproved(s, d) == ApprovalAt(s, d) = 0

\* The prerequisites apply_guard and apply_decision_payload share.
Reviewed(s, d) == ReviewAt(s, d) >= LatestRun(s)
Checked(s, d)  == CheckAt(s, d) >= ReviewAt(s, d)
Ready(s, d)    == CheckAt(s, d) > 0 /\ s[CheckAt(s, d)].mark = "ok"

Prerequisites(s, d) == Reviewed(s, d) /\ Checked(s, d) /\ Ready(s, d)

Rejected(s, d) ==
    /\ RejectedAt(s, d) >= CheckAt(s, d)
    /\ RejectedAt(s, d) > ApprovalAt(s, d)

NeedsApproval(s, d) == ReviewAt(s, d) > 0 /\ s[ReviewAt(s, d)].mark = "guarded"

Unapproved(s, d) == ApprovalAt(s, d) < CheckAt(s, d)

\* apply_guard returns None.
GuardPasses(s, d) ==
    /\ Prerequisites(s, d)
    /\ ~Rejected(s, d)
    /\ NeedsApproval(s, d) => ~Unapproved(s, d)

\* The events that change the diff the commands act on, and the diff that
\* runtime_from_transcript makes current again.
Moves == {"run_result", "session_restore", "session_clear"}

LatestMove(s) == Newest(Positions(s, {e \in Event : e.event \in Moves}))

\* Mutant: the replay has no handler for session_clear.
ReplayedPastClear(s) ==
    LET at == Newest(Positions(s, {e \in Event : e.event \in Moves \ {"session_clear"}}))
    IN IF at = 0 THEN NoRun ELSE s[at].diff

ReplayedDiff(s) == IF LatestMove(s) = 0 THEN NoRun ELSE s[LatestMove(s)].diff

-----------------------------------------------------------------------------
(* The session *)

Idle == up /\ inflight = NoRun

\* record_chat_event; the bound is on the transcript's length.
Record(e) == Len(log) < MaxEvents /\ log' = Append(log, e)

\* run_chat_task up to its run_result: the worktree is never touched.
FinishRun(d) ==
    /\ Idle
    /\ file[d] = "void"
    /\ \A i \in 1..Len(log) : log[i].diff # d
    /\ \E grade \in Grade : file' = [file EXCEPT ![d] = grade]
    /\ last' = d
    /\ Record(Entry("run_result", d, "none"))
    /\ UNCHANGED <<tree, inflight, up, crashes>>

\* /diff review: a missing or empty diff also asks for confirmation.
ReviewDiff(d) ==
    /\ Idle
    /\ last = d
    /\ Record(Entry("diff_review", d, IF file[d] = "plain" THEN "plain" ELSE "guarded"))
    /\ UNCHANGED <<last, file, tree, inflight, up, crashes>>

HasHunks(d) == file[d] \in {"plain", "risky"}

\* /apply check: dry run, no guard.
CheckApply(d) ==
    /\ Idle
    /\ last = d
    /\ \/ HasHunks(d) /\ Record(Entry("apply_check_result", d, "ok"))
       \/ Record(Entry("apply_check_result", d, "refused"))
    /\ UNCHANGED <<last, file, tree, inflight, up, crashes>>

\* /approve apply and /reject apply.
Decide(d, name) ==
    /\ Idle
    /\ last = d
    /\ Prerequisites(log, d)
    /\ Record(Entry(name, d, "none"))
    /\ UNCHANGED <<last, file, tree, inflight, up, crashes>>

\* /apply: the guard, the PreApply hook, the same check again, git apply.
GitApply(d) ==
    /\ Idle
    /\ last = d
    /\ GuardPasses(log, d)
    /\ HasHunks(d)
    /\ tree' = tree \cup {d}
    /\ inflight' = Entry("apply_result", d, "ok")
    /\ UNCHANGED <<log, last, file, up, crashes>>

\* /rewind: no guard; git apply --reverse --check, then git apply --reverse.
GitReverse(d) ==
    /\ Idle
    /\ last = d
    /\ HasHunks(d)
    /\ tree' = tree \ {d}
    /\ inflight' = Entry("rewind_result", d, "ok")
    /\ UNCHANGED <<log, last, file, up, crashes>>

\* Mutant: only applications are recorded.
RecordApplyOnly ==
    /\ up
    /\ inflight # NoRun
    /\ IF inflight.event = "apply_result" THEN Record(inflight) ELSE UNCHANGED log
    /\ inflight' = NoRun
    /\ UNCHANGED <<last, file, tree, up, crashes>>

\* apply_result or rewind_result reaches the transcript.
RecordGitResult ==
    /\ up
    /\ inflight # NoRun
    /\ Record(inflight)
    /\ inflight' = NoRun
    /\ UNCHANGED <<last, file, tree, up, crashes>>

\* /restore of a checkpoint taken while `d' was current (or no run was).
RestoreCheckpoint(d) ==
    /\ Idle
    /\ d # NoRun => \E i \in 1..Len(log) : log[i] = Entry("run_result", d, "none")
    /\ last' = d
    /\ Record(Entry("session_restore", d, "none"))
    /\ UNCHANGED <<file, tree, inflight, up, crashes>>

\* /clear
ClearSession ==
    /\ Idle
    /\ last # NoRun
    /\ last' = NoRun
    /\ Record(Entry("session_clear", NoRun, "none"))
    /\ UNCHANGED <<file, tree, inflight, up, crashes>>

\* The process dies; what was not recorded is forgotten.
Crash ==
    /\ up
    /\ crashes < MaxCrashes
    /\ up' = FALSE
    /\ last' = NoRun
    /\ inflight' = NoRun
    /\ crashes' = crashes + 1
    /\ UNCHANGED <<log, file, tree>>

\* patchsmith agent chat --resume <session>
Resume ==
    /\ ~up
    /\ up' = TRUE
    /\ last' = ReplayedDiff(log)
    /\ UNCHANGED <<log, file, tree, inflight, crashes>>

\* Somebody removes the run's artifacts.
DeleteArtifacts(d) ==
    /\ file[d] # "void"
    /\ file' = [file EXCEPT ![d] = "void"]
    /\ UNCHANGED <<log, last, tree, inflight, up, crashes>>

Next ==
    \/ \E d \in Run :
          \/ FinishRun(d)
          \/ ReviewDiff(d)
          \/ CheckApply(d)
          \/ Decide(d, "apply_approval")
          \/ Decide(d, "apply_rejection")
          \/ GitApply(d)
          \/ GitReverse(d)
          \/ DeleteArtifacts(d)
    \/ RecordGitResult
    \/ \E d \in Run \cup {NoRun} : RestoreCheckpoint(d)
    \/ ClearSession
    \/ Crash
    \/ Resume

Spec == Init /\ [][Next]_vars

-----------------------------------------------------------------------------
(* Properties *)

TypeOK ==
    /\ log \in Seq(Event)
    /\ last \in Run \cup {NoRun}
    /\ file \in [Run -> Grade]
    /\ tree \subseteq Run
    /\ inflight \in Event \cup {NoRun}
    /\ up \in BOOLEAN
    /\ crashes \in Nat

\* The stage the transcript puts a diff at.
StageOf(s, d) ==
    IF ReviewAt(s, d) = 0 \/ ~Reviewed(s, d) THEN "unreviewed"
    ELSE IF ~Checked(s, d) THEN "reviewed"
    ELSE IF ~Ready(s, d) THEN "refused"
    ELSE IF Rejected(s, d) THEN "rejected"
    ELSE IF ApprovalAt(s, d) >= CheckAt(s, d) THEN "approved"
    ELSE "ready"

Gate == INSTANCE GateSpec
            WITH stage   <- [d \in Run |-> StageOf(log, d)],
                 guarded <- {d \in Run : NeedsApproval(log, d)},
                 target  <- last

\* Scanning the transcript implements the staged gate: whatever the order of
\* runs, reviews, checks, decisions, restores, crashes and resumes, a diff
\* reaches the tree only from a stage that authorises it (apply_guard).
ImplementsGate == Gate!Spec

\* A risky diff enters the tree only on an approval newer than every
\* rejection of it, than its last check and than the last run: for high-risk
\* diffs the latest human decision is the one that counts (apply_guard).
RiskyNeedsLastWord ==
    [][\A d \in tree' \ tree :
           file[d] = "risky" =>
               /\ ApprovalAt(log, d) > RejectedAt(log, d)
               /\ ApprovalAt(log, d) > CheckAt(log, d)
               /\ ApprovalAt(log, d) > LatestRun(log)]_vars

\* The README's promise for /reject apply: "/apply stays blocked until a
\* newer approval supersedes it".  apply_guard forgets a rejection older
\* than the last /apply check, so for a plain diff it does not hold.
RejectionHolds ==
    [][\A d \in tree' \ tree :
           RejectedAt(log, d) > 0 => ApprovalAt(log, d) > RejectedAt(log, d)]_vars

\* The commands act on the diff a resume would make current: /clear,
\* /restore and a run leave memory and transcript in agreement
\* (runtime_from_transcript).
ResumeAgrees == up => last = ReplayedDiff(log)

\* The diffs the transcript says are in the tree.
RecordedTree ==
    LET Through(d) == {e \in Event : /\ e.event \in {"apply_result", "rewind_result"}
                                     /\ e.diff = d
                                     /\ e.mark = "ok"}
        Touched(d) == Newest(Positions(log, Through(d)))
    IN {d \in Run : Touched(d) > 0 /\ log[Touched(d)].event = "apply_result"}

\* The transcript and the tree drift apart by at most one diff per death of
\* the process, plus the one whose result is about to be recorded
\* (handle_apply_command, handle_rewind_command: git first, record after).
TreeIsExplained ==
    Cardinality((tree \ RecordedTree) \cup (RecordedTree \ tree))
        <= crashes + (IF inflight = NoRun THEN 0 ELSE 1)
=============================================================================
