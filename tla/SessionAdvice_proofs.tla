------------------------ MODULE SessionAdvice_proofs ------------------------
(***************************************************************************)
(* Proofs about the apply gate and about the advice of a session, for any  *)
(* number of runs, events, process deaths and detours.                     *)
(*                                                                         *)
(* The gate: type correctness, that scanning the transcript implements the *)
(* staged gate of GateSpec, that a risky diff needs an approval as its     *)
(* last word, that a resumed session acts on the diff the live one acted   *)
(* on, and that transcript and tree drift apart by one diff per process    *)
(* death at most.                                                          *)
(*                                                                         *)
(* The advice: it agrees with the apply gate, /gate reviewed agrees with   *)
(* it too, an export is advised only of what was applied through the gate  *)
(* and verified after that, the same failure is not retried blindly, and   *)
(* the advice never goes round in circles.                                 *)
(*                                                                         *)
(* The guard reads the rows of one diff, the advice the newest row of each *)
(* kind: the proofs about the advice rest on CurrentDiff, by which the two *)
(* are the same rows from a run to the next /restore or /clear.            *)
(***************************************************************************)
EXTENDS SessionAdvice, FiniteSetTheorems, SequenceTheorems, TLAPS

\* `Newest' picks the largest position: every non-empty set of positions of
\* the transcript has one.
HasNewest(s) ==
    \A T \in SUBSET (1..Len(s)) : T # {} => \E i \in T : \A j \in T : j <= i

\* Whatever names a diff comes after some run: a target, a result in flight
\* and every row that carries a diff.
RunCameFirst ==
    /\ last # NoRun => LatestRun(log) > 0
    /\ inflight # NoRun => LatestRun(log) > 0
    /\ (\E i \in 1..Len(log) : log[i].diff # NoRun) => LatestRun(log) > 0

\* A risky diff was never reviewed as one that needs no approval.
RiskyIsGuarded ==
    \A i \in 1..Len(log) :
        log[i].event = "diff_review" /\ log[i].mark # "guarded"
            => log[i].diff \in Run /\ file[log[i].diff] # "risky"

\* What is in flight is a git result, so recording it moves no stage.
InflightIsGit ==
    inflight # NoRun => inflight.event \in {"apply_result", "rewind_result"}

IInv ==
    /\ TypeOK
    /\ HasNewest(log)
    /\ RunCameFirst
    /\ RiskyIsGuarded
    /\ InflightIsGit

-----------------------------------------------------------------------------
(* The transcript *)

\* An entry made of known parts is an event.
LEMMA EntryType ==
    ASSUME NEW name \in EventName, NEW d \in Run \cup {NoRun}, NEW mark \in Mark
    PROVE  /\ Entry(name, d, mark) \in Event
           /\ Entry(name, d, mark).event = name
           /\ Entry(name, d, mark).diff = d
           /\ Entry(name, d, mark).mark = mark
BY DEF Entry, Event

\* Appending a row keeps the old rows where they are and adds one at the end.
LEMMA AppendRow ==
    ASSUME NEW s \in Seq(Event), NEW e \in Event
    PROVE  /\ Append(s, e) \in Seq(Event)
           /\ Len(s) \in Nat
           /\ Len(Append(s, e)) = Len(s) + 1
           /\ Append(s, e)[Len(s) + 1] = e
           /\ \A i \in 1..Len(s) : Append(s, e)[i] = s[i]
OBVIOUS

\* The newest matching row, when every set of rows has a largest one.
LEMMA NewestRow ==
    ASSUME NEW s \in Seq(Event), HasNewest(s), NEW W
    PROVE  /\ Newest(Positions(s, W)) \in 0..Len(s)
           /\ Newest(Positions(s, W)) # 0 => s[Newest(Positions(s, W))] \in W
           /\ \A i \in 1..Len(s) : s[i] \in W => i <= Newest(Positions(s, W))
<1> DEFINE S == Positions(s, W)
<1>1. S \in SUBSET (1..Len(s)) /\ Len(s) \in Nat
  BY DEF Positions
<1>2. CASE S = {}
  BY <1>1, <1>2 DEF Newest, Positions
<1>3. CASE S # {}
  <2>1. \E i \in S : \A j \in S : j <= i
    BY <1>1, <1>3 DEF HasNewest
  <2>2. Newest(S) \in S /\ \A j \in S : j <= Newest(S)
    BY <1>3, <2>1 DEF Newest
  <2>3. QED
    BY <1>1, <2>2 DEF Positions
<1>4. QED
  BY <1>2, <1>3

\* A row at least as large as every matching row, and matching, is the newest.
LEMMA NewestUnique ==
    ASSUME NEW S \in SUBSET Nat, NEW n \in S, \A j \in S : j <= n
    PROVE  Newest(S) = n
<1>1. \E i \in S : \A j \in S : j <= i
  OBVIOUS
<1>2. Newest(S) \in S /\ \A j \in S : j <= Newest(S)
  BY <1>1 DEF Newest
<1>3. n \in Nat /\ Newest(S) \in Nat /\ n <= Newest(S) /\ Newest(S) <= n
  BY <1>2
<1>4. QED
  BY <1>3

\* Appending a row either makes it the newest or changes nothing.
LEMMA NewestAppend ==
    ASSUME NEW s \in Seq(Event), HasNewest(s), NEW e \in Event, NEW W
    PROVE  Newest(Positions(Append(s, e), W))
               = IF e \in W THEN Len(s) + 1 ELSE Newest(Positions(s, W))
<1> DEFINE T == Positions(Append(s, e), W)
<1>1. /\ Len(Append(s, e)) = Len(s) + 1
      /\ Append(s, e)[Len(s) + 1] = e
      /\ Len(s) \in Nat
      /\ \A i \in 1..Len(s) : Append(s, e)[i] = s[i]
  BY AppendRow
<1>2. CASE e \in W
  <2>1. T \in SUBSET Nat /\ Len(s) + 1 \in T /\ \A j \in T : j <= Len(s) + 1
    BY <1>1, <1>2 DEF Positions
  <2>2. Newest(T) = Len(s) + 1
    BY <2>1, NewestUnique
  <2>3. QED
    BY <1>2, <2>2
<1>3. CASE e \notin W
  <2>1. T = Positions(s, W)
    BY <1>1, <1>3 DEF Positions
  <2>2. QED
    BY <1>3, <2>1
<1>4. QED
  BY <1>2, <1>3

\* A longer transcript still has a largest row in every set.
LEMMA HasNewestAppend ==
    ASSUME NEW s \in Seq(Event), HasNewest(s), NEW e \in Event
    PROVE  HasNewest(Append(s, e))
<1>1. Len(Append(s, e)) = Len(s) + 1 /\ Len(s) \in Nat
  BY AppendRow
<1> SUFFICES ASSUME NEW T \in SUBSET (1..(Len(s) + 1)), T # {}
             PROVE  \E i \in T : \A j \in T : j <= i
  BY <1>1 DEF HasNewest
<1>2. CASE Len(s) + 1 \in T
  <2>1. \A j \in T : j <= Len(s) + 1
    BY <1>1
  <2>2. QED
    BY <1>2, <2>1
<1>3. CASE Len(s) + 1 \notin T
  <2>1. T \in SUBSET (1..Len(s))
    BY <1>1, <1>3
  <2>2. QED
    BY <2>1 DEF HasNewest
<1>4. QED
  BY <1>2, <1>3

\* What one more row does to the indices the gate looks up.
LEMMA IndicesAfter ==
    ASSUME NEW s \in Seq(Event), HasNewest(s),
           NEW name \in EventName, NEW d \in Run \cup {NoRun}, NEW mark \in Mark
    PROVE  LET t == Append(s, Entry(name, d, mark)) IN
           /\ LatestRun(t) = IF name = "run_result" THEN Len(s) + 1 ELSE LatestRun(s)
           /\ \A q \in Run :
                /\ ReviewAt(t, q) = IF name = "diff_review" /\ q = d
                                    THEN Len(s) + 1 ELSE ReviewAt(s, q)
                /\ CheckAt(t, q) = IF name = "apply_check_result" /\ q = d
                                   THEN Len(s) + 1 ELSE CheckAt(s, q)
                /\ ApprovalAt(t, q) = IF name = "apply_approval" /\ q = d
                                      THEN Len(s) + 1 ELSE ApprovalAt(s, q)
                /\ RejectedAt(t, q) = IF name = "apply_rejection" /\ q = d
                                      THEN Len(s) + 1 ELSE RejectedAt(s, q)
           /\ t \in Seq(Event)
           /\ Len(t) = Len(s) + 1
           /\ t[Len(s) + 1] = Entry(name, d, mark)
           /\ \A i \in 1..Len(s) : t[i] = s[i]
<1> DEFINE e == Entry(name, d, mark)
           t == Append(s, e)
<1>1. e \in Event /\ e.event = name /\ e.diff = d
  BY DEF Entry, Event
<1>2. t \in Seq(Event) /\ Len(t) = Len(s) + 1 /\ t[Len(s) + 1] = e
      /\ \A i \in 1..Len(s) : t[i] = s[i]
  BY <1>1, AppendRow
<1>3. LatestRun(t) = IF name = "run_result" THEN Len(s) + 1 ELSE LatestRun(s)
  <2>1. e \in {f \in Event : f.event = "run_result"} <=> name = "run_result"
    BY <1>1
  <2>2. QED
    BY <1>1, <2>1, NewestAppend DEF LatestRun
<1>4. ASSUME NEW q \in Run, NEW kind
      PROVE  LatestOf(t, kind, q)
                 = IF name = kind /\ q = d THEN Len(s) + 1 ELSE LatestOf(s, kind, q)
  <2>1. e \in Events(kind, q) <=> name = kind /\ q = d
    BY <1>1 DEF Events
  <2>2. QED
    BY <1>1, <2>1, NewestAppend DEF LatestOf
<1>5. QED
  BY <1>2, <1>3, <1>4 DEF ReviewAt, CheckAt, ApprovalAt, RejectedAt

\* The indices themselves: rows of the transcript, or 0.
LEMMA Indices ==
    ASSUME NEW s \in Seq(Event), HasNewest(s), NEW q \in Run
    PROVE  /\ Len(s) \in Nat
           /\ LatestRun(s) \in 0..Len(s)
           /\ ReviewAt(s, q) \in 0..Len(s)
           /\ CheckAt(s, q) \in 0..Len(s)
           /\ ApprovalAt(s, q) \in 0..Len(s)
           /\ RejectedAt(s, q) \in 0..Len(s)
           /\ ReviewAt(s, q) # 0 => s[ReviewAt(s, q)] \in Events("diff_review", q)
           /\ CheckAt(s, q) # 0 => s[CheckAt(s, q)] \in Events("apply_check_result", q)
           /\ ApprovalAt(s, q) # 0 => s[ApprovalAt(s, q)] \in Events("apply_approval", q)
           /\ RejectedAt(s, q) # 0 => s[RejectedAt(s, q)] \in Events("apply_rejection", q)
BY NewestRow DEF LatestRun, ReviewAt, CheckAt, ApprovalAt, RejectedAt, LatestOf

-----------------------------------------------------------------------------
(* How one more row moves the stages *)

\* A row the gate does not read moves none.
LEMMA OtherRow ==
    ASSUME NEW s \in Seq(Event), HasNewest(s), NEW q \in Run,
           NEW d \in Run \cup {NoRun}, NEW mark \in Mark,
           NEW name \in {"apply_result", "rewind_result",
                         "session_restore", "session_clear"}
    PROVE  LET t == Append(s, Entry(name, d, mark)) IN
           /\ StageOf(t, q) = StageOf(s, q)
           /\ NeedsApproval(t, q) = NeedsApproval(s, q)
<1> DEFINE t == Append(s, Entry(name, d, mark))
<1>1. /\ name \in EventName
      /\ name \notin {"run_result", "diff_review", "apply_check_result",
                      "apply_approval", "apply_rejection"}
  BY DEF EventName
<1>2. /\ LatestRun(t) = LatestRun(s)
      /\ ReviewAt(t, q) = ReviewAt(s, q)
      /\ CheckAt(t, q) = CheckAt(s, q)
      /\ ApprovalAt(t, q) = ApprovalAt(s, q)
      /\ RejectedAt(t, q) = RejectedAt(s, q)
      /\ \A i \in 1..Len(s) : t[i] = s[i]
  <2>1. /\ LatestRun(t) = IF name = "run_result" THEN Len(s) + 1 ELSE LatestRun(s)
        /\ ReviewAt(t, q) = IF name = "diff_review" /\ q = d
                            THEN Len(s) + 1 ELSE ReviewAt(s, q)
        /\ CheckAt(t, q) = IF name = "apply_check_result" /\ q = d
                           THEN Len(s) + 1 ELSE CheckAt(s, q)
        /\ ApprovalAt(t, q) = IF name = "apply_approval" /\ q = d
                              THEN Len(s) + 1 ELSE ApprovalAt(s, q)
        /\ RejectedAt(t, q) = IF name = "apply_rejection" /\ q = d
                              THEN Len(s) + 1 ELSE RejectedAt(s, q)
        /\ \A i \in 1..Len(s) : t[i] = s[i]
    <3>1. name \in EventName
      BY <1>1
    <3>. QED  BY <3>1, IndicesAfter
  <2>. QED  BY <1>1, <2>1
<1>3. /\ CheckAt(s, q) > 0 => t[CheckAt(s, q)] = s[CheckAt(s, q)]
      /\ ReviewAt(s, q) > 0 => t[ReviewAt(s, q)] = s[ReviewAt(s, q)]
  BY <1>2, Indices
<1>4. QED
  BY <1>2, <1>3 DEF StageOf, NeedsApproval, Reviewed, Checked, Ready, Rejected

\* A row about another diff moves this one's stage only if it is a run.
LEMMA OtherDiff ==
    ASSUME NEW s \in Seq(Event), HasNewest(s), NEW q \in Run,
           NEW d \in Run \ {q}, NEW mark \in Mark,
           NEW name \in EventName \ {"run_result"}
    PROVE  LET t == Append(s, Entry(name, d, mark)) IN
           /\ StageOf(t, q) = StageOf(s, q)
           /\ NeedsApproval(t, q) = NeedsApproval(s, q)
<1> DEFINE t == Append(s, Entry(name, d, mark))
<1>1. /\ LatestRun(t) = LatestRun(s)
      /\ ReviewAt(t, q) = ReviewAt(s, q)
      /\ CheckAt(t, q) = CheckAt(s, q)
      /\ ApprovalAt(t, q) = ApprovalAt(s, q)
      /\ RejectedAt(t, q) = RejectedAt(s, q)
      /\ \A i \in 1..Len(s) : t[i] = s[i]
  BY IndicesAfter
<1>2. /\ CheckAt(s, q) > 0 => t[CheckAt(s, q)] = s[CheckAt(s, q)]
      /\ ReviewAt(s, q) > 0 => t[ReviewAt(s, q)] = s[ReviewAt(s, q)]
  BY <1>1, Indices
<1>3. QED
  BY <1>1, <1>2 DEF StageOf, NeedsApproval, Reviewed, Checked, Ready, Rejected

\* A run sends every diff back to review and keeps what the reviews said.
LEMMA AfterRun ==
    ASSUME NEW s \in Seq(Event), HasNewest(s), NEW q \in Run, NEW d \in Run
    PROVE  LET t == Append(s, Entry("run_result", d, "none")) IN
           /\ StageOf(t, q) = "unreviewed"
           /\ NeedsApproval(t, q) = NeedsApproval(s, q)
<1> DEFINE t == Append(s, Entry("run_result", d, "none"))
<1>1. "run_result" \in EventName /\ "none" \in Mark
  BY DEF EventName, Mark
<1>2. /\ LatestRun(t) = Len(s) + 1
      /\ ReviewAt(t, q) = ReviewAt(s, q)
      /\ \A i \in 1..Len(s) : t[i] = s[i]
  BY <1>1, IndicesAfter
<1>3. ReviewAt(s, q) > 0 => t[ReviewAt(s, q)] = s[ReviewAt(s, q)]
  BY <1>2, Indices
<1>4. ~Reviewed(t, q)
  BY <1>2, Indices DEF Reviewed
<1>5. StageOf(t, q) = "unreviewed"
  BY <1>4 DEF StageOf
<1>6. QED
  BY <1>2, <1>3, <1>5 DEF NeedsApproval

\* A review makes its diff reviewed and settles whether it is guarded.
LEMMA AfterReview ==
    ASSUME NEW s \in Seq(Event), HasNewest(s), NEW d \in Run,
           NEW mark \in {"plain", "guarded"}
    PROVE  LET t == Append(s, Entry("diff_review", d, mark)) IN
           /\ StageOf(t, d) = "reviewed"
           /\ NeedsApproval(t, d) <=> mark = "guarded"
<1> DEFINE t == Append(s, Entry("diff_review", d, mark))
<1>1. "diff_review" \in EventName /\ mark \in Mark
  BY DEF EventName, Mark
<1>2. /\ LatestRun(t) = LatestRun(s)
      /\ ReviewAt(t, d) = Len(s) + 1
      /\ CheckAt(t, d) = CheckAt(s, d)
      /\ t[Len(s) + 1] = Entry("diff_review", d, mark)
  BY <1>1, IndicesAfter
<1>3. Reviewed(t, d) /\ ~Checked(t, d) /\ ReviewAt(t, d) # 0
  BY <1>2, Indices DEF Reviewed, Checked
<1>4. StageOf(t, d) = "reviewed"
  BY <1>3 DEF StageOf
<1>5. t[ReviewAt(t, d)].mark = mark /\ ReviewAt(t, d) > 0
  BY <1>2, Indices DEF Entry
<1>6. QED
  BY <1>4, <1>5 DEF NeedsApproval

\* A check settles a reviewed diff, and means nothing for an unreviewed one.
LEMMA AfterCheck ==
    ASSUME NEW s \in Seq(Event), HasNewest(s), NEW d \in Run,
           NEW mark \in {"ok", "refused"}
    PROVE  LET t == Append(s, Entry("apply_check_result", d, mark)) IN
           /\ StageOf(t, d) = IF StageOf(s, d) = "unreviewed" THEN "unreviewed"
                              ELSE IF mark = "ok" THEN "ready" ELSE "refused"
           /\ NeedsApproval(t, d) = NeedsApproval(s, d)
<1> DEFINE t == Append(s, Entry("apply_check_result", d, mark))
<1>1. "apply_check_result" \in EventName /\ mark \in Mark
  BY DEF EventName, Mark
<1>2. /\ LatestRun(t) = LatestRun(s)
      /\ ReviewAt(t, d) = ReviewAt(s, d)
      /\ CheckAt(t, d) = Len(s) + 1
      /\ ApprovalAt(t, d) = ApprovalAt(s, d)
      /\ RejectedAt(t, d) = RejectedAt(s, d)
      /\ t[Len(s) + 1] = Entry("apply_check_result", d, mark)
      /\ \A i \in 1..Len(s) : t[i] = s[i]
  BY <1>1, IndicesAfter
<1>3. ReviewAt(s, d) > 0 => t[ReviewAt(s, d)] = s[ReviewAt(s, d)]
  BY <1>2, Indices
<1>4. /\ Reviewed(t, d) <=> Reviewed(s, d)
      /\ Checked(t, d)
      /\ ~Rejected(t, d)
      /\ ~(ApprovalAt(t, d) >= CheckAt(t, d))
  BY <1>2, Indices DEF Reviewed, Checked, Rejected
<1>5. Ready(t, d) <=> mark = "ok"
  <2>1. t[CheckAt(t, d)].mark = mark /\ CheckAt(t, d) > 0
    BY <1>2, Indices DEF Entry
  <2>2. QED
    BY <2>1 DEF Ready
<1>6. StageOf(s, d) = "unreviewed" <=> ReviewAt(s, d) = 0 \/ ~Reviewed(s, d)
  BY DEF StageOf
<1>7. StageOf(t, d) = IF StageOf(s, d) = "unreviewed" THEN "unreviewed"
                      ELSE IF mark = "ok" THEN "ready" ELSE "refused"
  BY <1>2, <1>4, <1>5, <1>6 DEF StageOf
<1>8. QED
  BY <1>2, <1>3, <1>7 DEF NeedsApproval

\* A decision needs a decidable diff, and is the stage it leaves.
LEMMA AfterDecision ==
    ASSUME NEW s \in Seq(Event), HasNewest(s), NEW d \in Run,
           LatestRun(s) > 0, Prerequisites(s, d),
           NEW name \in {"apply_approval", "apply_rejection"}
    PROVE  LET t == Append(s, Entry(name, d, "none")) IN
           /\ StageOf(s, d) \in {"ready", "approved", "rejected"}
           /\ StageOf(t, d) = IF name = "apply_approval"
                              THEN "approved" ELSE "rejected"
           /\ NeedsApproval(t, d) = NeedsApproval(s, d)
<1> DEFINE t == Append(s, Entry(name, d, "none"))
<1>1. "none" \in Mark /\ name \in EventName
  BY DEF EventName, Mark
<1>2. /\ LatestRun(t) = LatestRun(s)
      /\ ReviewAt(t, d) = ReviewAt(s, d)
      /\ CheckAt(t, d) = CheckAt(s, d)
      /\ ApprovalAt(t, d) = IF name = "apply_approval" THEN Len(s) + 1
                            ELSE ApprovalAt(s, d)
      /\ RejectedAt(t, d) = IF name = "apply_rejection" THEN Len(s) + 1
                            ELSE RejectedAt(s, d)
      /\ \A i \in 1..Len(s) : t[i] = s[i]
  BY <1>1, IndicesAfter
<1>3. ReviewAt(s, d) > 0 /\ CheckAt(s, d) > 0
  BY Indices DEF Prerequisites, Reviewed, Ready
<1>4. /\ t[ReviewAt(s, d)] = s[ReviewAt(s, d)]
      /\ t[CheckAt(s, d)] = s[CheckAt(s, d)]
  BY <1>2, <1>3, Indices
<1>5. Prerequisites(t, d)
  BY <1>2, <1>4 DEF Prerequisites, Reviewed, Checked, Ready
<1>6. StageOf(s, d) \in {"ready", "approved", "rejected"}
  BY <1>3, Indices DEF StageOf, Prerequisites
<1>7. NeedsApproval(t, d) = NeedsApproval(s, d)
  BY <1>2, <1>4 DEF NeedsApproval
<1>8. ReviewAt(t, d) # 0 /\ Reviewed(t, d) /\ Checked(t, d) /\ Ready(t, d)
  BY <1>2, <1>3, <1>5, Indices DEF Prerequisites
<1>9. CASE name = "apply_approval"
  <2>1. ~Rejected(t, d) /\ ApprovalAt(t, d) >= CheckAt(t, d)
    BY <1>2, <1>9, Indices DEF Rejected
  <2>2. StageOf(t, d) = "approved"
    BY <1>8, <2>1 DEF StageOf
  <2>3. QED
    BY <1>6, <1>7, <1>9, <2>2
<1>10. CASE name = "apply_rejection"
  <2>1. Rejected(t, d)
    BY <1>2, <1>10, Indices DEF Rejected
  <2>2. StageOf(t, d) = "rejected"
    BY <1>8, <2>1 DEF StageOf
  <2>3. QED
    BY <1>6, <1>7, <1>10, <2>2
<1>11. QED
  BY <1>9, <1>10

\* The guard lets through exactly what the stage authorises.
LEMMA GuardIsAuthorisation ==
    ASSUME NEW s \in Seq(Event), HasNewest(s), NEW d \in Run,
           LatestRun(s) > 0, GuardPasses(s, d)
    PROVE  \/ StageOf(s, d) = "approved"
           \/ StageOf(s, d) = "ready" /\ ~NeedsApproval(s, d)
<1>1. ReviewAt(s, d) > 0
  BY Indices DEF GuardPasses, Prerequisites, Reviewed
<1>2. QED
  BY <1>1, Indices DEF GuardPasses, Prerequisites, StageOf, Unapproved

-----------------------------------------------------------------------------
(* Type correctness *)

\* A recorded row keeps the transcript a sequence of events.
LEMMA RecordType ==
    ASSUME log \in Seq(Event), NEW e \in Event, Record(e)
    PROVE  log' \in Seq(Event)
BY DEF Record

\* Every step keeps the types; a resume also needs that the row it looks up
\* exists.
LEMMA TypeStep ==
    ASSUME TypeOK, HasNewest(log), [Next]_vars
    PROVE  TypeOK'
<1> USE DEF TypeOK
<1>1. ASSUME NEW d \in Run, FinishRun(d)
      PROVE  TypeOK'
  <2>1. Entry("run_result", d, "none") \in Event
    BY EntryType DEF EventName, Mark
  <2>2. QED
    BY <1>1, <2>1, RecordType DEF FinishRun
<1>2. ASSUME NEW d \in Run, ReviewDiff(d)
      PROVE  TypeOK'
  <2>1. \A m \in {"plain", "guarded"} : Entry("diff_review", d, m) \in Event
    BY EntryType DEF EventName, Mark
  <2>2. QED
    BY <1>2, <2>1, RecordType DEF ReviewDiff
<1>3. ASSUME NEW d \in Run, CheckApply(d)
      PROVE  TypeOK'
  <2>1. \A m \in {"ok", "refused"} : Entry("apply_check_result", d, m) \in Event
    BY EntryType DEF EventName, Mark
  <2>2. QED
    BY <1>3, <2>1, RecordType DEF CheckApply
<1>4. ASSUME NEW d \in Run, NEW name \in {"apply_approval", "apply_rejection"},
             Decide(d, name)
      PROVE  TypeOK'
  <2>1. Entry(name, d, "none") \in Event
    BY EntryType DEF EventName, Mark
  <2>2. QED
    BY <1>4, <2>1, RecordType DEF Decide
<1>5. ASSUME NEW d \in Run, GitApply(d) \/ GitReverse(d)
      PROVE  TypeOK'
  <2>1. \A name \in {"apply_result", "rewind_result"} : Entry(name, d, "ok") \in Event
    BY EntryType DEF EventName, Mark
  <2>2. QED
    BY <1>5, <2>1 DEF GitApply, GitReverse
<1>6. ASSUME NEW d \in Run, DeleteArtifacts(d)
      PROVE  TypeOK'
  BY <1>6 DEF DeleteArtifacts, Grade
<1>7. CASE RecordGitResult
  BY <1>7, RecordType DEF RecordGitResult
<1>8. ASSUME NEW d \in Run \cup {NoRun}, RestoreCheckpoint(d)
      PROVE  TypeOK'
  <2>1. Entry("session_restore", d, "none") \in Event
    BY EntryType DEF EventName, Mark
  <2>2. QED
    BY <1>8, <2>1, RecordType DEF RestoreCheckpoint
<1>9. CASE ClearSession
  <2>1. Entry("session_clear", NoRun, "none") \in Event
    BY EntryType DEF EventName, Mark
  <2>2. QED
    BY <1>9, <2>1, RecordType DEF ClearSession
<1>10. CASE Crash
  <2>1. crashes' \in Nat
    BY <1>10 DEF Crash
  <2>2. QED
    BY <1>10, <2>1 DEF Crash
<1>11. CASE Resume
  <2>1. ReplayedDiff(log) \in Run \cup {NoRun}
    <3>1. LatestMove(log) # 0 => log[LatestMove(log)] \in Event
      BY NewestRow DEF LatestMove
    <3>2. QED
      BY <3>1 DEF ReplayedDiff, Event
  <2>2. QED
    BY <1>11, <2>1 DEF Resume
<1>12. CASE UNCHANGED vars
  BY <1>12 DEF vars
<1>13. QED
  BY <1>1, <1>2, <1>3, <1>4, <1>5, <1>6, <1>7, <1>8, <1>9, <1>10, <1>11, <1>12
     DEF Next

\* The transcript is append-only: a step adds one row at most.
LEMMA LogGrows ==
    ASSUME TypeOK, [Next]_vars
    PROVE  log' = log \/ \E e \in Event : log' = Append(log, e)
<1> USE DEF Record
<1>1. ASSUME NEW name \in EventName, NEW d \in Run \cup {NoRun}, NEW m \in Mark
      PROVE  Entry(name, d, m) \in Event
  BY EntryType
<1>2. ASSUME NEW d \in Run, FinishRun(d)
      PROVE  \E e \in Event : log' = Append(log, e)
  BY <1>1, <1>2 DEF FinishRun, EventName, Mark
<1>3. ASSUME NEW d \in Run, ReviewDiff(d)
      PROVE  \E e \in Event : log' = Append(log, e)
  BY <1>1, <1>3 DEF ReviewDiff, EventName, Mark
<1>4. ASSUME NEW d \in Run, CheckApply(d)
      PROVE  \E e \in Event : log' = Append(log, e)
  BY <1>1, <1>4 DEF CheckApply, EventName, Mark
<1>5. ASSUME NEW d \in Run, NEW name \in {"apply_approval", "apply_rejection"},
             Decide(d, name)
      PROVE  \E e \in Event : log' = Append(log, e)
  BY <1>1, <1>5 DEF Decide, EventName, Mark
<1>6. CASE RecordGitResult
  BY <1>6 DEF RecordGitResult, TypeOK
<1>7. ASSUME NEW d \in Run \cup {NoRun}, RestoreCheckpoint(d)
      PROVE  \E e \in Event : log' = Append(log, e)
  BY <1>1, <1>7 DEF RestoreCheckpoint, EventName, Mark
<1>8. CASE ClearSession
  BY <1>1, <1>8 DEF ClearSession, EventName, Mark
<1>9. ASSUME NEW d \in Run, GitApply(d) \/ GitReverse(d) \/ DeleteArtifacts(d)
      PROVE  log' = log
  BY <1>9 DEF GitApply, GitReverse, DeleteArtifacts
<1>10. CASE Crash \/ Resume \/ UNCHANGED vars
  BY <1>10 DEF Crash, Resume, vars
<1>11. QED
  BY <1>2, <1>3, <1>4, <1>5, <1>6, <1>7, <1>8, <1>9, <1>10 DEF Next

-----------------------------------------------------------------------------
(* The inductive invariant *)

\* The newest run only ever moves forward.
LEMMA RunsOnlyGrow ==
    ASSUME TypeOK, HasNewest(log), [Next]_vars
    PROVE  /\ LatestRun(log) \in Nat /\ LatestRun(log') \in Nat
           /\ LatestRun(log') >= LatestRun(log)
<1>1. LatestRun(log) \in 0..Len(log) /\ Len(log) \in Nat
  BY NewestRow DEF LatestRun, TypeOK
<1>2. CASE log' = log
  BY <1>1, <1>2
<1>3. ASSUME NEW e \in Event, log' = Append(log, e)
      PROVE  LatestRun(log') = Len(log) + 1 \/ LatestRun(log') = LatestRun(log)
  BY <1>3, NewestAppend DEF LatestRun, TypeOK
<1>4. QED
  BY <1>1, <1>2, <1>3, LogGrows

\* A row that names a diff only follows a run: what a step adds.
LEMMA RunCameFirstStep ==
    ASSUME IInv, [Next]_vars
    PROVE  RunCameFirst'
<1> USE DEF IInv
<1>1. LatestRun(log) \in Nat /\ LatestRun(log') \in Nat /\ LatestRun(log') >= LatestRun(log)
  BY RunsOnlyGrow
<1>2. CASE LatestRun(log) > 0
  BY <1>1, <1>2 DEF RunCameFirst
<1>3. CASE LatestRun(log) = 0
  <2>1. /\ last = NoRun
        /\ inflight = NoRun
        /\ \A i \in 1..Len(log) : log[i].diff = NoRun
    BY <1>3 DEF RunCameFirst
  <2>2. ASSUME NEW d \in Run, FinishRun(d)
        PROVE  RunCameFirst'
    <3>1. log' = Append(log, Entry("run_result", d, "none"))
      BY <2>2 DEF FinishRun, Record
    <3>2. LatestRun(log') = Len(log) + 1
      BY <3>1, IndicesAfter DEF TypeOK, EventName, Mark
    <3>3. LatestRun(log') > 0
      BY <3>2 DEF TypeOK
    <3>4. QED
      BY <3>3 DEF RunCameFirst
  <2>3. ASSUME NEW d \in Run,
               \/ ReviewDiff(d) \/ CheckApply(d)
               \/ Decide(d, "apply_approval") \/ Decide(d, "apply_rejection")
               \/ GitApply(d) \/ GitReverse(d)
        PROVE  FALSE
    BY <2>1, <2>3, GateAssumption
       DEF ReviewDiff, CheckApply, Decide, GitApply, GitReverse
  <2>4. ASSUME NEW d \in Run, DeleteArtifacts(d)
        PROVE  RunCameFirst'
    BY <2>1, <2>4 DEF DeleteArtifacts, RunCameFirst
  <2>5. CASE RecordGitResult
    BY <2>1, <2>5 DEF RecordGitResult
  <2>6. ASSUME NEW d \in Run \cup {NoRun}, RestoreCheckpoint(d)
        PROVE  RunCameFirst'
    <3>1. d = NoRun
      BY <2>1, <2>6 DEF RestoreCheckpoint, Entry
    <3>2. /\ log' = Append(log, Entry("session_restore", NoRun, "none"))
          /\ last' = NoRun
          /\ inflight' = NoRun
      BY <2>1, <2>6, <3>1 DEF RestoreCheckpoint, Record
    <3>3. \A i \in 1..Len(log') : log'[i].diff = NoRun
      BY <2>1, <3>2, AppendRow, EntryType DEF TypeOK, EventName, Mark
    <3>4. QED
      BY <3>2, <3>3 DEF RunCameFirst
  <2>7. CASE ClearSession
    BY <2>1, <2>7 DEF ClearSession
  <2>8. CASE Crash
    BY <2>1, <2>8 DEF Crash, RunCameFirst
  <2>9. CASE Resume
    <3>1. ReplayedDiff(log) = NoRun
      BY <2>1, NewestRow DEF ReplayedDiff, LatestMove, TypeOK
    <3>2. QED
      BY <2>1, <2>9, <3>1 DEF Resume, RunCameFirst
  <2>10. CASE UNCHANGED vars
    BY <2>1, <2>10 DEF vars, RunCameFirst
  <2>11. QED
    BY <2>2, <2>3, <2>4, <2>5, <2>6, <2>7, <2>8, <2>9, <2>10 DEF Next
<1>4. QED
  BY <1>1, <1>2, <1>3

\* A diff graded risky by its run was never reviewed before, and is reviewed
\* as guarded ever after.
LEMMA RiskyIsGuardedStep ==
    ASSUME IInv, [Next]_vars
    PROVE  RiskyIsGuarded'
<1> USE DEF IInv
<1> DEFINE Row(e, f) == e.event = "diff_review" /\ e.mark # "guarded"
                            => e.diff \in Run /\ f[e.diff] # "risky"
<1>1. /\ log \in Seq(Event)
      /\ \A i \in 1..Len(log) : Row(log[i], file)
      /\ file \in [Run -> Grade]
  BY DEF TypeOK, RiskyIsGuarded
<1>2. ASSUME NEW e \in Event, log' = Append(log, e), file' = file, Row(e, file)
      PROVE  RiskyIsGuarded'
  BY <1>1, <1>2, AppendRow DEF RiskyIsGuarded
<1>3. ASSUME NEW name \in EventName \ {"diff_review"}, NEW d \in Run \cup {NoRun},
             NEW m \in Mark, Record(Entry(name, d, m)), file' = file
      PROVE  RiskyIsGuarded'
  BY <1>2, <1>3, EntryType DEF Record
<1>4. ASSUME log' = log, file' = file
      PROVE  RiskyIsGuarded'
  BY <1>4 DEF RiskyIsGuarded
<1>5. ASSUME NEW d \in Run, FinishRun(d)
      PROVE  RiskyIsGuarded'
  <2>1. log' = Append(log, Entry("run_result", d, "none"))
    BY <1>5 DEF FinishRun, Record
  <2>2. Entry("run_result", d, "none") \in Event
        /\ Entry("run_result", d, "none").event = "run_result"
    BY EntryType DEF EventName, Mark
  <2>3. \A i \in 1..Len(log) : Row(log[i], file')
    BY <1>1, <1>5 DEF FinishRun
  <2>4. QED
    BY <1>1, <2>1, <2>2, <2>3, AppendRow DEF RiskyIsGuarded
<1>6. ASSUME NEW d \in Run, ReviewDiff(d)
      PROVE  RiskyIsGuarded'
  <2> DEFINE m == IF file[d] = "plain" THEN "plain" ELSE "guarded"
  <2>1. log' = Append(log, Entry("diff_review", d, m)) /\ file' = file
    BY <1>6 DEF ReviewDiff, Record
  <2>2. Entry("diff_review", d, m) \in Event /\ Row(Entry("diff_review", d, m), file)
    BY DEF Entry, Event, EventName, Mark
  <2>3. QED
    BY <1>2, <2>1, <2>2
<1>7. ASSUME NEW d \in Run, CheckApply(d)
      PROVE  RiskyIsGuarded'
  BY <1>3, <1>7 DEF CheckApply, EventName, Mark
<1>8. ASSUME NEW d \in Run, NEW name \in {"apply_approval", "apply_rejection"},
             Decide(d, name)
      PROVE  RiskyIsGuarded'
  BY <1>3, <1>8 DEF Decide, EventName, Mark
<1>9. ASSUME NEW d \in Run, GitApply(d) \/ GitReverse(d)
      PROVE  RiskyIsGuarded'
  BY <1>4, <1>9 DEF GitApply, GitReverse
<1>10. ASSUME NEW d \in Run, DeleteArtifacts(d)
       PROVE  RiskyIsGuarded'
  BY <1>1, <1>10 DEF DeleteArtifacts, RiskyIsGuarded
<1>11. CASE RecordGitResult
  <2>1. /\ inflight \in Event
        /\ inflight.event # "diff_review"
        /\ log' = Append(log, inflight)
        /\ file' = file
    BY <1>11 DEF RecordGitResult, Record, TypeOK, InflightIsGit
  <2>2. QED
    BY <1>2, <2>1
<1>12. ASSUME NEW d \in Run \cup {NoRun}, RestoreCheckpoint(d)
       PROVE  RiskyIsGuarded'
  BY <1>3, <1>12 DEF RestoreCheckpoint, EventName, Mark
<1>13. CASE ClearSession
  BY <1>3, <1>13 DEF ClearSession, EventName, Mark
<1>14. CASE Crash \/ Resume \/ UNCHANGED vars
  BY <1>4, <1>14 DEF Crash, Resume, vars
<1>15. QED
  BY <1>5, <1>6, <1>7, <1>8, <1>9, <1>10, <1>11, <1>12, <1>13, <1>14 DEF Next

\* Only git results are ever in flight.
LEMMA InflightIsGitStep ==
    ASSUME IInv, [Next]_vars
    PROVE  InflightIsGit'
<1> USE DEF IInv, InflightIsGit
<1>1. ASSUME NEW d \in Run, GitApply(d) \/ GitReverse(d)
      PROVE  InflightIsGit'
  BY <1>1 DEF GitApply, GitReverse, Entry
<1>2. CASE RecordGitResult \/ Crash
  BY <1>2 DEF RecordGitResult, Crash
<1>3. ASSUME inflight' = inflight
      PROVE  InflightIsGit'
  BY <1>3
<1>4. QED
  BY <1>1, <1>2, <1>3
     DEF Next, vars, FinishRun, ReviewDiff, CheckApply, Decide, DeleteArtifacts,
         RestoreCheckpoint, ClearSession, Resume

\* The inductive invariant holds for ever.
LEMMA Invariance == Spec => []IInv
<1>1. Init => IInv
  <2>1. Init => TypeOK /\ HasNewest(log)
    <3>1. Init => TypeOK
      BY DEF Init, TypeOK, Grade
    <3>2. Len(<<>>) = 0 /\ 1..0 = {}
      OBVIOUS
    <3>3. HasNewest(<<>>)
      BY <3>2, Zenon DEF HasNewest
    <3>4. QED
      BY <3>1, <3>3 DEF Init
  <2>2. Init => RunCameFirst /\ RiskyIsGuarded /\ InflightIsGit
    BY DEF Init, RunCameFirst, RiskyIsGuarded, InflightIsGit
  <2>3. QED
    BY <2>1, <2>2 DEF IInv
<1>2. IInv /\ [Next]_vars => IInv'
  <2> SUFFICES ASSUME IInv, [Next]_vars
               PROVE  IInv'
    OBVIOUS
  <2>1. TypeOK'
    BY TypeStep DEF IInv
  <2>2. HasNewest(log)'
    BY LogGrows, HasNewestAppend DEF IInv, TypeOK
  <2>3. QED
    BY <2>1, <2>2, RunCameFirstStep, RiskyIsGuardedStep, InflightIsGitStep DEF IInv
<1>3. QED
  BY <1>1, <1>2, PTL DEF Spec

\* Every variable keeps its type, whatever the session does and however
\* often it dies and is resumed (TypeOK).
THEOREM TypeCorrect == Spec => []TypeOK
<1>1. IInv => TypeOK
  BY DEF IInv
<1>2. QED
  BY <1>1, Invariance, PTL

-----------------------------------------------------------------------------
(* The transcript implements the staged gate *)

\* One step of the session is a step of the staged gate, or changes nothing
\* the gate speaks of.
LEMMA StepRefines ==
    ASSUME IInv, [Next]_vars
    PROVE  [Gate!Next]_(Gate!vars)
<1> USE DEF IInv
<1> DEFINE stage   == [q \in Run |-> StageOf(log, q)]
           guarded == {q \in Run : NeedsApproval(log, q)}
<1>1. log \in Seq(Event) /\ HasNewest(log) /\ tree \subseteq Run
  BY DEF TypeOK
<1>2. last # NoRun => LatestRun(log) > 0
  BY DEF RunCameFirst
\* A step that records a row of no interest to the gate.
<1>3. ASSUME NEW name \in {"apply_result", "rewind_result",
                           "session_restore", "session_clear"},
             NEW d \in Run \cup {NoRun}, NEW m \in Mark,
             Record(Entry(name, d, m))
      PROVE  stage' = stage /\ guarded' = guarded
  BY <1>1, <1>3, OtherRow DEF Record
\* A step that records nothing.
<1>4. ASSUME log' = log
      PROVE  stage' = stage /\ guarded' = guarded
  BY <1>4
<1>5. ASSUME NEW d \in Run, FinishRun(d)
      PROVE  Gate!Finish(d)
  <2>1. log' = Append(log, Entry("run_result", d, "none"))
    BY <1>5 DEF FinishRun, Record
  <2>2. \A q \in Run : /\ StageOf(log', q) = "unreviewed"
                       /\ NeedsApproval(log', q) = NeedsApproval(log, q)
    BY <1>1, <2>1, AfterRun
  <2>3. stage' = [q \in Run |-> "unreviewed"] /\ guarded' = guarded
    BY <2>2
  <2>4. QED
    BY <1>5, <2>3 DEF FinishRun, Gate!Finish
<1>6. ASSUME NEW d \in Run, ReviewDiff(d)
      PROVE  Gate!Review(d)
  <2>1. PICK m \in {"plain", "guarded"} : log' = Append(log, Entry("diff_review", d, m))
    BY <1>6 DEF ReviewDiff, Record
  <2>2. StageOf(log', d) = "reviewed" /\ (NeedsApproval(log', d) <=> m = "guarded")
    BY <1>1, <2>1, AfterReview
  <2>3. ASSUME NEW q \in Run, q # d
        PROVE  /\ StageOf(log', q) = StageOf(log, q)
               /\ NeedsApproval(log', q) = NeedsApproval(log, q)
    BY <1>1, <2>1, <2>3, OtherDiff DEF EventName, Mark
  <2>4. stage' = [stage EXCEPT ![d] = "reviewed"]
    BY <2>2, <2>3
  <2>5. guarded' \in {guarded \cup {d}, guarded \ {d}}
    <3>1. CASE m = "guarded"
      <4>1. \A q \in Run : q \in guarded' <=> q \in guarded \cup {d}
        BY <2>2, <2>3, <3>1
      <4>2. QED
        BY <4>1
    <3>2. CASE m # "guarded"
      <4>1. \A q \in Run : q \in guarded' <=> q \in guarded \ {d}
        BY <2>2, <2>3, <3>2
      <4>2. QED
        BY <4>1
    <3>3. QED
      BY <3>1, <3>2
  <2>6. QED
    BY <1>6, <2>4, <2>5 DEF ReviewDiff, Gate!Review
<1>7. ASSUME NEW d \in Run, CheckApply(d)
      PROVE  Gate!Check(d) \/ UNCHANGED Gate!vars
  <2>1. PICK m \in {"ok", "refused"} : log' = Append(log, Entry("apply_check_result", d, m))
    BY <1>7 DEF CheckApply, Record
  <2>2. /\ StageOf(log', d) = IF StageOf(log, d) = "unreviewed" THEN "unreviewed"
                              ELSE IF m = "ok" THEN "ready" ELSE "refused"
        /\ NeedsApproval(log', d) = NeedsApproval(log, d)
    BY <1>1, <2>1, AfterCheck
  <2>3. ASSUME NEW q \in Run, q # d
        PROVE  /\ StageOf(log', q) = StageOf(log, q)
               /\ NeedsApproval(log', q) = NeedsApproval(log, q)
    BY <1>1, <2>1, <2>3, OtherDiff DEF EventName, Mark
  <2>4. guarded' = guarded
    BY <2>2, <2>3
  <2>5. CASE StageOf(log, d) = "unreviewed"
    <3>1. stage' = stage
      BY <2>2, <2>3, <2>5
    <3>2. QED
      BY <1>7, <2>4, <3>1 DEF CheckApply, Gate!vars
  <2>6. CASE StageOf(log, d) # "unreviewed"
    <3>1. \E answer \in {"ready", "refused"} : stage' = [stage EXCEPT ![d] = answer]
      BY <2>2, <2>3, <2>6
    <3>2. stage[d] # "unreviewed"
      BY <2>6
    <3>3. QED
      BY <1>7, <2>4, <3>1, <3>2 DEF CheckApply, Gate!Check
  <2>7. QED
    BY <2>5, <2>6
<1>8. ASSUME NEW d \in Run, NEW name \in {"apply_approval", "apply_rejection"},
             Decide(d, name)
      PROVE  Gate!Decide(d)
  <2>1. /\ last = d /\ LatestRun(log) > 0 /\ Prerequisites(log, d)
        /\ log' = Append(log, Entry(name, d, "none"))
    BY <1>2, <1>8, GateAssumption DEF Decide, Record
  <2>2. /\ StageOf(log, d) \in {"ready", "approved", "rejected"}
        /\ StageOf(log', d) = IF name = "apply_approval" THEN "approved" ELSE "rejected"
        /\ NeedsApproval(log', d) = NeedsApproval(log, d)
    BY <1>1, <2>1, AfterDecision
  <2>3. ASSUME NEW q \in Run, q # d
        PROVE  /\ StageOf(log', q) = StageOf(log, q)
               /\ NeedsApproval(log', q) = NeedsApproval(log, q)
    BY <1>1, <2>1, <2>3, OtherDiff DEF EventName, Mark
  <2>4. guarded' = guarded
    BY <2>2, <2>3
  <2>5. \E verdict \in Gate!Decided : stage' = [stage EXCEPT ![d] = verdict]
    BY <2>2, <2>3 DEF Gate!Decided
  <2>6. stage[d] \in Gate!Decidable
    BY <2>2 DEF Gate!Decidable, Gate!Decided
  <2>7. QED
    BY <1>8, <2>4, <2>5, <2>6 DEF Decide, Gate!Decide
<1>9. ASSUME NEW d \in Run, GitApply(d)
      PROVE  Gate!Apply(d)
  <2>1. last = d /\ LatestRun(log) > 0 /\ GuardPasses(log, d) /\ log' = log
    BY <1>2, <1>9, GateAssumption DEF GitApply
  <2>2. Gate!Authorised(d)
    BY <1>1, <2>1, GuardIsAuthorisation DEF Gate!Authorised
  <2>3. QED
    BY <1>4, <1>9, <2>1, <2>2 DEF GitApply, Gate!Apply
<1>10. ASSUME NEW d \in Run, GitReverse(d)
       PROVE  Gate!Rewind(d)
  BY <1>4, <1>10 DEF GitReverse, Gate!Rewind
<1>11. ASSUME NEW d \in Run, DeleteArtifacts(d)
       PROVE  UNCHANGED Gate!vars
  BY <1>4, <1>11 DEF DeleteArtifacts, Gate!vars
<1>12. CASE RecordGitResult
  <2>1. /\ inflight \in Event
        /\ inflight.event \in {"apply_result", "rewind_result"}
        /\ Record(inflight)
        /\ last' = last /\ tree' = tree
    BY <1>12 DEF RecordGitResult, TypeOK, InflightIsGit
  <2>2. inflight = Entry(inflight.event, inflight.diff, inflight.mark)
        /\ inflight.diff \in Run \cup {NoRun} /\ inflight.mark \in Mark
    BY <2>1 DEF Entry, Event
  <2>3. stage' = stage /\ guarded' = guarded
    BY <1>3, <2>1, <2>2
  <2>4. QED
    BY <2>1, <2>3 DEF Gate!vars
<1>13. ASSUME NEW d \in Run \cup {NoRun}, RestoreCheckpoint(d)
       PROVE  Gate!Retarget
  <2>1. stage' = stage /\ guarded' = guarded
    BY <1>3, <1>13 DEF RestoreCheckpoint, Mark
  <2>2. QED
    BY <1>13, <2>1 DEF RestoreCheckpoint, Gate!Retarget
<1>14. ASSUME ClearSession
       PROVE  Gate!Retarget
  <2>1. stage' = stage /\ guarded' = guarded
    BY <1>3, <1>14 DEF ClearSession, Mark
  <2>2. QED
    BY <1>14, <2>1 DEF ClearSession, Gate!Retarget
<1>15. ASSUME Crash
       PROVE  Gate!Retarget
  BY <1>4, <1>15 DEF Crash, Gate!Retarget
<1>16. ASSUME Resume
       PROVE  Gate!Retarget
  <2>1. last' \in Run \cup {NoRun}
    BY TypeStep DEF TypeOK
  <2>2. QED
    BY <1>4, <1>16, <2>1 DEF Resume, Gate!Retarget
<1>17. CASE UNCHANGED vars
  BY <1>4, <1>17 DEF vars, Gate!vars
<1>18. QED
  BY <1>5, <1>6, <1>7, <1>8, <1>9, <1>10, <1>11, <1>12, <1>13, <1>14, <1>15, <1>16,
     <1>17 DEF Next, Gate!Next

\* Scanning the transcript implements the staged gate of GateSpec, for any
\* number of runs, transcript length and process deaths (ImplementsGate).
THEOREM GateImplemented == Spec => ImplementsGate
<1>1. Init => Gate!Init
  <2>1. ASSUME NEW W PROVE Positions(<<>>, W) = {}
    BY DEF Positions
  <2>2. ASSUME NEW q \in Run
        PROVE  StageOf(<<>>, q) = "unreviewed" /\ ~NeedsApproval(<<>>, q)
    <3>1. ReviewAt(<<>>, q) = 0
      BY <2>1 DEF ReviewAt, LatestOf, Newest
    <3>2. QED
      BY <3>1 DEF StageOf, NeedsApproval
  <2>3. QED
    BY <2>2 DEF Init, Gate!Init
<1>2. IInv /\ [Next]_vars => [Gate!Next]_(Gate!vars)
  BY StepRefines
<1>3. QED
  BY <1>1, <1>2, Invariance, PTL DEF Spec, ImplementsGate, Gate!Spec

-----------------------------------------------------------------------------
(* The last word on a risky diff *)

\* A risky diff that was reviewed at all was last reviewed as guarded.
LEMMA RiskyNeedsApproval ==
    ASSUME IInv, NEW d \in Run, file[d] = "risky", ReviewAt(log, d) > 0
    PROVE  NeedsApproval(log, d)
<1>1. log \in Seq(Event) /\ HasNewest(log)
  BY DEF IInv, TypeOK
<1>2. /\ ReviewAt(log, d) \in 1..Len(log)
      /\ log[ReviewAt(log, d)] \in Events("diff_review", d)
  BY <1>1, Indices
<1>3. log[ReviewAt(log, d)].mark = "guarded"
  BY <1>2 DEF IInv, RiskyIsGuarded, Events
<1>4. QED
  BY <1>2, <1>3 DEF NeedsApproval

\* Every risky diff that enters the tree does so on an approval newer than
\* its rejections, its last check and the last run (RiskyNeedsLastWord).
THEOREM LastWordIsApproval == Spec => RiskyNeedsLastWord
<1> DEFINE Newer(d) == /\ ApprovalAt(log, d) > RejectedAt(log, d)
                       /\ ApprovalAt(log, d) > CheckAt(log, d)
                       /\ ApprovalAt(log, d) > LatestRun(log)
<1>1. ASSUME IInv, Next, NEW d \in tree' \ tree, file[d] = "risky"
      PROVE  Newer(d)
  <2>1. d \in Run /\ GitApply(d)
    BY <1>1 DEF Next, FinishRun, ReviewDiff, CheckApply, Decide, GitApply, GitReverse,
                DeleteArtifacts, RecordGitResult, RestoreCheckpoint, ClearSession,
                Crash, Resume, IInv, TypeOK
  <2>2. /\ log \in Seq(Event) /\ HasNewest(log)
        /\ LatestRun(log) > 0
        /\ GuardPasses(log, d)
    BY <1>1, <2>1, GateAssumption DEF GitApply, IInv, TypeOK, RunCameFirst
  <2>3. ReviewAt(log, d) > 0
    BY <2>1, <2>2, Indices DEF GuardPasses, Prerequisites, Reviewed
  <2>4. ~Unapproved(log, d)
    BY <1>1, <2>1, <2>2, <2>3, RiskyNeedsApproval DEF GuardPasses
  <2>5. /\ ApprovalAt(log, d) >= CheckAt(log, d)
        /\ CheckAt(log, d) > 0
        /\ CheckAt(log, d) >= LatestRun(log)
    BY <2>1, <2>2, <2>4, Indices
       DEF Unapproved, GuardPasses, Prerequisites, Reviewed, Checked, Ready
  <2>6. ApprovalAt(log, d) # CheckAt(log, d)
    BY <2>1, <2>2, <2>5, Indices DEF Events
  <2>7. ApprovalAt(log, d) # RejectedAt(log, d)
    BY <2>1, <2>2, <2>5, Indices DEF Events
  <2>8. ApprovalAt(log, d) >= RejectedAt(log, d)
    BY <2>1, <2>2, <2>5, Indices DEF GuardPasses, Rejected
  <2>9. QED
    BY <2>1, <2>2, <2>5, <2>6, <2>7, <2>8, Indices
<1>2. IInv /\ [Next]_vars =>
        [\A d \in tree' \ tree : file[d] = "risky" => Newer(d)]_vars
  BY <1>1
<1>3. QED
  BY <1>2, Invariance, PTL DEF Spec, RiskyNeedsLastWord

-----------------------------------------------------------------------------
(* Resuming a session *)

\* One more row moves the replayed diff when it is a move, to its own diff.
LEMMA ReplayAppend ==
    ASSUME NEW s \in Seq(Event), HasNewest(s), NEW e \in Event
    PROVE  ReplayedDiff(Append(s, e))
               = IF e.event \in Moves THEN e.diff ELSE ReplayedDiff(s)
<1> DEFINE W == {f \in Event : f.event \in Moves}
           t == Append(s, e)
<1>1. LatestMove(t) = IF e.event \in Moves THEN Len(s) + 1 ELSE LatestMove(s)
  BY NewestAppend DEF LatestMove
<1>2. /\ t[Len(s) + 1] = e
      /\ Len(s) \in Nat
      /\ \A i \in 1..Len(s) : t[i] = s[i]
  BY AppendRow
<1>3. LatestMove(s) \in 0..Len(s)
  BY NewestRow DEF LatestMove
<1>4. LatestMove(s) # 0 => t[LatestMove(s)] = s[LatestMove(s)]
  BY <1>2, <1>3
<1>5. QED
  BY <1>1, <1>2, <1>3, <1>4 DEF ReplayedDiff

\* Memory and transcript move together.
LEMMA ResumeAgreesStep ==
    ASSUME IInv, ResumeAgrees, [Next]_vars
    PROVE  ResumeAgrees'
<1> USE DEF IInv, ResumeAgrees
<1>1. log \in Seq(Event) /\ HasNewest(log)
  BY DEF TypeOK
<1>2. ASSUME NEW name \in EventName, NEW d \in Run \cup {NoRun}, NEW m \in Mark,
             Record(Entry(name, d, m))
      PROVE  ReplayedDiff(log') = IF name \in Moves THEN d ELSE ReplayedDiff(log)
  <2>1. log' = Append(log, Entry(name, d, m))
    BY <1>2 DEF Record
  <2>2. /\ Entry(name, d, m) \in Event
        /\ Entry(name, d, m).event = name
        /\ Entry(name, d, m).diff = d
    BY EntryType
  <2>3. QED
    BY <1>1, <2>1, <2>2, ReplayAppend
<1>3. ASSUME NEW d \in Run, FinishRun(d)
      PROVE  ResumeAgrees'
  BY <1>2, <1>3 DEF FinishRun, EventName, Mark, Moves
<1>4. ASSUME NEW d \in Run, ReviewDiff(d)
      PROVE  ResumeAgrees'
  BY <1>2, <1>4 DEF ReviewDiff, EventName, Mark, Moves
<1>5. ASSUME NEW d \in Run, CheckApply(d)
      PROVE  ResumeAgrees'
  BY <1>2, <1>5 DEF CheckApply, EventName, Mark, Moves
<1>6. ASSUME NEW d \in Run, NEW name \in {"apply_approval", "apply_rejection"},
             Decide(d, name)
      PROVE  ResumeAgrees'
  BY <1>2, <1>6 DEF Decide, EventName, Mark, Moves
<1>7. ASSUME NEW d \in Run, GitApply(d) \/ GitReverse(d) \/ DeleteArtifacts(d)
      PROVE  ResumeAgrees'
  BY <1>7 DEF GitApply, GitReverse, DeleteArtifacts
<1>8. CASE RecordGitResult
  <2>1. /\ inflight \in Event /\ inflight.event \notin Moves
        /\ log' = Append(log, inflight)
        /\ last' = last /\ up' = up
    BY <1>8 DEF RecordGitResult, Record, TypeOK, InflightIsGit, Moves
  <2>2. QED
    BY <1>1, <2>1, ReplayAppend
<1>9. ASSUME NEW d \in Run \cup {NoRun}, RestoreCheckpoint(d)
      PROVE  ResumeAgrees'
  BY <1>2, <1>9 DEF RestoreCheckpoint, EventName, Mark, Moves
<1>10. CASE ClearSession
  BY <1>2, <1>10 DEF ClearSession, EventName, Mark, Moves
<1>11. CASE Crash \/ Resume \/ UNCHANGED vars
  BY <1>11 DEF Crash, Resume, vars
<1>12. QED
  BY <1>3, <1>4, <1>5, <1>6, <1>7, <1>8, <1>9, <1>10, <1>11 DEF Next

\* However a session is cleared, restored, killed and resumed, the diff its
\* commands act on is the one a resume would make current (ResumeAgrees).
THEOREM ResumeIsFaithful == Spec => []ResumeAgrees
<1>1. Init => ResumeAgrees
  <2>1. Positions(<<>>, {e \in Event : e.event \in Moves}) = {}
    BY DEF Positions
  <2>2. ReplayedDiff(<<>>) = NoRun
    BY <2>1 DEF ReplayedDiff, LatestMove, Newest
  <2>3. QED
    BY <2>2 DEF Init, ResumeAgrees
<1>2. IInv /\ ResumeAgrees /\ [Next]_vars => ResumeAgrees'
  BY ResumeAgreesStep
<1>3. QED
  BY <1>1, <1>2, Invariance, PTL DEF Spec

-----------------------------------------------------------------------------
(* The transcript and the tree *)

\* The rows that tell whether d is in the tree, and the diffs that they put there.
GitRows(d) == {e \in Event : /\ e.event \in {"apply_result", "rewind_result"}
                             /\ e.diff = d
                             /\ e.mark = "ok"}

GitRowAt(s, d) == Newest(Positions(s, GitRows(d)))

RecordedIn(s) ==
    {d \in Run : GitRowAt(s, d) > 0 /\ s[GitRowAt(s, d)].event = "apply_result"}

\* What a git result makes of the diffs in the tree.
Through(T, e) ==
    IF e = NoRun THEN T
    ELSE IF e.event = "apply_result" THEN T \cup {e.diff} ELSE T \ {e.diff}

\* The tree as the transcript will tell it once the result in flight is recorded,
\* and where the real one differs: a diff for every death that lost a result.
Foretold == Through(RecordedIn(log), inflight)

Differs(S, T) == (S \ T) \cup (T \ S)

DriftInv ==
    /\ inflight # NoRun => inflight.diff \in Run /\ inflight.mark = "ok"
    /\ IsFiniteSet(Differs(tree, Foretold))
    /\ Cardinality(Differs(tree, Foretold)) <= crashes

\* A row that is no git result, or one that was refused, tells nothing.
LEMMA RecordedAppend ==
    ASSUME NEW s \in Seq(Event), HasNewest(s), NEW e \in Event
    PROVE  /\ e.event \notin {"apply_result", "rewind_result"}
                  => RecordedIn(Append(s, e)) = RecordedIn(s)
           /\ /\ e.event \in {"apply_result", "rewind_result"}
              /\ e.diff \in Run
              /\ e.mark = "ok"
              /\ e # NoRun
              => RecordedIn(Append(s, e)) = Through(RecordedIn(s), e)
<1> DEFINE t == Append(s, e)
<1>1. /\ t[Len(s) + 1] = e
      /\ Len(s) \in Nat
      /\ \A i \in 1..Len(s) : t[i] = s[i]
  BY AppendRow
<1>2. ASSUME NEW d \in Run
      PROVE  GitRowAt(t, d) = IF e \in GitRows(d) THEN Len(s) + 1 ELSE GitRowAt(s, d)
  BY NewestAppend DEF GitRowAt
<1>3. ASSUME NEW d \in Run
      PROVE  GitRowAt(s, d) \in 0..Len(s)
  BY NewestRow DEF GitRowAt
<1>4. ASSUME NEW d \in Run, e \notin GitRows(d)
      PROVE  d \in RecordedIn(t) <=> d \in RecordedIn(s)
  BY <1>1, <1>2, <1>3, <1>4 DEF RecordedIn
<1>5. ASSUME NEW d \in Run, e \in GitRows(d)
      PROVE  d \in RecordedIn(t) <=> e.event = "apply_result"
  BY <1>1, <1>2, <1>5 DEF RecordedIn
<1>6. RecordedIn(s) \subseteq Run /\ RecordedIn(t) \subseteq Run
  BY DEF RecordedIn
<1>7. CASE e.event \notin {"apply_result", "rewind_result"}
  <2>1. \A d \in Run : e \notin GitRows(d)
    BY <1>7 DEF GitRows
  <2>2. QED
    BY <1>4, <1>6, <1>7, <2>1
<1>8. CASE /\ e.event \in {"apply_result", "rewind_result"}
           /\ e.diff \in Run /\ e.mark = "ok" /\ e # NoRun
  <2>1. \A d \in Run : e \in GitRows(d) <=> d = e.diff
    BY <1>8 DEF GitRows
  <2>2. \A d \in Run : d # e.diff => (d \in RecordedIn(t) <=> d \in RecordedIn(s))
    BY <1>4, <2>1
  <2>3. e.diff \in RecordedIn(t) <=> e.event = "apply_result"
    BY <1>5, <1>8, <2>1
  <2>4. RecordedIn(t) = Through(RecordedIn(s), e)
    BY <1>6, <1>8, <2>2, <2>3 DEF Through
  <2>5. QED
    BY <1>8, <2>4
<1>9. QED
  BY <1>7, <1>8

\* A smaller difference is bounded by the same count.
LEMMA SmallerDrift ==
    ASSUME NEW S, NEW T, IsFiniteSet(S), T \subseteq S, NEW n \in Nat,
           Cardinality(S) <= n
    PROVE  IsFiniteSet(T) /\ Cardinality(T) <= n
<1>1. /\ IsFiniteSet(T) /\ Cardinality(T) <= Cardinality(S)
      /\ Cardinality(S) \in Nat /\ Cardinality(T) \in Nat
  BY FS_Subset, FS_CardinalityType
<1>2. QED
  BY <1>1

\* One more diff is one more at most.
LEMMA DriftOfOne ==
    ASSUME NEW S, NEW T, NEW d, IsFiniteSet(S), T \subseteq S \cup {d}, NEW n \in Nat,
           Cardinality(S) <= n
    PROVE  IsFiniteSet(T) /\ Cardinality(T) <= n + 1
<1>1. /\ IsFiniteSet(S \cup {d})
      /\ Cardinality(S \cup {d}) = IF d \in S THEN Cardinality(S) ELSE Cardinality(S) + 1
      /\ Cardinality(S) \in Nat
  BY FS_AddElement, FS_CardinalityType
<1>2. Cardinality(S \cup {d}) <= n + 1
  BY <1>1
<1>3. QED
  BY <1>1, <1>2, SmallerDrift

\* A git operation that succeeded brings the tree and what is foretold closer,
\* a recorded row moves neither, and a death loses one result at most.
LEMMA DriftStep ==
    ASSUME IInv, DriftInv, [Next]_vars
    PROVE  DriftInv'
<1> USE DEF IInv, DriftInv
<1>1. /\ log \in Seq(Event) /\ HasNewest(log) /\ crashes \in Nat
      /\ inflight \in Event \cup {NoRun}
  BY DEF TypeOK
<1>2. ASSUME tree' = tree, inflight' = inflight, crashes' = crashes,
             RecordedIn(log') = RecordedIn(log)
      PROVE  DriftInv'
  BY <1>2 DEF Foretold
<1>3. ASSUME NEW name \in EventName \ {"apply_result", "rewind_result"},
             NEW d \in Run \cup {NoRun}, NEW m \in Mark, Record(Entry(name, d, m))
      PROVE  RecordedIn(log') = RecordedIn(log)
  <2>1. log' = Append(log, Entry(name, d, m))
    BY <1>3 DEF Record
  <2>2. Entry(name, d, m) \in Event /\ Entry(name, d, m).event = name
    BY EntryType
  <2>3. QED
    BY <1>1, <2>1, <2>2, RecordedAppend
<1>4. ASSUME NEW d \in Run, FinishRun(d)
      PROVE  DriftInv'
  BY <1>2, <1>3, <1>4 DEF FinishRun, EventName, Mark
<1>5. ASSUME NEW d \in Run, ReviewDiff(d)
      PROVE  DriftInv'
  BY <1>2, <1>3, <1>5 DEF ReviewDiff, EventName, Mark
<1>6. ASSUME NEW d \in Run, CheckApply(d)
      PROVE  DriftInv'
  BY <1>2, <1>3, <1>6 DEF CheckApply, EventName, Mark
<1>7. ASSUME NEW d \in Run, NEW name \in {"apply_approval", "apply_rejection"},
             Decide(d, name)
      PROVE  DriftInv'
  BY <1>2, <1>3, <1>7 DEF Decide, EventName, Mark
<1>8. ASSUME NEW d \in Run, GitApply(d) \/ GitReverse(d)
      PROVE  DriftInv'
  <2>1. PICK name \in {"apply_result", "rewind_result"} :
            /\ inflight' = Entry(name, d, "ok")
            /\ tree' = IF name = "apply_result" THEN tree \cup {d} ELSE tree \ {d}
            /\ inflight = NoRun
            /\ log' = log /\ crashes' = crashes
    BY <1>8 DEF GitApply, GitReverse, Idle
  <2>2. /\ inflight' \in Event
        /\ inflight'.event = name /\ inflight'.diff = d /\ inflight'.mark = "ok"
    BY <2>1, EntryType DEF EventName, Mark
  <2>3. inflight' # NoRun
    BY <2>2, InflightAssumption
  <2>4. /\ Foretold = RecordedIn(log)
        /\ Foretold' = IF name = "apply_result" THEN RecordedIn(log) \cup {d}
                       ELSE RecordedIn(log) \ {d}
    BY <2>1, <2>2, <2>3 DEF Foretold, Through
  <2>5. Differs(tree, Foretold)' \subseteq Differs(tree, Foretold)
    BY <2>1, <2>4 DEF Differs
  <2>6. QED
    BY <1>1, <2>1, <2>2, <2>5, SmallerDrift
<1>9. ASSUME NEW d \in Run, DeleteArtifacts(d)
      PROVE  DriftInv'
  BY <1>2, <1>9 DEF DeleteArtifacts
<1>10. CASE RecordGitResult
  <2>1. /\ inflight # NoRun /\ inflight \in Event
        /\ inflight.event \in {"apply_result", "rewind_result"}
        /\ inflight.diff \in Run /\ inflight.mark = "ok"
        /\ log' = Append(log, inflight) /\ inflight' = NoRun
        /\ tree' = tree /\ crashes' = crashes
    BY <1>1, <1>10 DEF RecordGitResult, Record, InflightIsGit
  <2>2. RecordedIn(log') = Foretold
    BY <1>1, <2>1, RecordedAppend DEF Foretold
  <2>3. Foretold' = Foretold
    BY <2>1, <2>2 DEF Foretold, Through
  <2>4. QED
    BY <2>1, <2>3
<1>11. ASSUME NEW d \in Run \cup {NoRun}, RestoreCheckpoint(d)
       PROVE  DriftInv'
  BY <1>2, <1>3, <1>11 DEF RestoreCheckpoint, EventName, Mark
<1>12. CASE ClearSession
  BY <1>2, <1>3, <1>12 DEF ClearSession, EventName, Mark
<1>13. CASE Crash
  <2>1. /\ inflight' = NoRun /\ crashes' = crashes + 1
        /\ log' = log /\ tree' = tree
    BY <1>13 DEF Crash
  <2>2. Foretold' = RecordedIn(log)
    BY <2>1 DEF Foretold, Through
  <2>3. \E d : Differs(tree, Foretold)' \subseteq Differs(tree, Foretold) \cup {d}
    <3>1. Differs(tree, Foretold)' \subseteq Differs(tree, Foretold) \cup {inflight.diff}
      BY <2>1, <2>2 DEF Foretold, Through, Differs
    <3>2. QED
      BY <3>1
  <2>4. QED
    BY <1>1, <2>1, <2>3, DriftOfOne
<1>14. CASE Resume \/ UNCHANGED vars
  BY <1>2, <1>14 DEF Resume, vars
<1>15. QED
  BY <1>4, <1>5, <1>6, <1>7, <1>8, <1>9, <1>10, <1>11, <1>12, <1>13, <1>14 DEF Next

\* What the transcript tells differs from the tree by a diff per death and the
\* one whose result is in flight.
LEMMA DriftExplained ==
    ASSUME IInv, DriftInv
    PROVE  TreeIsExplained
<1>1. RecordedTree = RecordedIn(log)
  BY DEF RecordedTree, RecordedIn, GitRowAt, GitRows
<1>2. crashes \in Nat
  BY DEF IInv, TypeOK
<1>3. CASE inflight = NoRun
  <2>1. Foretold = RecordedIn(log)
    BY <1>3 DEF Foretold, Through
  <2>2. Cardinality(Differs(tree, RecordedIn(log))) <= crashes + 0
    BY <1>2, <2>1 DEF DriftInv
  <2>3. QED
    BY <1>1, <1>3, <2>2 DEF TreeIsExplained, Differs
<1>4. CASE inflight # NoRun
  <2>1. Differs(tree, RecordedIn(log)) \subseteq Differs(tree, Foretold) \cup {inflight.diff}
    BY <1>4 DEF Foretold, Through, Differs
  <2>2. Cardinality(Differs(tree, RecordedIn(log))) <= crashes + 1
    BY <1>2, <2>1, DriftOfOne DEF DriftInv
  <2>3. QED
    BY <1>1, <1>4, <2>2 DEF TreeIsExplained, Differs
<1>5. QED
  BY <1>3, <1>4

\* For any number of runs and deaths, transcript and tree differ by one diff
\* per death at most, and by the one whose result is about to be recorded
\* (TreeIsExplained).
THEOREM DriftIsBounded == Spec => []TreeIsExplained
<1>1. Init => DriftInv
  <2>1. ASSUME NEW d \in Run PROVE GitRowAt(<<>>, d) = 0
    <3>1. Positions(<<>>, GitRows(d)) = {}
      BY DEF Positions
    <3>2. QED
      BY <3>1 DEF GitRowAt, Newest
  <2>2. RecordedIn(<<>>) = {}
    BY <2>1 DEF RecordedIn
  <2>3. Init => Differs(tree, Foretold) = {}
    BY <2>2 DEF Init, Foretold, Through, Differs
  <2>4. QED
    BY <2>3, FS_EmptySet DEF Init, DriftInv
<1>2. IInv /\ DriftInv /\ [Next]_vars => DriftInv'
  BY DriftStep
<1>3. IInv /\ DriftInv => TreeIsExplained
  BY DriftExplained
<1>4. QED
  BY <1>1, <1>2, <1>3, Invariance, PTL DEF Spec

-----------------------------------------------------------------------------
(* The advice *)

\* A row of the transcript; /next reads more kinds of them than the gate does.
RowName == EventName \cup
    {"run_error", "plan_mode_task", "preflight", "plan_mode_cancel", "run_evidence",
     "session_gate", "diff_view", "verify_result", "session_checkpoint",
     "feedback_update", "budget_update", "doctor", "apply_blocked"}

Row == [event : RowName, diff : Run \cup {NoRun}, mark : Mark]

AdvTypeOK ==
    /\ log \in Seq(Row)
    /\ last \in Run \cup {NoRun}
    /\ inflight \in Event \cup {NoRun}
    /\ outcome \in [Run -> Outcome]

\* /next is asked after every command.
AdviceIsCurrent == advice = Advice(log, outcome)

\* What the gate reads of one diff.
GateRows == {"diff_review", "apply_check_result", "apply_approval", "apply_rejection"}

\* From a run to the next /restore or /clear, the gate's rows are all of the
\* diff that the commands act on.
CurrentDiff ==
    Undisturbed =>
        \A i \in 1..Len(log) :
            i > Latest(log, "run_result") /\ log[i].event \in GateRows => log[i].diff = last

\* A diff reaches the tree, and the transcript says so, only through the guard.
AppliesGuarded ==
    /\ \A i \in 1..Len(log) :
           log[i].event = "apply_result" => GuardPasses(SubSeq(log, 1, i - 1), log[i].diff)
    /\ inflight # NoRun /\ inflight.event = "apply_result" => GuardPasses(log, inflight.diff)

GitResult == {"apply_result", "rewind_result"}

AdvInflightIsGit == inflight # NoRun => inflight.event \in GitResult

AdvIInv ==
    /\ AdvTypeOK
    /\ HasNewest(log)
    /\ AdviceIsCurrent
    /\ CurrentDiff
    /\ AppliesGuarded
    /\ AdvInflightIsGit

-----------------------------------------------------------------------------
(* The transcript *)

\* Appending a row keeps the old rows where they are and adds one at the end.
LEMMA RowAppend ==
    ASSUME NEW s \in Seq(Row), NEW e \in Row
    PROVE  /\ Append(s, e) \in Seq(Row)
           /\ Len(s) \in Nat
           /\ Len(Append(s, e)) = Len(s) + 1
           /\ Append(s, e)[Len(s) + 1] = e
           /\ \A i \in 1..Len(s) : Append(s, e)[i] = s[i]
OBVIOUS

\* An entry made of known parts is a row.
LEMMA RowType ==
    ASSUME NEW name \in RowName, NEW d \in Run \cup {NoRun}, NEW mark \in Mark
    PROVE  /\ Entry(name, d, mark) \in Row
           /\ Entry(name, d, mark).event = name
           /\ Entry(name, d, mark).diff = d
           /\ Entry(name, d, mark).mark = mark
BY DEF Entry, Row

\* The newest of a set of positions, when every set of them has a largest one.
LEMMA NewestIn ==
    ASSUME NEW s \in Seq(Row), HasNewest(s), NEW S \in SUBSET (1..Len(s))
    PROVE  /\ Newest(S) \in 0..Len(s)
           /\ S # {} => Newest(S) # 0
           /\ Newest(S) # 0 => Newest(S) \in S
           /\ \A i \in S : i <= Newest(S)
<1>1. Len(s) \in Nat
  OBVIOUS
<1>2. CASE S = {}
  <2>1. Newest(S) = 0
    BY <1>2 DEF Newest
  <2>2. Newest(S) \in 0..Len(s)
    BY <1>1, <2>1
  <2>3. \A i \in S : i <= Newest(S)
    BY <1>2
  <2>4. QED
    BY <1>2, <2>1, <2>2, <2>3
<1>3. CASE S # {}
  <2>1. \E i \in S : \A j \in S : j <= i
    BY <1>3 DEF HasNewest
  <2>2. Newest(S) \in S /\ \A j \in S : j <= Newest(S)
    BY <1>3, <2>1 DEF Newest
  <2>3. Newest(S) \in 1..Len(s)
    BY <2>2
  <2>4. Newest(S) \in 0..Len(s) /\ Newest(S) # 0
    BY <1>1, <2>3
  <2>5. QED
    BY <2>2, <2>4
<1>4. QED
  BY <1>2, <1>3

\* The newest row of a kind.
LEMMA LatestRow ==
    ASSUME NEW s \in Seq(Row), HasNewest(s), NEW name
    PROVE  /\ Latest(s, name) \in 0..Len(s)
           /\ Latest(s, name) # 0 => s[Latest(s, name)].event = name
           /\ \A i \in 1..Len(s) : s[i].event = name => i <= Latest(s, name)
<1>1. Named(s, {name}) \in SUBSET (1..Len(s))
  BY DEF Named
<1>2. QED
  BY <1>1, NewestIn DEF Latest, Named

\* A longer transcript still has a largest row in every set.
LEMMA HasNewestAmongRows ==
    ASSUME NEW s \in Seq(Row), HasNewest(s), NEW e \in Row
    PROVE  HasNewest(Append(s, e))
<1>1. Len(Append(s, e)) = Len(s) + 1 /\ Len(s) \in Nat
  BY RowAppend
<1> SUFFICES ASSUME NEW T \in SUBSET (1..(Len(s) + 1)), T # {}
             PROVE  \E i \in T : \A j \in T : j <= i
  BY <1>1 DEF HasNewest
<1>2. CASE Len(s) + 1 \in T
  BY <1>1, <1>2
<1>3. CASE Len(s) + 1 \notin T
  <2>1. T \in SUBSET (1..Len(s))
    BY <1>1, <1>3
  <2>2. QED
    BY <2>1 DEF HasNewest
<1>4. QED
  BY <1>2, <1>3

\* What one more row does to the rows of given names, and to the newest of a name.
LEMMA NamedAppend ==
    ASSUME NEW s \in Seq(Row), NEW e \in Row, NEW names
    PROVE  Named(Append(s, e), names)
               = IF e.event \in names THEN Named(s, names) \cup {Len(s) + 1}
                 ELSE Named(s, names)
BY RowAppend DEF Named

LEMMA NewestNamedAppend ==
    ASSUME NEW s \in Seq(Row), HasNewest(s), NEW e \in Row, NEW names
    PROVE  Newest(Named(Append(s, e), names))
               = IF e.event \in names THEN Len(s) + 1 ELSE Newest(Named(s, names))
<1>1. Len(s) \in Nat /\ Named(s, names) \in SUBSET (1..Len(s))
  BY DEF Named
<1>2. CASE e.event \in names
  <2> DEFINE S == Named(s, names) \cup {Len(s) + 1}
  <2>1. \A j \in S : j \in Nat /\ j <= Len(s) + 1
    BY <1>1
  <2>2. Len(s) + 1 \in S
    OBVIOUS
  <2>3. Named(Append(s, e), names) = S
    BY <1>2, NamedAppend
  <2> HIDE DEF S
  <2>4. S \in SUBSET Nat
    BY <2>1
  <2>5. Newest(S) = Len(s) + 1
    BY <2>1, <2>2, <2>4, NewestUnique
  <2>6. QED
    BY <1>2, <2>3, <2>5
<1>3. CASE e.event \notin names
  BY <1>3, NamedAppend
<1>4. QED
  BY <1>2, <1>3

LEMMA LatestAppend ==
    ASSUME NEW s \in Seq(Row), HasNewest(s), NEW e \in Row, NEW name
    PROVE  Latest(Append(s, e), name)
               = IF e.event = name THEN Len(s) + 1 ELSE Latest(s, name)
BY NewestNamedAppend DEF Latest

\* The prefixes of a transcript do not change when it grows.
LEMMA PrefixAppend ==
    ASSUME NEW s \in Seq(Row), NEW e \in Row, NEW i \in 1..(Len(s) + 1)
    PROVE  SubSeq(Append(s, e), 1, i - 1)
               = IF i = Len(s) + 1 THEN s ELSE SubSeq(s, 1, i - 1)
<1> DEFINE t == Append(s, e)
<1>1. /\ t \in Seq(Row)
      /\ Len(s) \in Nat
      /\ \A j \in 1..Len(s) : t[j] = s[j]
  BY RowAppend
<1>2. i - 1 \in 0..Len(s)
  BY <1>1
<1>3. /\ SubSeq(t, 1, i - 1) \in Seq(Row)
      /\ Len(SubSeq(t, 1, i - 1)) = i - 1
      /\ \A j \in 1..(i - 1) : SubSeq(t, 1, i - 1)[j] = t[j]
  <2>1. \A j \in 1..(i - 1) : t[j] \in Row
    BY <1>1, <1>2
  <2>2. QED
    BY <1>1, <1>2, <2>1, SubSeqProperties
<1>4. /\ SubSeq(s, 1, i - 1) \in Seq(Row)
      /\ Len(SubSeq(s, 1, i - 1)) = i - 1
      /\ \A j \in 1..(i - 1) : SubSeq(s, 1, i - 1)[j] = s[j]
  <2>1. \A j \in 1..(i - 1) : s[j] \in Row
    BY <1>1, <1>2
  <2>2. QED
    BY <1>1, <1>2, <2>1, SubSeqProperties
<1>5. SubSeq(t, 1, i - 1) = SubSeq(s, 1, i - 1)
  BY <1>1, <1>2, <1>3, <1>4, SeqEqual
<1>6. SubSeq(s, 1, Len(s)) = s
  BY SubSeqFull
<1>7. QED
  BY <1>1, <1>5, <1>6

-----------------------------------------------------------------------------
(* What a step does to the transcript *)

\* A row that moves no target; the gate's rows are of the diff the commands act
\* on, and an apply that is recorded went through the guard.
PlainRow ==
    \E e \in Row :
        /\ log' = Append(log, e) /\ last' = last /\ inflight' = NoRun
        /\ e.event \notin Moves
        /\ e.event \in GateRows => e.diff = last
        /\ e.event = "apply_result" => GuardPasses(log, e.diff)

\* A run, a /restore or a /clear.
MoveRow ==
    \E e \in Row :
        /\ log' = Append(log, e) /\ inflight' = NoRun
        /\ e.event \in Moves

\* A git operation whose row is still to come.
GitStep ==
    /\ log' = log /\ last' = last
    /\ inflight' \in Event /\ inflight'.event \in GitResult
    /\ inflight'.event = "apply_result" => GuardPasses(log, inflight'.diff)

\* A command that only leaves its row.
LEMMA NoteIsPlain ==
    ASSUME NEW name \in RowName, name \notin Moves \cup GateRows \cup {"apply_result"},
           NEW mark \in Mark, Note(name, mark)
    PROVE  PlainRow
<1>1. /\ log' = Append(log, Entry(name, NoRun, mark))
      /\ last' = last /\ inflight' = NoRun
  BY DEF Note, Record, Idle
<1>2. Entry(name, NoRun, mark) \in Row /\ Entry(name, NoRun, mark).event = name
  BY RowType
<1>3. QED
  BY <1>1, <1>2 DEF PlainRow

\* The commands of the gate.
LEMMA GateStep ==
    ASSUME AdvIInv, GateCommand
    PROVE  PlainRow \/ MoveRow \/ GitStep
<1>1. PICK d \in Run : \/ ReviewDiff(d) \/ CheckApply(d)
                       \/ Decide(d, "apply_approval") \/ Decide(d, "apply_rejection")
                       \/ GitApply(d) \/ GitReverse(d) \/ RestoreCheckpoint(d)
  BY DEF GateCommand
<1>2. ASSUME NEW name \in GateRows, NEW m \in Mark, last = d,
             log' = Append(log, Entry(name, d, m)), last' = last, inflight' = NoRun
      PROVE  PlainRow
  <2>1. /\ Entry(name, d, m) \in Row
        /\ Entry(name, d, m).event = name /\ Entry(name, d, m).diff = d
    BY RowType DEF GateRows, RowName, EventName
  <2>2. name \notin Moves /\ name # "apply_result"
    BY DEF GateRows, Moves
  <2>3. QED
    BY <1>2, <2>1, <2>2 DEF PlainRow
<1>3. CASE ReviewDiff(d)
  <2>1. PICK m \in {"plain", "guarded"} : log' = Append(log, Entry("diff_review", d, m))
    BY <1>3 DEF ReviewDiff, Record
  <2>2. last = d /\ last' = last /\ inflight' = NoRun
    BY <1>3 DEF ReviewDiff, Idle
  <2>3. QED
    BY <1>2, <2>1, <2>2 DEF GateRows, Mark
<1>4. CASE CheckApply(d)
  <2>1. PICK m \in {"ok", "refused"} : log' = Append(log, Entry("apply_check_result", d, m))
    BY <1>4 DEF CheckApply, Record
  <2>2. last = d /\ last' = last /\ inflight' = NoRun
    BY <1>4 DEF CheckApply, Idle
  <2>3. QED
    BY <1>2, <2>1, <2>2 DEF GateRows, Mark
<1>5. ASSUME NEW name \in {"apply_approval", "apply_rejection"}, Decide(d, name)
      PROVE  PlainRow
  <2>1. /\ log' = Append(log, Entry(name, d, "none"))
        /\ last = d /\ last' = last /\ inflight' = NoRun
    BY <1>5 DEF Decide, Record, Idle
  <2>2. QED
    BY <1>2, <2>1 DEF GateRows, Mark
<1>6. CASE GitApply(d) \/ GitReverse(d)
  <2>1. PICK name \in GitResult :
            /\ inflight' = Entry(name, d, "ok")
            /\ log' = log /\ last' = last
            /\ name = "apply_result" => GuardPasses(log, d)
    BY <1>6 DEF GitApply, GitReverse, GitResult
  <2>2. /\ Entry(name, d, "ok") \in Event
        /\ Entry(name, d, "ok").event = name /\ Entry(name, d, "ok").diff = d
    BY DEF Entry, Event, EventName, Mark, GitResult
  <2>3. QED
    BY <2>1, <2>2 DEF GitStep
<1>7. CASE RestoreCheckpoint(d)
  <2>1. log' = Append(log, Entry("session_restore", d, "none")) /\ inflight' = NoRun
    BY <1>7 DEF RestoreCheckpoint, Record, Idle
  <2>2. /\ Entry("session_restore", d, "none") \in Row
        /\ Entry("session_restore", d, "none").event = "session_restore"
    BY RowType DEF Mark, RowName, EventName
  <2>3. QED
    BY <2>1, <2>2 DEF MoveRow, Moves
<1>8. QED
  BY <1>1, <1>3, <1>4, <1>5, <1>6, <1>7

\* Every step is one of these.
LEMMA StepKinds ==
    ASSUME AdvIInv, [AdvNext]_advVars
    PROVE  PlainRow \/ MoveRow \/ GitStep \/ UNCHANGED <<log, last, inflight>>
<1> USE DEF AdvIInv
<1>1. ASSUME NEW d \in Run, RunTask(d)
      PROVE  MoveRow
  <2>1. log' = Append(log, Entry("run_result", d, "none")) /\ inflight' = NoRun
    BY <1>1 DEF RunTask, FinishRun, Record, Idle
  <2>2. /\ Entry("run_result", d, "none") \in Row
        /\ Entry("run_result", d, "none").event = "run_result"
    BY RowType DEF Mark, RowName, EventName
  <2>3. QED
    BY <2>1, <2>2 DEF MoveRow, Moves
<1>2. ASSUME NEW name \in {"run_error", "plan_mode_task", "preflight", "plan_mode_cancel",
                           "run_evidence", "session_gate", "diff_view", "verify_result",
                           "session_checkpoint", "feedback_update", "budget_update",
                           "doctor", "apply_blocked"},
             NEW mark \in {"none", "ok", "refused"}, Note(name, mark)
      PROVE  PlainRow
  BY <1>2, NoteIsPlain DEF Moves, GateRows, Mark, RowName
<1>3. CASE RunError \/ PlanTask \/ Preflight \/ CancelPlan \/ Trace
  BY <1>2, <1>3 DEF RunError, PlanTask, Preflight, CancelPlan, Trace
<1>4. CASE GateClean \/ ViewDiff \/ Verify \/ Checkpoint \/ Feedback
  BY <1>2, <1>4 DEF GateClean, ViewDiff, Verify, Checkpoint, Feedback
<1>5. CASE RaiseBudget \/ Doctor \/ ApplyBlocked
  BY <1>2, <1>5 DEF RaiseBudget, Doctor, ApplyBlocked
<1>6. CASE ApplyRefused
  <2>1. /\ log' = Append(log, Entry("apply_result", last, "refused"))
        /\ last' = last /\ inflight' = NoRun /\ GuardPasses(log, last)
    BY <1>6 DEF ApplyRefused, Record, Idle
  <2>2. /\ Entry("apply_result", last, "refused") \in Row
        /\ Entry("apply_result", last, "refused").event = "apply_result"
        /\ Entry("apply_result", last, "refused").diff = last
    BY RowType DEF Mark, RowName, EventName, AdvTypeOK
  <2>3. "apply_result" \notin Moves /\ "apply_result" \notin GateRows
    BY DEF Moves, GateRows
  <2>4. QED
    BY <2>1, <2>2, <2>3 DEF PlainRow
<1>7. CASE GateCommand
  BY <1>7, GateStep
<1>8. CASE RecordGit
  <2>1. /\ inflight \in Event /\ inflight.event \in GitResult
        /\ log' = Append(log, inflight) /\ last' = last /\ inflight' = NoRun
        /\ inflight.event = "apply_result" => GuardPasses(log, inflight.diff)
    BY <1>8 DEF RecordGit, RecordGitResult, Record, AdvTypeOK, AdvInflightIsGit, AppliesGuarded
  <2>2. inflight \in Row
    BY <2>1 DEF Event, RowName, Row
  <2>3. inflight.event \notin Moves /\ inflight.event \notin GateRows
    BY <2>1 DEF Moves, GateRows, GitResult
  <2>4. QED
    BY <2>1, <2>2, <2>3 DEF PlainRow
<1>9. CASE Clear
  <2>1. log' = Append(log, Entry("session_clear", NoRun, "none")) /\ inflight' = NoRun
    BY <1>9 DEF Clear, ClearSession, Record, Idle
  <2>2. /\ Entry("session_clear", NoRun, "none") \in Row
        /\ Entry("session_clear", NoRun, "none").event = "session_clear"
    BY RowType DEF Mark, RowName, EventName
  <2>3. QED
    BY <2>1, <2>2 DEF MoveRow, Moves
<1>10. CASE UNCHANGED advVars
  BY <1>10 DEF advVars
<1>11. QED
  BY <1>1, <1>3, <1>4, <1>5, <1>6, <1>7, <1>8, <1>9, <1>10 DEF AdvNext

-----------------------------------------------------------------------------
(* The inductive invariant *)

\* The types of what the proofs read.
LEMMA AdvTypeStep ==
    ASSUME AdvIInv, [AdvNext]_advVars
    PROVE  AdvTypeOK'
<1> USE DEF AdvIInv, AdvTypeOK
<1>1. log' \in Seq(Row) /\ inflight' \in Event \cup {NoRun}
  BY StepKinds, RowAppend DEF PlainRow, MoveRow, GitStep
<1>2. last' \in Run \cup {NoRun}
  BY DEF AdvNext, advVars, RunTask, RunError, PlanTask, Preflight, CancelPlan, Trace,
         GateClean, ViewDiff, Verify, Checkpoint, Feedback, RaiseBudget, Doctor,
         ApplyBlocked, ApplyRefused, GateCommand, RecordGit, Clear, Note, FinishRun,
         ReviewDiff, CheckApply, Decide, GitApply, GitReverse, RestoreCheckpoint,
         RecordGitResult, ClearSession
<1>3. outcome' \in [Run -> Outcome]
  <2>1. ASSUME NEW d \in Run, RunTask(d)
        PROVE  outcome' \in [Run -> Outcome]
    BY <2>1 DEF RunTask
  <2>2. QED
    BY <2>1
       DEF AdvNext, advVars, RunError, PlanTask, Preflight, CancelPlan, Trace,
           GateClean, ViewDiff, Verify, Checkpoint, Feedback, RaiseBudget, Doctor,
           ApplyBlocked, ApplyRefused, GateCommand, RecordGit, Clear, Note
<1>4. QED
  BY <1>1, <1>2, <1>3

\* /next answers after every step.
LEMMA AdviceIsCurrentStep ==
    ASSUME AdvIInv, [AdvNext]_advVars
    PROVE  AdviceIsCurrent'
BY DEF AdvIInv, AdviceIsCurrent, AdvNext, advVars, RunTask, RunError, PlanTask, Preflight,
       CancelPlan, Trace, GateClean, ViewDiff, Verify, Checkpoint, Feedback, RaiseBudget,
       Doctor, ApplyBlocked, ApplyRefused, GateCommand, RecordGit, Clear, Give

\* A move ends the undisturbed stretch or starts a new one, without rows of the gate.
LEMMA CurrentDiffStep ==
    ASSUME AdvIInv, [AdvNext]_advVars
    PROVE  CurrentDiff'
<1> USE DEF AdvIInv
<1>1. log \in Seq(Row) /\ HasNewest(log) /\ Len(log) \in Nat
  BY DEF AdvTypeOK
<1>2. Latest(log, "run_result") \in 0..Len(log)
  BY <1>1, LatestRow
<1>3. CASE PlainRow
  <2>1. PICK e \in Row : /\ log' = Append(log, e) /\ last' = last
                         /\ e.event \notin Moves
                         /\ e.event \in GateRows => e.diff = last
    BY <1>3 DEF PlainRow
  <2>2. Latest(log', "run_result") = Latest(log, "run_result")
    BY <1>1, <2>1, LatestAppend DEF Moves
  <2>3. Named(log', {"session_clear", "session_restore"})
            = Named(log, {"session_clear", "session_restore"})
    BY <1>1, <2>1, NamedAppend DEF Moves
  <2>4. Undisturbed' => Undisturbed
    BY <2>2, <2>3 DEF Undisturbed
  <2>5. /\ Len(log') = Len(log) + 1 /\ log'[Len(log) + 1] = e
        /\ \A i \in 1..Len(log) : log'[i] = log[i]
    BY <1>1, <2>1, RowAppend
  <2>6. QED
    BY <1>1, <2>1, <2>2, <2>4, <2>5 DEF CurrentDiff
<1>4. CASE MoveRow
  <2>1. PICK e \in Row : log' = Append(log, e) /\ e.event \in Moves
    BY <1>4 DEF MoveRow
  <2>2. Len(log') = Len(log) + 1
    BY <1>1, <2>1, RowAppend
  <2>3. CASE e.event = "run_result"
    <3>1. Latest(log', "run_result") = Len(log')
      BY <1>1, <2>1, <2>2, <2>3, LatestAppend
    <3>2. QED
      BY <1>1, <2>2, <3>1 DEF CurrentDiff
  <2>4. CASE e.event # "run_result"
    <3>1. Latest(log', "run_result") = Latest(log, "run_result")
      BY <1>1, <2>1, <2>4, LatestAppend
    <3>2. Len(log) + 1 \in Named(log', {"session_clear", "session_restore"})
      BY <1>1, <2>1, <2>4, NamedAppend DEF Moves
    <3>3. ~Undisturbed'
      BY <1>1, <1>2, <3>1, <3>2 DEF Undisturbed
    <3>4. QED
      BY <3>3 DEF CurrentDiff
  <2>5. QED
    BY <2>3, <2>4
<1>5. CASE GitStep \/ UNCHANGED <<log, last, inflight>>
  BY <1>5 DEF GitStep, CurrentDiff, Undisturbed
<1>6. QED
  BY <1>3, <1>4, <1>5, StepKinds

\* The prefix before an apply stays what the guard saw.
LEMMA AppliesGuardedStep ==
    ASSUME AdvIInv, [AdvNext]_advVars
    PROVE  AppliesGuarded'
<1> USE DEF AdvIInv
<1>1. log \in Seq(Row) /\ Len(log) \in Nat
  BY DEF AdvTypeOK
<1>2. ASSUME NEW e \in Row, log' = Append(log, e), inflight' = NoRun,
             e.event = "apply_result" => GuardPasses(log, e.diff)
      PROVE  AppliesGuarded'
  <2>1. /\ Len(log') = Len(log) + 1 /\ log'[Len(log) + 1] = e
        /\ \A i \in 1..Len(log) : log'[i] = log[i]
    BY <1>1, <1>2, RowAppend
  <2>2. \A i \in 1..Len(log) : SubSeq(log', 1, i - 1) = SubSeq(log, 1, i - 1)
    BY <1>1, <1>2, PrefixAppend
  <2>3. SubSeq(log', 1, Len(log) + 1 - 1) = log
    BY <1>1, <1>2, PrefixAppend
  <2>4. ASSUME NEW i \in 1..Len(log'), log'[i].event = "apply_result"
        PROVE  GuardPasses(SubSeq(log', 1, i - 1), log'[i].diff)
    <3>1. CASE i \in 1..Len(log)
      BY <2>1, <2>2, <2>4, <3>1 DEF AppliesGuarded
    <3>2. CASE i = Len(log) + 1
      <4>1. log'[i] = e /\ SubSeq(log', 1, i - 1) = log
        BY <2>1, <2>3, <3>2
      <4>2. QED
        BY <1>2, <2>4, <4>1
    <3>3. QED
      BY <1>1, <2>1, <3>1, <3>2
  <2>5. QED
    BY <1>2, <2>4 DEF AppliesGuarded
<1>3. CASE PlainRow
  BY <1>2, <1>3 DEF PlainRow
<1>4. CASE MoveRow
  BY <1>2, <1>4 DEF MoveRow, Moves
<1>5. CASE GitStep \/ UNCHANGED <<log, last, inflight>>
  BY <1>5 DEF GitStep, AppliesGuarded
<1>6. QED
  BY <1>3, <1>4, <1>5, StepKinds

\* The inductive invariant holds for ever.
LEMMA AdvInvariance == AdvSpec => []AdvIInv
<1>1. AdvInit => AdvIInv
  <2> SUFFICES ASSUME AdvInit
               PROVE  AdvIInv
    OBVIOUS
  <2>1. log = <<>> /\ inflight = NoRun /\ last = NoRun /\ advice = "start"
    BY DEF AdvInit, Init
  <2>2. AdvTypeOK
    BY <2>1 DEF AdvInit, AdvTypeOK, Outcome
  <2>3. Len(<<>>) = 0 /\ 1..0 = {}
    OBVIOUS
  <2>4. HasNewest(log)
    BY <2>1, <2>3, Zenon DEF HasNewest
  <2>5. ASSUME NEW names PROVE Named(<<>>, names) = {}
    BY <2>3 DEF Named
  <2>6. AdviceIsCurrent
    <3>1. ~PlanPending(<<>>) /\ Runs(<<>>) = {} /\ ~PreflightBlocked(<<>>)
      BY <2>5 DEF PlanPending, Runs, PreflightBlocked, Latest, Newest
    <3>2. QED
      BY <2>1, <3>1 DEF AdviceIsCurrent, Advice
  <2>7. CurrentDiff /\ AppliesGuarded /\ AdvInflightIsGit
    BY <2>1 DEF CurrentDiff, AppliesGuarded, AdvInflightIsGit
  <2>8. QED
    BY <2>2, <2>4, <2>6, <2>7 DEF AdvIInv
<1>2. AdvIInv /\ [AdvNext]_advVars => AdvIInv'
  <2> SUFFICES ASSUME AdvIInv, [AdvNext]_advVars
               PROVE  AdvIInv'
    OBVIOUS
  <2>1. HasNewest(log')
    BY StepKinds, HasNewestAmongRows DEF AdvIInv, AdvTypeOK, PlainRow, MoveRow, GitStep
  <2>2. AdvInflightIsGit'
    BY StepKinds DEF AdvIInv, AdvInflightIsGit, PlainRow, MoveRow, GitStep
  <2>3. QED
    BY <2>1, <2>2, AdvTypeStep, AdviceIsCurrentStep, CurrentDiffStep, AppliesGuardedStep
       DEF AdvIInv
<1>3. QED
  BY <1>1, <1>2, PTL DEF AdvSpec

-----------------------------------------------------------------------------
(* The advice and the guard read the same rows *)

\* A row with one of the gate's names is an event of the gate.
LEMMA RowIsEvent ==
    ASSUME NEW e \in Row, e.event \in EventName
    PROVE  e \in Event
BY DEF Row, Event

\* The newest run, as the guard finds it and as the advice does.
LEMMA SameRun ==
    ASSUME AdvIInv
    PROVE  /\ LatestRun(log) = Latest(log, "run_result")
           /\ Latest(log, "run_result") \in 0..Len(log)
           /\ Len(log) \in Nat
<1>1. log \in Seq(Row) /\ HasNewest(log)
  BY DEF AdvIInv, AdvTypeOK
<1>2. \A i \in 1..Len(log) :
          log[i] \in {e \in Event : e.event = "run_result"} <=> log[i].event = "run_result"
  BY <1>1, RowIsEvent DEF EventName
<1>3. Positions(log, {e \in Event : e.event = "run_result"}) = Named(log, {"run_result"})
  BY <1>2 DEF Positions, Named
<1>4. LatestRun(log) = Latest(log, "run_result")
  BY <1>3 DEF LatestRun, Latest
<1>5. QED
  BY <1>1, <1>4, LatestRow

\* The newest row of a kind, and the newest of the current diff: the same one
\* when it follows the newest run.
LEMMA SameRow ==
    ASSUME AdvIInv, Undisturbed, NEW name \in GateRows
    PROVE  /\ LatestOf(log, name, last) \in 0..Latest(log, name)
           /\ Latest(log, name) \in 0..Len(log)
           /\ Latest(log, name) > Latest(log, "run_result")
                  => LatestOf(log, name, last) = Latest(log, name)
           /\ Latest(log, name) # 0 => log[Latest(log, name)].event = name
           /\ LatestOf(log, name, last) # 0 => log[LatestOf(log, name, last)].event = name
<1> DEFINE S == Positions(log, Events(name, last))
<1>1. /\ log \in Seq(Row) /\ HasNewest(log) /\ Len(log) \in Nat
      /\ CurrentDiff
  BY DEF AdvIInv, AdvTypeOK
<1>2. S \in SUBSET (1..Len(log)) /\ LatestOf(log, name, last) = Newest(S)
  BY DEF Positions, LatestOf
<1>3. /\ Latest(log, name) \in 0..Len(log)
      /\ Latest(log, name) # 0 => log[Latest(log, name)].event = name
      /\ \A i \in 1..Len(log) : log[i].event = name => i <= Latest(log, name)
  BY <1>1, LatestRow
<1>4. ASSUME NEW i \in 1..Len(log)
      PROVE  i \in S <=> log[i].event = name /\ log[i].diff = last
  <2>1. log[i].event = name => log[i] \in Event
    BY <1>1, RowIsEvent DEF GateRows, EventName
  <2>2. QED
    BY <2>1 DEF Positions, Events
<1> HIDE DEF S
<1>5. /\ Newest(S) \in 0..Len(log)
      /\ Newest(S) # 0 => Newest(S) \in S
      /\ \A i \in S : i <= Newest(S)
  BY <1>1, <1>2, NewestIn
<1>6. Newest(S) # 0 => log[Newest(S)].event = name
  BY <1>2, <1>4, <1>5
<1>7. Newest(S) \in 0..Latest(log, name)
  BY <1>1, <1>3, <1>5, <1>6
<1>8. ASSUME Latest(log, name) > Latest(log, "run_result")
      PROVE  Newest(S) = Latest(log, name)
  <2>1. Latest(log, name) \in 1..Len(log)
    BY <1>1, <1>3, <1>8, SameRun
  <2>2. log[Latest(log, name)].event = name /\ log[Latest(log, name)].diff = last
    BY <1>1, <1>3, <1>8, <2>1 DEF CurrentDiff
  <2>3. Latest(log, name) <= Newest(S)
    BY <1>4, <1>5, <2>1, <2>2
  <2>4. QED
    BY <1>1, <1>3, <1>5, <1>7, <2>3
<1>9. QED
  BY <1>2, <1>3, <1>6, <1>7, <1>8

\* What /next calls the stage of the current diff, and what the guard makes of it.
LEMMA StageMatchesGuard ==
    ASSUME AdvIInv, Undisturbed, Latest(log, "diff_review") > Latest(log, "run_result")
    PROVE  /\ ApplyStage(log) = "apply" => GuardPasses(log, last)
           /\ ApplyStage(log) = "revise" => Prerequisites(log, last) /\ Rejected(log, last)
<1> DEFINE run == Latest(log, "run_result")
           review == Latest(log, "diff_review")
           check == Latest(log, "apply_check_result")
           approval == Latest(log, "apply_approval")
           rejection == Latest(log, "apply_rejection")
<1>1. /\ LatestRun(log) = run /\ run \in 0..Len(log) /\ Len(log) \in Nat
  BY SameRun
<1>2. /\ ReviewAt(log, last) = review /\ review \in 0..Len(log)
      /\ log[review].event = "diff_review"
  BY <1>1, SameRow DEF ReviewAt, GateRows
<1>3. /\ CheckAt(log, last) \in 0..check /\ check \in 0..Len(log)
      /\ check > run => CheckAt(log, last) = check
      /\ check # 0 => log[check].event = "apply_check_result"
  BY SameRow DEF CheckAt, GateRows
<1>4. /\ ApprovalAt(log, last) \in 0..approval /\ approval \in 0..Len(log)
      /\ approval > run => ApprovalAt(log, last) = approval
  BY SameRow DEF ApprovalAt, GateRows
<1>5. /\ RejectedAt(log, last) \in 0..rejection /\ rejection \in 0..Len(log)
      /\ rejection > run => RejectedAt(log, last) = rejection
  BY SameRow DEF RejectedAt, GateRows
<1>6. ASSUME ApplyStage(log) \in {"apply", "revise"}
      PROVE  check >= review /\ log[check].mark = "ok"
  <2>1. ~(check < review) /\ log[check].mark = "ok"
    BY <1>6 DEF ApplyStage
  <2>2. QED
    BY <1>1, <1>2, <1>3, <2>1
<1>7. ASSUME ApplyStage(log) \in {"apply", "revise"}
      PROVE  CheckAt(log, last) = check /\ check > run /\ Prerequisites(log, last)
  <2>1. CheckAt(log, last) = check /\ check > run
    BY <1>1, <1>2, <1>3, <1>6, <1>7
  <2>2. Reviewed(log, last) /\ Checked(log, last) /\ Ready(log, last)
    BY <1>1, <1>2, <1>3, <1>6, <1>7, <2>1 DEF Reviewed, Checked, Ready
  <2>3. QED
    BY <2>1, <2>2 DEF Prerequisites
<1>8. ASSUME ApplyStage(log) = "revise"
      PROVE  Rejected(log, last)
  <2>1. RejectionStands(log)
    BY <1>8 DEF ApplyStage
  <2>2. rejection >= check /\ rejection > approval
    BY <2>1 DEF RejectionStands
  <2>3. QED
    BY <1>1, <1>3, <1>4, <1>5, <1>7, <1>8, <2>2 DEF Rejected
<1>9. ASSUME ApplyStage(log) = "apply"
      PROVE  GuardPasses(log, last)
  <2>1. ~RejectionStands(log) /\ (log[review].mark = "guarded" => ~(approval < check))
    BY <1>9 DEF ApplyStage
  <2>2. ~Rejected(log, last)
    BY <1>1, <1>3, <1>4, <1>5, <1>7, <1>9, <2>1 DEF RejectionStands, Rejected
  <2>3. NeedsApproval(log, last) => ~Unapproved(log, last)
    BY <1>1, <1>2, <1>3, <1>4, <1>7, <1>9, <2>1 DEF NeedsApproval, Unapproved
  <2>4. QED
    BY <1>7, <1>9, <2>2, <2>3 DEF GuardPasses
<1>10. QED
  BY <1>7, <1>8, <1>9

\* Until the next /restore or /clear, /apply is advised only of what the guard
\* lets through, and a rejection is why another attempt is advised in its place
\* (AdviceMatchesGuard).
THEOREM AdviceAgreesWithGuard == AdvSpec => []AdviceMatchesGuard
<1>1. ASSUME AdvIInv
      PROVE  AdviceMatchesGuard
  <2> SUFFICES ASSUME Undisturbed, advice \in {"apply", "revise"}
               PROVE  /\ advice = "apply" => GuardPasses(log, last)
                      /\ advice = "revise" => Prerequisites(log, last) /\ Rejected(log, last)
    BY DEF AdviceMatchesGuard
  <2>1. advice = Advice(log, outcome)
    BY <1>1 DEF AdvIInv, AdviceIsCurrent
  <2>2. advice = PromotionStage(log)
    BY <2>1 DEF Advice
  <2>3. advice = ApplyStage(log) /\ Latest(log, "diff_review") > Latest(log, "run_result")
    BY <2>2 DEF PromotionStage
  <2>4. QED
    BY <1>1, <2>3, StageMatchesGuard
<1>2. QED
  BY <1>1, AdvInvariance, PTL

\* What /gate reviewed lets through, /apply lets through without an approval,
\* rejections and later dry runs aside (ReviewedGateMatchesGuard).
THEOREM ReviewedGateAgreesWithGuard == AdvSpec => []ReviewedGateMatchesGuard
<1>1. ASSUME AdvIInv
      PROVE  ReviewedGateMatchesGuard
  <2> SUFFICES ASSUME Undisturbed, ReviewedPasses(log, outcome),
                      ~Rejected(log, last), Ready(log, last)
               PROVE  GuardPasses(log, last)
    BY DEF ReviewedGateMatchesGuard
  <2> DEFINE review == Latest(log, "diff_review")
             check == Latest(log, "apply_check_result")
  <2>1. /\ LatestRun(log) = Latest(log, "run_result")
        /\ Latest(log, "run_result") \in 0..Len(log) /\ Len(log) \in Nat
    BY <1>1, SameRun
  <2>2. /\ review > Latest(log, "run_result") /\ log[review].mark # "guarded"
        /\ CurrentReadyChecks(log) # {}
    BY DEF ReviewedPasses
  <2>3. ReviewAt(log, last) = review /\ review \in 0..Len(log)
    BY <1>1, <2>2, SameRow DEF ReviewAt, GateRows
  <2>4. PICK i \in 1..Len(log) : log[i].event = "apply_check_result" /\ i > review
    BY <2>2 DEF CurrentReadyChecks, Named
  <2>5. i <= check /\ check \in 0..Len(log)
    BY <1>1, <2>4, LatestRow DEF AdvIInv, AdvTypeOK
  <2>6. CheckAt(log, last) = check
    <3>1. check > Latest(log, "run_result")
      BY <2>1, <2>2, <2>3, <2>4, <2>5
    <3>2. QED
      BY <1>1, <3>1, SameRow DEF CheckAt, GateRows
  <2>7. Reviewed(log, last) /\ Checked(log, last)
    BY <2>1, <2>2, <2>3, <2>4, <2>5, <2>6 DEF Reviewed, Checked
  <2>8. ~NeedsApproval(log, last)
    BY <2>2, <2>3 DEF NeedsApproval
  <2>9. QED
    BY <2>7, <2>8 DEF GuardPasses, Prerequisites
<1>2. QED
  BY <1>1, AdvInvariance, PTL

\* An export is advised only of a run that was applied by an /apply that the
\* guard let through, and verified after that (ExportIsEarned).
THEOREM ExportsAreEarned == AdvSpec => []ExportIsEarned
<1>1. ASSUME AdvIInv, advice = "export"
      PROVE  ExportIsEarned
  <2> DEFINE run == Latest(log, "run_result")
             apply == Latest(log, "apply_result")
             verify == Latest(log, "verify_result")
  <2>1. log \in Seq(Row) /\ HasNewest(log) /\ advice = Advice(log, outcome)
    BY <1>1 DEF AdvIInv, AdvTypeOK, AdviceIsCurrent
  <2>2. Runs(log) # {} /\ advice = PromotionStage(log)
    BY <1>1, <2>1 DEF Advice
  <2>3. ~(apply < run) /\ ~(verify < apply)
    BY <1>1, <2>2 DEF PromotionStage, ApplyStage, Unverified
  <2>4. /\ run \in 0..Len(log) /\ apply \in 0..Len(log) /\ verify \in 0..Len(log)
        /\ run # 0 => log[run].event = "run_result"
        /\ apply # 0 => log[apply].event = "apply_result"
        /\ verify # 0 => log[verify].event = "verify_result"
    BY <2>1, LatestRow
  <2>5. run # 0
    <3>1. PICK i \in 1..Len(log) : log[i].event = "run_result"
      BY <2>2 DEF Runs, Named
    <3>2. i <= run
      BY <2>1, <3>1, LatestRow
    <3>3. QED
      BY <2>4, <3>2
  <2>6. run < apply /\ apply < verify
    <3> HIDE DEF run, apply, verify
    <3>1. Len(log) \in Nat
      BY <2>1
    <3>2. run <= apply /\ apply <= verify /\ run > 0
      BY <2>3, <2>4, <2>5, <3>1
    <3>3. run # apply /\ apply # verify
      BY <2>4, <3>1, <3>2
    <3>4. QED
      BY <2>4, <3>1, <3>2, <3>3
  <2>7. apply \in Named(log, {"apply_result"}) /\ verify \in Named(log, {"verify_result"})
    <3>1. apply \in 1..Len(log) /\ verify \in 1..Len(log)
      BY <2>1, <2>4, <2>6
    <3>2. QED
      BY <2>4, <3>1 DEF Named
  <2>8. GuardPasses(SubSeq(log, 1, apply - 1), log[apply].diff)
    BY <1>1, <2>7 DEF AdvIInv, AppliesGuarded, Named
  <2>9. QED
    BY <2>6, <2>7, <2>8 DEF ExportIsEarned
<1>2. AdvIInv => ExportIsEarned
  BY <1>1 DEF ExportIsEarned
<1>3. QED
  BY <1>2, AdvInvariance, PTL

-----------------------------------------------------------------------------
(* No blind retry *)

\* Two runs in a row that ended alike, and no change of strategy since the
\* first, are counted as alike.
LEMMA TwoAlikeRuns ==
    ASSUME NEW s \in Seq(Row), HasNewest(s), NEW out,
           NEW i \in 1..Len(s), NEW j \in 1..Len(s), i \in Runs(s), j \in Runs(s),
           i < j, j = Latest(s, "run_result"),
           out[s[i].diff] = out[s[j].diff],
           \A k \in 1..Len(s) : k \in Runs(s) => k <= i \/ k >= j,
           \A k \in 1..Len(s) : k \in Named(s, Strategy) => ~(k > i)
    PROVE  Cardinality(AlikeRuns(s, out)) >= 2
<1>1. Len(s) \in Nat /\ i \in Nat /\ j \in Nat
  OBVIOUS
<1>2. \A k \in 1..Len(s) : k \in Named(s, Strategy) => k < i
  <2>1. \A k \in Named(s, Strategy) : k # i
    BY DEF Named, Runs, Strategy
  <2>2. QED
    BY <1>1, <2>1
<1>3. \A k \in 1..Len(s) : k \in Runs(s) /\ k >= i => k = i \/ k = j
  <2>1. \A k \in 1..Len(s) : k \in Runs(s) => k <= j
    BY LatestRow DEF Runs, Named
  <2>2. QED
    BY <1>1, <2>1
<1>4. /\ Runs(s) \in SUBSET (1..Len(s))
      /\ Named(s, Strategy) \in SUBSET (1..Len(s))
  BY DEF Runs, Named
<1>5. i \in AlikeRuns(s, out)
  BY <1>2, <1>3, <1>4 DEF AlikeRuns
<1>6. j \in AlikeRuns(s, out)
  <2>1. \A k \in 1..Len(s) : k \in Named(s, Strategy) => k < j
    BY <1>1, <1>2
  <2>2. \A k \in 1..Len(s) : k \in Runs(s) /\ k >= j => k = j
    BY <1>1, <1>3
  <2>3. QED
    BY <1>4, <2>1, <2>2 DEF AlikeRuns
<1>7. IsFiniteSet(1..Len(s))
  BY <1>1, FS_Interval
<1>8. IsFiniteSet(AlikeRuns(s, out))
  <2>1. AlikeRuns(s, out) \in SUBSET (1..Len(s))
    BY <1>4 DEF AlikeRuns
  <2>2. QED
    BY <1>7, <2>1, FS_Subset
<1>9. IsFiniteSet({i}) /\ Cardinality({i}) = 1
  BY FS_Singleton
<1>10. Cardinality({i} \cup {j}) = 2
  <2>1. j \notin {i}
    BY <1>1
  <2>2. Cardinality({i} \cup {j}) = Cardinality({i}) + 1
    BY <1>9, <2>1, FS_AddElement
  <2>3. Cardinality({i} \cup {j}) = 1 + 1
    BY <1>9, <2>2, Zenon
  <2>4. QED
    BY <2>3
<1>11. {i} \cup {j} \subseteq AlikeRuns(s, out)
  BY <1>5, <1>6
<1>12. /\ Cardinality({i} \cup {j}) <= Cardinality(AlikeRuns(s, out))
       /\ Cardinality(AlikeRuns(s, out)) \in Nat
  BY <1>8, <1>11, FS_Subset, FS_CardinalityType
<1>13. QED
  BY <1>10, <1>12

\* When another attempt is advised, the last failures are not counted as alike.
LEMMA RetryIsNoLoop ==
    ASSUME AdvIInv, advice \in {"retry", "adjust budget"}
    PROVE  ~(Cardinality(AlikeRuns(log, outcome)) >= 2)
<1>1. advice = Advice(log, outcome)
  BY DEF AdvIInv, AdviceIsCurrent
<1>2. /\ outcome[log[Latest(log, "run_result")].diff] # "validated"
      /\ ~RepeatedFailure(log, outcome)
  BY <1>1 DEF Advice, BudgetPressure, PromotionStage, ApplyStage
<1>3. QED
  BY <1>2 DEF RepeatedFailure

\* A run that follows the advice is not the third of a kind in a row: two that
\* ended alike have a change of strategy after the first (NoBlindRetry).
THEOREM RetriesAreNotBlind == AdvSpec => NoBlindRetry
<1> DEFINE Blind(i, j) == /\ i < j
                          /\ Runs(log) # Runs(log')
                          /\ detours' = detours
                          /\ advice \in {"retry", "adjust budget"}
                          /\ j = Latest(log, "run_result")
                          /\ outcome[log[i].diff] = outcome[log[j].diff]
                          /\ \A k \in Runs(log) : k <= i \/ k >= j
<1>1. ASSUME AdvIInv
      PROVE  \A i, j \in Runs(log) :
                 Blind(i, j) => \E k \in Named(log, Strategy) : k > i
  <2> SUFFICES ASSUME NEW i \in Runs(log), NEW j \in Runs(log), Blind(i, j),
                      \A k \in Named(log, Strategy) : ~(k > i)
               PROVE  FALSE
    OBVIOUS
  <2>1. i \in 1..Len(log) /\ j \in 1..Len(log)
    BY DEF Runs, Named
  <2>2. /\ \A k \in 1..Len(log) : k \in Runs(log) => k <= i \/ k >= j
        /\ \A k \in 1..Len(log) : k \in Named(log, Strategy) => ~(k > i)
    BY Zenon
  <2>3. log \in Seq(Row) /\ HasNewest(log)
    BY <1>1 DEF AdvIInv, AdvTypeOK
  <2>4. QED
    BY <1>1, <2>1, <2>2, <2>3, TwoAlikeRuns, RetryIsNoLoop, Zenon
<1>2. AdvIInv => [\A i, j \in Runs(log) :
                      Blind(i, j) => \E k \in Named(log, Strategy) : k > i]_advVars
  BY <1>1
<1>3. QED
  BY <1>2, AdvInvariance, PTL DEF NoBlindRetry

-----------------------------------------------------------------------------
(* The advice moves on *)

\* What the transcript is like when each of these is answered.
LEMMA AdviceSays ==
    ASSUME NEW s, NEW out
    PROVE  /\ Advice(s, out) = "fix readiness" => PlanPending(s)
           /\ Advice(s, out) = "unblock" => PreflightBlocked(s)
           /\ Advice(s, out) = "inspect error" => ErrorIsNewest(s)
           /\ Advice(s, out) = "break loop" => RepeatedFailure(s, out)
           /\ Advice(s, out) = "adjust budget" => BudgetPressure(s, out)
           /\ Advice(s, out) = "trace" => Latest(s, "run_evidence") < Latest(s, "run_result")
           /\ Advice(s, out) = "gate" => Latest(s, "session_gate") < Latest(s, "run_result")
           /\ Advice(s, out) = "view" => Latest(s, "diff_view") < Latest(s, "run_result")
           /\ Advice(s, out) = "review" => ~(Latest(s, "diff_review") > Latest(s, "run_result"))
           /\ Advice(s, out) = "check" =>
                  Latest(s, "apply_check_result") < Latest(s, "diff_review")
           /\ Advice(s, out) = "decide" =>
                  Latest(s, "apply_approval") < Latest(s, "apply_check_result")
           /\ Advice(s, out) = "apply" => Latest(s, "apply_result") < Latest(s, "run_result")
           /\ Advice(s, out) = "verify" => Unverified(s)
           /\ Advice(s, out) = "checkpoint" =>
                  Latest(s, "session_checkpoint") < Latest(s, "run_result")
BY DEF Advice, PromotionStage, ApplyStage

\* Whatever is advised short of another run, the row of one of the commands
\* named with it changes the advice.
LEMMA SomeCommandMovesOn ==
    ASSUME AdvIInv, "run" \notin Commands(advice)
    PROVE  \E c \in Commands(advice) : Advice(Append(log, Succeeds(c)), outcome) # advice
<1> DEFINE After(c) == Append(log, Succeeds(c))
<1>1. /\ log \in Seq(Row) /\ HasNewest(log) /\ Len(log) \in Nat
      /\ last \in Run \cup {NoRun}
      /\ advice = Advice(log, outcome)
  <2>1. log \in Seq(Row) /\ last \in Run \cup {NoRun}
    BY DEF AdvIInv, AdvTypeOK
  <2>2. HasNewest(log) /\ advice = Advice(log, outcome)
    BY DEF AdvIInv, AdviceIsCurrent
  <2>3. QED
    BY <2>1, <2>2
<1>2. advice \in {"fix readiness", "unblock", "inspect error", "break loop", "adjust budget",
                  "trace", "gate", "view", "review", "check", "decide", "apply", "verify",
                  "checkpoint"}
  BY <1>1 DEF Advice, PromotionStage, ApplyStage, Commands
\* The row of a command, where a name is looked up in the transcript.
<1>3. ASSUME NEW c, NEW e \in Row, Succeeds(c) = e
      PROVE  /\ Len(After(c)) = Len(log) + 1 /\ After(c)[Len(log) + 1] = e
             /\ \A name : Latest(After(c), name)
                    = IF e.event = name THEN Len(log) + 1 ELSE Latest(log, name)
             /\ \A name : Latest(log, name) \in 0..Len(log)
  BY <1>1, <1>3, RowAppend, LatestAppend, LatestRow
<1>4. last \in Run \cup {NoRun} /\ NoRun \in Run \cup {NoRun}
  BY <1>1
<1>5. CASE advice = "fix readiness"
  <2>1. Succeeds("cancel") = Entry("plan_mode_cancel", NoRun, "none")
    BY DEF Succeeds
  <2>2. Entry("plan_mode_cancel", NoRun, "none") \in Row
        /\ Entry("plan_mode_cancel", NoRun, "none").event = "plan_mode_cancel"
    <3>1. "plan_mode_cancel" \in RowName /\ "none" \in Mark
      BY DEF RowName, Mark
    <3>2. QED
      BY <1>4, <3>1, RowType
  <2>3. Newest(Named(After("cancel"), PlanEvents)) = Len(log) + 1
    BY <1>1, <2>1, <2>2, NewestNamedAppend DEF PlanEvents
  <2>4. ~PlanPending(After("cancel"))
    BY <1>3, <2>1, <2>2, <2>3 DEF PlanPending
  <2>5. QED
    BY <1>5, <2>4, AdviceSays DEF Commands
<1>6. CASE advice = "unblock"
  <2>1. Succeeds("preflight") = Entry("preflight", NoRun, "ok")
    BY DEF Succeeds
  <2>2. Entry("preflight", NoRun, "ok") \in Row
        /\ Entry("preflight", NoRun, "ok").event = "preflight"
        /\ Entry("preflight", NoRun, "ok").mark = "ok"
    <3>1. "preflight" \in RowName /\ "ok" \in Mark
      BY DEF RowName, Mark
    <3>2. QED
      BY <1>4, <3>1, RowType
  <2>3. ~PreflightBlocked(After("preflight"))
    BY <1>3, <2>1, <2>2 DEF PreflightBlocked
  <2>4. QED
    BY <1>6, <2>3, AdviceSays DEF Commands
<1>7. CASE advice = "inspect error"
  <2>1. Succeeds("doctor") = Entry("doctor", NoRun, "none")
    BY DEF Succeeds
  <2>2. Entry("doctor", NoRun, "none") \in Row
        /\ Entry("doctor", NoRun, "none").event = "doctor"
    <3>1. "doctor" \in RowName /\ "none" \in Mark
      BY DEF RowName, Mark
    <3>2. QED
      BY <1>4, <3>1, RowType
  <2>3. ~ErrorIsNewest(After("doctor"))
    BY <1>3, <2>1, <2>2 DEF ErrorIsNewest
  <2>4. QED
    BY <1>7, <2>3, AdviceSays DEF Commands
<1>8. CASE advice = "break loop"
  <2>1. Succeeds("feedback") = Entry("feedback_update", NoRun, "none")
    BY DEF Succeeds
  <2>2. Entry("feedback_update", NoRun, "none") \in Row
        /\ Entry("feedback_update", NoRun, "none").event = "feedback_update"
    <3>1. "feedback_update" \in RowName /\ "none" \in Mark
      BY DEF RowName, Mark
    <3>2. QED
      BY <1>4, <3>1, RowType
  <2>3. Runs(After("feedback")) = Runs(log)
        /\ Len(log) + 1 \in Named(After("feedback"), Strategy)
    BY <1>1, <2>1, <2>2, NamedAppend DEF Runs, Strategy
  <2>4. Runs(log) \subseteq 1..Len(log)
    BY DEF Runs, Named
  <2>5. AlikeRuns(After("feedback"), outcome) = {}
    BY <1>1, <2>3, <2>4 DEF AlikeRuns
  <2>6. ~RepeatedFailure(After("feedback"), outcome)
    <3>1. Cardinality(AlikeRuns(After("feedback"), outcome)) = 0
      BY <2>5, FS_EmptySet
    <3>2. QED
      BY <3>1 DEF RepeatedFailure
  <2>7. QED
    BY <1>8, <2>6, AdviceSays DEF Commands
<1>9. CASE advice = "adjust budget"
  <2>1. Succeeds("budget") = Entry("budget_update", NoRun, "none")
    BY DEF Succeeds
  <2>2. Entry("budget_update", NoRun, "none") \in Row
        /\ Entry("budget_update", NoRun, "none").event = "budget_update"
    <3>1. "budget_update" \in RowName /\ "none" \in Mark
      BY DEF RowName, Mark
    <3>2. QED
      BY <1>4, <3>1, RowType
  <2>3. ~BudgetPressure(After("budget"), outcome)
    BY <1>1, <1>3, <2>1, <2>2 DEF BudgetPressure
  <2>4. QED
    BY <1>9, <2>3, AdviceSays DEF Commands
\* A command that the promotion of the newest run was waiting for.
<1>10. ASSUME NEW c, NEW e \in Row, Succeeds(c) = e, e.event # "run_result"
       PROVE  ~(Latest(After(c), e.event) < Latest(After(c), "run_result"))
  BY <1>1, <1>3, <1>10
<1>11. CASE advice \in {"trace", "gate", "view", "apply", "checkpoint"}
  <2>1. PICK c \in Commands(advice), name \in RowName, d \in Run \cup {NoRun}, m \in Mark :
            /\ Succeeds(c) = Entry(name, d, m)
            /\ \/ advice = "trace" /\ name = "run_evidence"
               \/ advice = "gate" /\ name = "session_gate"
               \/ advice = "view" /\ name = "diff_view"
               \/ advice = "apply" /\ name = "apply_result"
               \/ advice = "checkpoint" /\ name = "session_checkpoint"
    <3>1. CASE advice = "trace"
      <4>1. Succeeds("trace") = Entry("run_evidence", NoRun, "none")
            /\ "trace" \in Commands(advice)
        BY <3>1 DEF Succeeds, Commands
      <4>2. QED
        BY <3>1, <4>1 DEF RowName, Mark
    <3>2. CASE advice = "gate"
      <4>1. Succeeds("gate") = Entry("session_gate", NoRun, "none")
            /\ "gate" \in Commands(advice)
        BY <3>2 DEF Succeeds, Commands
      <4>2. QED
        BY <3>2, <4>1 DEF RowName, Mark
    <3>3. CASE advice = "view"
      <4>1. Succeeds("view") = Entry("diff_view", NoRun, "none")
            /\ "view" \in Commands(advice)
        BY <3>3 DEF Succeeds, Commands
      <4>2. QED
        BY <3>3, <4>1 DEF RowName, Mark
    <3>4. CASE advice = "apply"
      <4>1. Succeeds("apply") = Entry("apply_result", last, "ok")
            /\ "apply" \in Commands(advice)
        BY <3>4 DEF Succeeds, Commands
      <4>2. QED
        BY <1>1, <3>4, <4>1 DEF RowName, EventName, Mark
    <3>5. CASE advice = "checkpoint"
      <4>1. Succeeds("checkpoint") = Entry("session_checkpoint", NoRun, "none")
            /\ "checkpoint" \in Commands(advice)
        BY <3>5 DEF Succeeds, Commands
      <4>2. QED
        BY <3>5, <4>1 DEF RowName, Mark
    <3>6. QED
      BY <1>11, <3>1, <3>2, <3>3, <3>4, <3>5
  <2>2. Succeeds(c) \in Row /\ Succeeds(c).event = name /\ name # "run_result"
    BY <2>1, RowType
  <2>3. ~(Latest(After(c), name) < Latest(After(c), "run_result"))
    BY <1>10, <2>2
  <2>4. Advice(After(c), outcome) # advice
    BY <2>1, <2>3, AdviceSays
  <2>5. QED
    BY <2>1, <2>4
<1>12. CASE advice = "review"
  <2>1. Succeeds("review") = Entry("diff_review", last, "plain")
    BY DEF Succeeds
  <2>2. Entry("diff_review", last, "plain") \in Row
        /\ Entry("diff_review", last, "plain").event = "diff_review"
    BY <1>4, RowType DEF RowName, EventName, Mark
  <2>3. Latest(After("review"), "diff_review") > Latest(After("review"), "run_result")
    BY <1>1, <1>3, <2>1, <2>2
  <2>4. QED
    BY <1>12, <2>3, AdviceSays DEF Commands
<1>13. CASE advice = "check"
  <2>1. Succeeds("check") = Entry("apply_check_result", last, "refused")
    BY DEF Succeeds
  <2>2. Entry("apply_check_result", last, "refused") \in Row
        /\ Entry("apply_check_result", last, "refused").event = "apply_check_result"
    BY <1>4, RowType DEF RowName, EventName, Mark
  <2>3. ~(Latest(After("check"), "apply_check_result") < Latest(After("check"), "diff_review"))
    BY <1>1, <1>3, <2>1, <2>2
  <2>4. QED
    BY <1>13, <2>3, AdviceSays DEF Commands
<1>14. CASE advice = "decide"
  <2>1. Succeeds("approve") = Entry("apply_approval", last, "none")
    BY DEF Succeeds
  <2>2. Entry("apply_approval", last, "none") \in Row
        /\ Entry("apply_approval", last, "none").event = "apply_approval"
    BY <1>4, RowType DEF RowName, EventName, Mark
  <2>3. ~(Latest(After("approve"), "apply_approval")
              < Latest(After("approve"), "apply_check_result"))
    BY <1>1, <1>3, <2>1, <2>2
  <2>4. QED
    BY <1>14, <2>3, AdviceSays DEF Commands
<1>15. CASE advice = "verify"
  <2>1. Succeeds("verify") = Entry("verify_result", NoRun, "none")
    BY DEF Succeeds
  <2>2. Entry("verify_result", NoRun, "none") \in Row
        /\ Entry("verify_result", NoRun, "none").event = "verify_result"
    <3>1. "verify_result" \in RowName /\ "none" \in Mark
      BY DEF RowName, Mark
    <3>2. QED
      BY <1>4, <3>1, RowType
  <2>3. ~Unverified(After("verify"))
    BY <1>1, <1>3, <2>1, <2>2 DEF Unverified
  <2>4. QED
    BY <1>15, <2>3, AdviceSays DEF Commands
<1>16. QED
  BY <1>2, <1>5, <1>6, <1>7, <1>8, <1>9, <1>11, <1>12, <1>13, <1>14, <1>15

\* The advice never goes round in circles: unless it names another run, one of
\* the commands it names moves it on (AdviceMovesOn).
THEOREM AdviceNeverCircles == AdvSpec => []AdviceMovesOn
<1>1. AdvIInv => AdviceMovesOn
  BY SomeCommandMovesOn DEF AdviceMovesOn
<1>2. QED
  BY <1>1, AdvInvariance, PTL
=============================================================================
