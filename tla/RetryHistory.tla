---------------------------- MODULE RetryHistory -----------------------------
(***************************************************************************)
(* What a repair run carries from one attempt to the next: the retry loop  *)
(* of RepairRunner.run (workflow.py) with the DeepAgents planner, seen     *)
(* from the history of its attempts.  The history decides which contexts   *)
(* the next attempt retrieves and mounts, which targets it prefers, and    *)
(* which plans validate_deepagents_plan_result refuses.  Budgets, the      *)
(* checkout and the baseline are in RepairRun.                             *)
(*                                                                         *)
(* A span of source text is its core and whether it is bare, that is,      *)
(* without leading or trailing white space; its hash is the text itself.   *)
(* What localization scores and what the model answers is a free choice.   *)
(***************************************************************************)
EXTENDS Naturals, SequencesExt

CONSTANTS Paths,        \* source files retrieval can return
          Cores,        \* span texts up to surrounding white space
          Signatures,   \* what sandbox_failure_signature tells apart
          Retrievals,   \* bound: what one retrieval may return, in rank order
          Hinted,       \* paths whose context carries reviewed_source_hint
          TopK,         \* request.top_k
          ExtraFiles,   \* RETRY_CONTEXT_EXTRA_FILES
          MaxAttempts,  \* bound: request.max_retries + 1
          Requests,     \* bound: the options of a run that are looked at
          Touched,      \* bound: files a test command may leave changed
          None          \* no path, no span, no signature

ASSUME HistoryAssumption ==
    /\ Retrievals \subseteq Seq(Paths)
    /\ Hinted \subseteq Paths
    /\ Requests \subseteq [maxFiles : Nat, targetMode : BOOLEAN,
                         budgeted : BOOLEAN, command : BOOLEAN]
    /\ Touched \subseteq SUBSET Paths
    /\ TopK \in Nat /\ ExtraFiles \in Nat /\ MaxAttempts \in Nat \ {0}
    /\ None \notin Paths \cup Signatures

VARIABLES request,    \* max_context_files (0 is no limit), whether context_selection_mode
                      \* is "target", whether there is a resource_budget or context_mode is
                      \* "span", and whether there is a test command
          pc,         \* where the attempt is
          history,    \* retry_attempt_history
          retrieved,  \* retrieved_context, as paths in rank order
          mounted,    \* selected_context, as a set of paths
          preferred,  \* preferred_target_paths
          symbols,    \* the paths preferred_target_symbols has an entry for
          outcome,    \* what became of the plan: none, off_target, refused, plan;
                      \* and of its edit: unsafe, clean, risky
          target,     \* snapshot.patch_target
          old,        \* the old span of the accepted plan
          announced   \* retry_class and retry_labels of the scheduled retry, as it starts

vars == <<request, pc, history, retrieved, mounted, preferred, symbols,
          outcome, target, old, announced>>

Span == [core : Cores, bare : BOOLEAN]
NoSpan == [core |-> None, bare |-> TRUE]

\* The structured output of the planner, after normalization: sound says that
\* it localizes the failure and changes something, focused that the old span
\* mentions or lies in a preferred symbol, evidence that the rationale names a
\* distinct control point and cites the old span.
Payload == [path : Paths, old : Span, sound : BOOLEAN, focused : BOOLEAN, evidence : BOOLEAN]

NoAnnouncement == [class |-> "none", labels |-> {}]

-----------------------------------------------------------------------------
(* What the history says *)

\* _record_paths
RecordPaths(r) == r.files \cup ({r.target} \ {None})

\* attempted_target_paths
AttemptedPaths(h) == UNION {RecordPaths(h[i]) : i \in DOMAIN h}

\* ineffective_target_paths: a failure signature that recurs discredits every
\* path touched under it.
Ineffective(h) ==
    UNION {RecordPaths(h[i]) : i \in {k \in DOMAIN h : \E j \in DOMAIN h \ {k} :
                                         /\ h[k].signature # None
                                         /\ h[k].signature = h[j].signature}}

\* Mutant: the hashes of spans that made progress are kept, and the others not.
ProgressHashes(h, p) ==
    {h[i].old : i \in {k \in DOMAIN h : h[k].target = p /\ h[k].partial}} \ {NoSpan}

\* attempted_target_old_span_hashes, for one path
SpanHashes(h, p) ==
    {h[i].old : i \in {k \in DOMAIN h : h[k].target = p /\ ~h[k].partial}} \ {NoSpan}

\* mounted_context_paths: of the latest attempt that has any
Pinned(h) ==
    LET withMounts == {i \in DOMAIN h : h[i].mounted # {}}
    IN  {p \in Paths : \E i \in withMounts :
                           p \in h[i].mounted /\ \A j \in withMounts : j <= i}

-----------------------------------------------------------------------------
(* Contexts and preferred targets of an attempt *)

\* The keys of place, at most as many as a retry keeps, in the order of their places.
InOrder(place) ==
    LET size == Cardinality(DOMAIN place)
        Sooner(a, b) == a[1] < b[1] \/ (a[1] = b[1] /\ a[2] < b[2])
        rank(p) == Cardinality({q \in DOMAIN place : Sooner(place[q], place[p])}) + 1
    IN  [k \in 1..(IF size <= TopK + ExtraFiles THEN size ELSE TopK + ExtraFiles) |->
            CHOOSE p \in DOMAIN place : rank(p) = k]

FirstAt(s, p) == CHOOSE i \in DOMAIN s : s[i] = p /\ \A j \in 1..(i - 1) : s[j] # p

\* What is deprioritized comes after all the rest, in the same order.
Delayed(tier, p, ineffective) == IF p \in ineffective THEN tier + 3 ELSE tier

\* Mutant: the refreshed contexts come first.
RefreshedFirst(existing, refreshed, ineffective) ==
    LET Place(p) == IF p \in ToSet(refreshed)
                    THEN <<Delayed(0, p, ineffective), FirstAt(refreshed, p)>>
                    ELSE <<Delayed(1, p, ineffective), FirstAt(existing, p)>>
    IN  InOrder([p \in ToSet(existing) \cup ToSet(refreshed) |-> Place(p)])

\* _merge_retrieved_contexts: reviewed sources that are there, what was retrieved
\* anew, and what else is there; each path where it comes first.
Merge(existing, refreshed, ineffective) ==
    LET reviewed == ToSet(existing) \cap Hinted
        Place(p) == IF p \in ToSet(refreshed) \ reviewed
                    THEN <<Delayed(1, p, ineffective), FirstAt(refreshed, p)>>
                    ELSE <<Delayed(IF p \in reviewed THEN 0 ELSE 2, p, ineffective), FirstAt(existing, p)>>
    IN  InOrder([p \in ToSet(existing) \cup ToSet(refreshed) |-> Place(p)])

\* max_context_files after the workflow, the runtime configuration and
\* context_selection_max_files
FileLimit(available, strong) ==
    IF request.maxFiles > 0 THEN request.maxFiles
    ELSE IF history # <<>> THEN TopK
    ELSE IF request.targetMode /\ Len(available) > 1 /\ strong # {} THEN 1 ELSE 0

\* _deepagents_context_priority, ties among equals left open
Priority(p, pins, strong) ==
    IF p \in pins THEN 0 ELSE IF p \in strong THEN 1 ELSE IF p \in Hinted THEN 2 ELSE 3

\* select_contexts_for_deepagents
Mounts(available, pins, strong) ==
    LET all == ToSet(available)
        limit == FileLimit(available, strong)
    IN  IF limit = 0 \/ Len(available) <= limit THEN {all}
        ELSE {S \in kSubset(limit, all) :
                 \A p \in S, q \in all \ S :
                     Priority(p, pins, strong) <= Priority(q, pins, strong)}

\* uses_constrained_first_attempt_target_policy
Constrained(available, strong) ==
    request.budgeted \/ FileLimit(available, strong) > 0

\* preferred_target_paths_for_plan, a set of choices; there are at most as
\* many candidates as the limit of five.
Preferred(candidates, revived) ==
    (candidates \ AttemptedPaths(history)) \cup revived

FirstPreferred(candidates, strong) ==
    IF candidates \cap strong = {} THEN {{}} ELSE {{p} : p \in candidates \cap strong}

\* select_deepagents_context: candidates are the mounted sources localization
\* scores, revived those of them that are historical control points.
SelectTargets(available, strong) ==
    \E candidates \in SUBSET mounted', revived \in SUBSET (mounted' \cap AttemptedPaths(history)) :
        /\ revived \subseteq candidates
        /\ preferred' \in IF AttemptedPaths(history) # {} THEN {Preferred(candidates, revived)}
                          ELSE IF history # <<>> \/ ~Constrained(available, strong) THEN {{}}
                          ELSE FirstPreferred(candidates, strong)
        /\ symbols' \in SUBSET preferred'

\* The head of the loop: context refresh, configuration, context selection.
SelectContext ==
    /\ pc = "select"
    /\ \E found \in Retrievals :
           retrieved' = IF history = <<>> THEN found
                        ELSE Merge(retrieved, found, Ineffective(history))
    /\ \E strong \in SUBSET ToSet(retrieved') :
           /\ mounted' \in Mounts(retrieved', IF request.maxFiles > 0 THEN Pinned(history) ELSE {},
                                  strong)
           /\ SelectTargets(retrieved', strong)
    /\ pc' = IF retrieved' = <<>> THEN "judge" ELSE "plan"
    /\ outcome' = "none" /\ target' = None /\ old' = NoSpan
    /\ announced' = NoAnnouncement
    /\ UNCHANGED <<request, history>>

-----------------------------------------------------------------------------
(* Validation of a plan *)

\* The guard hashes the span as _payload_string returns it, stripped.
GuardHash(span) == [core |-> span.core, bare |-> TRUE]

\* Mutant: a path of the history is acceptable only when it is preferred.
HistoryForbids(x) ==
    /\ x.path \in AttemptedPaths(history)
    /\ GuardHash(x.old) \in SpanHashes(history, x.path) \/ x.path \notin preferred

\* _target_history_violation
HistoryViolation(x) ==
    /\ x.path \in AttemptedPaths(history)
    /\ \/ GuardHash(x.old) \in SpanHashes(history, x.path)
       \/ x.path \notin preferred /\ ~x.evidence

\* _target_selection_policy_violation
SelectionViolation(x) ==
    /\ preferred # {}
    /\ x.path \notin preferred
    /\ ~(x.path \in AttemptedPaths(history) /\ x.evidence)

\* _target_symbol_policy_violation
SymbolViolation(x) == x.path \in symbols /\ ~x.focused

\* validate_deepagents_plan_result; a path that was not mounted has no virtual
\* file, which bounded_repair_plan_from_payload refuses last.
Validation(x) ==
    IF ~x.sound THEN "refused"
    ELSE IF HistoryViolation(x) \/ SelectionViolation(x) THEN "off_target"
    ELSE IF SymbolViolation(x) \/ x.path \notin mounted THEN "refused"
    ELSE "plan"

\* invoke_deepagents_plan and the validation of what it returns.  The target
\* of the trace snapshot is the path of the plan or of a refused target.  The
\* preferred targets are local to the call.
Plan(x) ==
    /\ pc = "plan"
    /\ outcome' = Validation(x)
    /\ target' = IF outcome' \in {"plan", "off_target"} THEN x.path ELSE None
    /\ old' = IF outcome' = "plan" THEN x.old ELSE NoSpan
    /\ pc' = IF outcome' = "plan" THEN "edit" ELSE "judge"
    /\ preferred' = {} /\ symbols' = {}
    /\ UNCHANGED <<request, history, retrieved, mounted, announced>>

\* The invocation fails, or its result holds no payload.
NoPlan ==
    /\ pc = "plan"
    /\ pc' = "judge"
    /\ outcome' = "refused"
    /\ preferred' = {} /\ symbols' = {}
    /\ UNCHANGED <<request, history, retrieved, mounted, target, old, announced>>

\* _apply_plan: one of the checks of apply_text_replacement raises before the
\* single write, or the edit is made and its quality assessed.
Edit ==
    /\ pc = "edit"
    /\ outcome' \in {"unsafe", "clean", "risky"}
    /\ pc' = "judge"
    /\ UNCHANGED <<request, history, retrieved, mounted, preferred, symbols, target, old, announced>>

-----------------------------------------------------------------------------
(* The end of an attempt *)

Patched == outcome \in {"clean", "risky"}

\* _high_risk_patch_quality
QualityRetry(test) == outcome = "risky" /\ test = "passed"

\* should_retry_with_test_feedback, given that the attempt is within budget
ShouldRetry(test) ==
    /\ test # "environment"
    /\ IF ~Patched THEN test \in {"none", "failed"}
       ELSE test = "failed" \/ QualityRetry(test)

\* Mutant: the attempt itself counts among those before it.
PriorWithItself(h, t) == h

\* _prior_attempt_records_for_target_label: a last record of the same target
\* is the attempt itself.
Prior(h, t) == IF h # <<>> /\ t # None /\ Last(h).target = t THEN Front(h) ELSE h

\* The history feedback_attempt_record classifies an attempt by: the entry it
\* adds has a target and nothing else.
WithTarget ==
    IF target = None THEN history ELSE Append(history, [target |-> target, files |-> {}])

\* retry_failure_class, given the attempts before this one
FailureClass(test, partial, prior) ==
    IF QualityRetry(test) THEN "quality_risk"
    ELSE IF outcome = "unsafe" THEN "safety_gate_rejection"
    ELSE IF outcome = "off_target" THEN "target_policy_rejected"
    ELSE IF ~Patched THEN "no_patch"
    ELSE IF test = "none" THEN "missing_validation"
    ELSE IF partial THEN "partial_progress"
    ELSE IF target \in AttemptedPaths(prior) THEN "repeated_target_failure"
    ELSE IF test = "passed" THEN "passing_test_retry"
    ELSE "validation_failed"

\* retry_feedback_labels, given the history that ends with this attempt
Labels(test, h) ==
    LET earlier == AttemptedPaths(Prior(h, target))
        says(label, condition) == IF condition THEN {label} ELSE {}
    IN  says("quality_retry", QualityRetry(test))
          \cup says("test_failure_retry", ~QualityRetry(test))
          \cup says("missing_validation_retry", test = "none")
          \cup says("passing_test_retry", test = "passed" /\ ~QualityRetry(test))
          \cup says("same_target_retry", target # None /\ target \in earlier)
          \cup says("moved_control_point",
                    target # None /\ earlier # {} /\ target \notin earlier)
          \cup says("old_span_repair", old # NoSpan)
          \cup says("target_history_override", outcome = "off_target")
          \cup says("partial_assertion_progress", \E i \in DOMAIN h : h[i].partial)
          \cup says("safety_gate_retry", outcome = "unsafe")

\* What feedback_attempt_record keeps of an attempt.
Record(test, signature, partial, touched) ==
    [target |-> target, old |-> old, files |-> touched,
     signature |-> signature, partial |-> partial,
     mounted |-> IF mounted = ToSet(retrieved) THEN {} ELSE mounted,
     class |-> FailureClass(test, partial, Prior(WithTarget, target))]

\* The attempt fails, and another one is scheduled.  The diff of an applied
\* patch has no git header, so that only files the test command touched in an
\* unpatched checkout are read from it.
Retry ==
    /\ pc = "judge"
    /\ Len(history) + 1 < MaxAttempts
    /\ \E test \in {"none", "passed", "environment", "failed"},
          signature \in Signatures \cup {None}, partial \in BOOLEAN, touched \in Touched :
           /\ request.command <=> test # "none"
           /\ test = "none" => signature = None
           /\ partial => test # "none" /\ (Patched \/ touched # {})
           /\ Patched => touched = {}
           /\ ShouldRetry(test)
           /\ history' = Append(history, Record(test, signature, partial, touched))
           /\ announced' = [class |-> FailureClass(test, partial, Prior(history', target)),
                            labels |-> Labels(test, history')]
    /\ pc' = "select"
    /\ mounted' = {} /\ outcome' = "none" /\ target' = None /\ old' = NoSpan
    /\ UNCHANGED <<request, retrieved, preferred, symbols>>

\* The run ends with this attempt: nothing to retry, no attempt left, or no
\* resources left for another one.
Finish ==
    /\ pc = "judge"
    /\ \/ Len(history) + 1 = MaxAttempts
       \/ request.budgeted
       \/ \E test \in {"none", "passed", "environment", "failed"} :
              (request.command <=> test # "none") /\ ~ShouldRetry(test)
    /\ pc' = "done"
    /\ mounted' = {} /\ outcome' = "none" /\ target' = None /\ old' = NoSpan
    /\ UNCHANGED <<request, history, retrieved, preferred, symbols, announced>>

Init ==
    /\ request \in Requests
    /\ pc = "select"
    /\ history = <<>> /\ retrieved = <<>> /\ mounted = {} /\ preferred = {} /\ symbols = {}
    /\ outcome = "none" /\ target = None /\ old = NoSpan
    /\ announced = NoAnnouncement

Next ==
    \/ SelectContext \/ NoPlan \/ Edit \/ Retry \/ Finish
    \/ \E x \in Payload : Plan(x)

Spec == Init /\ [][Next]_vars

-----------------------------------------------------------------------------
(* Properties *)

FailureClasses == {"none", "quality_risk", "safety_gate_rejection", "target_policy_rejected",
                   "no_patch", "missing_validation", "partial_progress",
                   "repeated_target_failure", "passing_test_retry", "validation_failed"}

LabelNames == {"quality_retry", "test_failure_retry", "missing_validation_retry",
               "passing_test_retry", "same_target_retry", "moved_control_point",
               "old_span_repair", "target_history_override", "partial_assertion_progress",
               "safety_gate_retry"}

AttemptRecord == [target : Paths \cup {None}, old : Span \cup {NoSpan}, files : SUBSET Paths,
                  signature : Signatures \cup {None}, partial : BOOLEAN,
                  mounted : SUBSET Paths, class : FailureClasses]

\* Preferred targets are always mounted ones, and their symbols those of preferred.
TypeOK ==
    /\ request \in Requests
    /\ pc \in {"select", "plan", "edit", "judge", "done"}
    /\ history \in Seq(AttemptRecord) /\ Len(history) < MaxAttempts
    /\ retrieved \in Seq(Paths) /\ mounted \in SUBSET Paths
    /\ preferred \in SUBSET mounted /\ symbols \in SUBSET preferred
    /\ outcome \in {"none", "off_target", "refused", "plan", "unsafe", "clean", "risky"}
    /\ target \in Paths \cup {None} /\ old \in Span \cup {NoSpan}
    /\ announced \in [class : FailureClasses, labels : SUBSET LabelNames]

\* An accepted plan does not repeat, at the same path, a bare span that an
\* earlier attempt edited without progress, whatever was mounted, preferred or
\* argued since (_target_history_violation).
BareSpanNotReused ==
    old # NoSpan => \A i \in DOMAIN history :
        ~(/\ pc = "edit" /\ history[i].target = target /\ ~history[i].partial
          /\ history[i].old # NoSpan /\ history[i].old.bare
          /\ history[i].old.core = old.core)

\* Some span text is in no attempt of the history.
FreshCoreLeft == \E c \in Cores : \A i \in DOMAIN history : history[i].old.core # c

\* Whatever the history demands, some answer of the model passes validation:
\* preferred targets are among the mounted ones, and a fresh span of one of
\* them is never refused.
NeverCornered ==
    pc = "plan" /\ mounted # {} /\ FreshCoreLeft => \E x \in Payload : Validation(x) = "plan"

\* The failure class the next attempt is told is the one in the record of the
\* attempt, and the labels tell the same story: a target is labelled repeated
\* exactly when an attempt before this one touched it, progress is announced as
\* progress, a rejected target has no span.
StoriesAgree ==
    pc = "select" /\ history # <<>> =>
        LET class == announced.class
            labels == announced.labels
        IN  /\ class = Last(history).class
            /\ class = "repeated_target_failure" => "same_target_retry" \in labels
            /\ "same_target_retry" \in labels <=>
                  Last(history).target \in AttemptedPaths(Front(history))
            /\ class = "partial_progress" => "partial_assertion_progress" \in labels
            /\ class = "validation_failed" => "same_target_retry" \notin labels
            /\ "target_history_override" \in labels => "old_span_repair" \notin labels

\* A retry does not lose a reviewed source: what carries a hint and is not
\* discredited by a recurring failure stays among the contexts of the next
\* attempt, as long as they leave room for all of those
\* (_merge_retrieved_contexts).
HintsSurvive ==
    [][LET reviewed == (ToSet(retrieved) \cap Hinted) \ Ineffective(history)
       IN  pc = "select" /\ history # <<>> /\ Cardinality(reviewed) <= TopK + ExtraFiles =>
              reviewed \subseteq ToSet(retrieved')]_vars
=============================================================================
