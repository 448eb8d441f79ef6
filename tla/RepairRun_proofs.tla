-------------------------- MODULE RepairRun_proofs --------------------------
(***************************************************************************)
(* Proofs about the repair run, for any number of retries, any caps and    *)
(* any spending: type correctness, that every attempt begins on the        *)
(* pristine checkout, that a report matches its checkout, the life of the  *)
(* baseline copy, the response cap, and that the run implements the series *)
(* of trials of TrialSpec.                                                 *)
(***************************************************************************)
EXTENDS RepairRun, TLAPS

\* The run's body: what happens before the finally clause.
Body == {"prepare", "capture", "plan", "test", "judge", "remove", "copy", "report"}

\* The status tells whether the body has been left.
StatusOfPc ==
    /\ pc \in Body <=> status = "running"
    /\ pc \in {"prepare", "capture"} => attempt = 0 /\ ~restorer
    /\ pc \in {"test", "judge", "remove", "copy", "report"} => attempt > 0
    /\ pc \in Body \ {"prepare", "capture"} => restorer
    /\ attempt = 0 => test = "none"

\* What justified a retry stays true until the retry begins.
RetryIsDue ==
    pc \in {"remove", "copy"} \/ (pc = "plan" /\ attempt > 0) =>
        /\ attempt <= RetryBudget
        /\ RetryBudget > 0
        /\ verdict \in Retryable
        /\ test \notin Environment
        /\ \A r \in Resource : Capped(r) => Remaining(r) > Reserve

\* The baseline is the pristine tree from its capture to the cleanup.
BaselineIsPristine ==
    /\ restorer /\ pc # "ended" /\ RetryBudget > 0 =>
           baseline = "whole" /\ saved = Pristine
    /\ ~restorer => saved = {}
    /\ RetryBudget = 0 => saved = {}
    /\ pc = "ended" /\ restorer => baseline = "absent"

\* The checkout at the points that matter.
CheckoutAtPc ==
    /\ pc \in {"capture", "plan"} => checkout = Pristine
    /\ pc = "copy" => checkout = {}
    /\ pc \in {"test", "judge", "report"} \/ status = "completed" =>
           EditsOf(checkout) = IF patch # "none" THEN {<<attempt, "edit">>} ELSE {}

\* The diff and the verdict describe the attempt, once there are any.
TrialIsDescribed ==
    /\ pc \in {"judge", "report"} \/ status = "completed" =>
           EditsOf(diff) = EditsOf(checkout)
    /\ pc = "report" \/ status = "completed" => verdict = Analysis
    /\ pc = "report" /\ verdict \in Retryable /\ attempt <= RetryBudget =>
           \E r \in Resource : Capped(r)

IInv ==
    /\ TypeOK
    /\ StatusOfPc
    /\ RetryIsDue
    /\ BaselineIsPristine
    /\ CheckoutAtPc
    /\ TrialIsDescribed
    /\ RecordedWithinCap

-----------------------------------------------------------------------------
(* Facts about the operators *)

\* The parts of a request, and the budget derived from it.
LEMMA RequestFacts ==
    ASSUME request \in Request
    PROVE  /\ request.max_retries \in 0..MaxRetries
           /\ request.deepagents \in BOOLEAN
           /\ request.repo \in Repos
           /\ RetryBudget \in 0..MaxRetries
           /\ Pristine \subseteq Mark
           /\ \A m \in Pristine : m = <<0, "edit">>
           /\ \A r \in Resource : Capped(r) => request.cap[r] \in Nat
<1> USE RunAssumption
<1>1. /\ request.max_retries \in 0..MaxRetries
      /\ request.deepagents \in BOOLEAN
      /\ request.repo \in Repos
      /\ request.cap \in [Resource -> Caps]
  BY DEF Request
<1>2. RetryBudget \in 0..MaxRetries
  BY <1>1 DEF RetryBudget
<1>3. <<0, "edit">> \in Mark
  BY DEF Mark
<1>4. Pristine \subseteq Mark /\ \A m \in Pristine : m = <<0, "edit">>
  BY <1>3 DEF Pristine
<1>5. \A r \in Resource : Capped(r) => request.cap[r] \in Nat
  BY <1>1 DEF Capped
<1> QED BY <1>1, <1>2, <1>4, <1>5

\* What is left of a capped resource.
LEMMA RemainingFacts ==
    ASSUME request \in Request, used \in [Resource -> Nat],
           NEW r \in Resource, Capped(r)
    PROVE  /\ Remaining(r) \in Nat
           /\ used[r] <= request.cap[r] => Remaining(r) = request.cap[r] - used[r]
           /\ Remaining(r) > 0 => Remaining(r) = request.cap[r] - used[r]
<1>1. request.cap[r] \in Nat
  BY RequestFacts
<1>2. used[r] \in Nat
  OBVIOUS
<1> QED BY <1>1, <1>2 DEF Remaining

\* Adding what an attempt consumed keeps the counters natural numbers.
LEMMA PlusType ==
    ASSUME NEW f \in [Resource -> Nat], NEW n \in [Resource -> 0..MaxSpend]
    PROVE  /\ Plus(f, n) \in [Resource -> Nat]
           /\ \A r \in Resource : Plus(f, n)[r] = f[r] + n[r]
<1>1. \A r \in Resource : f[r] \in Nat /\ n[r] \in Nat
  BY RunAssumption
<1> QED BY <1>1 DEF Plus

\* The verdict asks for a retry exactly when should_retry_with_test_feedback
\* would grant one, and speaks of a valid patch only of one that passed.
LEMMA AnalysisFacts ==
    ASSUME patch \in Patch, test \in Test
    PROVE  /\ Analysis \in Verdict
           /\ Analysis \in Retryable <=>
                  /\ test \notin Environment
                  /\ \/ patch = "none" /\ test # "passed"
                     \/ patch # "none" /\ test \notin {"none", "passed"}
                     \/ HighRisk
           /\ Analysis \in {"patch_validated", QualityWarning} =>
                  patch # "none" /\ test = "passed"
<1> USE DEF Patch, Test, Environment, Analysis, Retryable, QualityWarning, HighRisk
<1>1. /\ VerdictOfPatch["none"] = "patch_unvalidated"
      /\ VerdictOfPatch["passed"] = "patch_validated"
      /\ VerdictOfPatch["failed"] = "patch_failed_tests"
      /\ VerdictOfPatch["not_started"] = "patch_failed_tests"
      /\ VerdictOfPatch["policy_blocked"] = "patch_validation_blocked"
      /\ VerdictOfPatch["timed_out"] = "patch_validation_blocked"
      /\ VerdictOfPatch["no_pytest"] = "patch_validation_blocked"
  BY DEF VerdictOfPatch
<1>2. /\ VerdictWithoutPatch["none"] = "no_patch_generated"
      /\ VerdictWithoutPatch["passed"] = "tests_passed_without_patch"
      /\ VerdictWithoutPatch["failed"] = "no_patch_tests_failed"
      /\ VerdictWithoutPatch["not_started"] = "no_patch_tests_failed"
      /\ VerdictWithoutPatch["policy_blocked"] = "validation_blocked"
      /\ VerdictWithoutPatch["timed_out"] = "validation_blocked"
      /\ VerdictWithoutPatch["no_pytest"] = "validation_blocked"
  BY DEF VerdictWithoutPatch
<1>3. Analysis \in Verdict
  BY DEF Verdict
<1>4. CASE patch = "none"
  BY <1>1, <1>2, <1>3, <1>4
<1>5. CASE patch # "none"
  BY <1>1, <1>2, <1>3, <1>5
<1> QED BY <1>4, <1>5

\* The marks of one attempt.
LEMMA MarkFacts ==
    ASSUME NEW k \in 0..(MaxRetries + 1)
    PROVE  <<k, "edit">> \in Mark /\ <<k, "droppings">> \in Mark
BY DEF Mark

\* Droppings are not edits, and the pristine tree has no edits of the run.
LEMMA EditFacts ==
    ASSUME NEW c, NEW k
    PROVE  /\ EditsOf(c \cup {<<k, "droppings">>}) = EditsOf(c)
           /\ EditsOf(Pristine) = {}
BY DEF EditsOf

-----------------------------------------------------------------------------
(* The invariant is inductive *)

LEMMA InitEstablishes == Init => IInv
<1> SUFFICES ASSUME Init PROVE IInv
  OBVIOUS
<1> USE RunAssumption DEF Init
<1>0. request \in Request
  BY RequestAssumption
<1>1. TypeOK
  <2>1. attempt \in 0..(RetryBudget + 1) /\ request \in Request
    BY <1>0, RequestFacts
  <2>2. used \in [Resource -> Nat] /\ spent \in [Resource -> Nat]
    OBVIOUS
  <2>3. patch \in Patch /\ test \in Test /\ restorer \in BOOLEAN
    BY DEF Patch, Test
  <2> QED BY <2>1, <2>2, <2>3 DEF TypeOK
<1>2. StatusOfPc /\ RetryIsDue
  BY DEF StatusOfPc, RetryIsDue, Body
<1>3. BaselineIsPristine /\ CheckoutAtPc
  BY DEF BaselineIsPristine, CheckoutAtPc
<1>4. TrialIsDescribed
  BY DEF TrialIsDescribed
<1>5. RecordedWithinCap
  BY <1>0, RequestFacts DEF RecordedWithinCap, Resource
<1> QED BY <1>1, <1>2, <1>3, <1>4, <1>5 DEF IInv

\* A step that leaves the request and what the predicates of this module are
\* made of alone leaves the predicates alone.
LEMMA SameRequest ==
    ASSUME UNCHANGED request
    PROVE  /\ RetryBudget' = RetryBudget
           /\ Pristine' = Pristine
           /\ \A r \in Resource : Capped(r)' = Capped(r)
           /\ UNCHANGED used => \A r \in Resource : Remaining(r)' = Remaining(r)
BY DEF RetryBudget, Pristine, Capped, Remaining

LEMMA PrepareStep == IInv /\ Prepare => IInv'
<1> SUFFICES ASSUME IInv, Prepare PROVE IInv'
  OBVIOUS
<1> USE DEF IInv, Prepare, copies, trial, resources
<1>2. TypeOK'
  BY SameRequest, RequestFacts DEF TypeOK
<1>3. (StatusOfPc /\ RetryIsDue)'
  BY SameRequest DEF StatusOfPc, RetryIsDue, Body
<1>4. (BaselineIsPristine /\ CheckoutAtPc)'
  BY SameRequest DEF BaselineIsPristine, CheckoutAtPc, StatusOfPc, Body
<1>5. TrialIsDescribed'
  BY SameRequest DEF TrialIsDescribed, StatusOfPc, Body
<1>6. RecordedWithinCap'
  BY DEF RecordedWithinCap, Capped
<1> QED BY <1>2, <1>3, <1>4, <1>5, <1>6

LEMMA CaptureBaselineStep == IInv /\ CaptureBaseline => IInv'
<1> SUFFICES ASSUME IInv, CaptureBaseline PROVE IInv'
  OBVIOUS
<1> USE DEF IInv, CaptureBaseline, copies, trial, resources
<1>1. TypeOK'
  BY SameRequest, RequestFacts DEF TypeOK
<1>2. StatusOfPc'
  BY DEF StatusOfPc, Body
<1>3. RetryIsDue'
  BY SameRequest DEF RetryIsDue, StatusOfPc
<1>4. (BaselineIsPristine /\ CheckoutAtPc)'
  BY SameRequest, RequestFacts DEF BaselineIsPristine, CheckoutAtPc, StatusOfPc, Body, TypeOK
<1>5. TrialIsDescribed'
  BY DEF TrialIsDescribed, StatusOfPc, Body
<1>6. RecordedWithinCap'
  BY DEF RecordedWithinCap, Capped
<1> QED BY <1>1, <1>2, <1>3, <1>4, <1>5, <1>6

LEMMA CaptureFailsStep == IInv /\ CaptureFails => IInv'
<1> SUFFICES ASSUME IInv, CaptureFails PROVE IInv'
  OBVIOUS
<1> USE DEF IInv, CaptureFails, copies, trial, resources
<1>1. TypeOK'
  BY SameRequest, RequestFacts DEF TypeOK
<1>2. StatusOfPc'
  BY DEF StatusOfPc, Body
<1>3. RetryIsDue'
  BY DEF RetryIsDue
<1>4. (BaselineIsPristine /\ CheckoutAtPc)'
  BY SameRequest DEF BaselineIsPristine, CheckoutAtPc, StatusOfPc, Body
<1>5. TrialIsDescribed'
  BY DEF TrialIsDescribed, StatusOfPc, Body
<1>6. RecordedWithinCap'
  BY DEF RecordedWithinCap, Capped
<1> QED BY <1>1, <1>2, <1>3, <1>4, <1>5, <1>6

\* What every attempt has in common.
LEMMA AttemptBegins ==
    ASSUME IInv, NEW p \in Patch, NEW n \in Spendable, BeginAttempt(p, n)
    PROVE  /\ attempt' = attempt + 1
           /\ attempt' \in 1..(RetryBudget + 1)
           /\ attempt' \in 0..(MaxRetries + 1)
           /\ checkout = Pristine
           /\ spent' \in [Resource -> Nat]
           /\ StatusOfPc'
           /\ RetryIsDue'
           /\ BaselineIsPristine'
           /\ TrialIsDescribed'
<1> USE DEF IInv, BeginAttempt, copies
<1>1. /\ attempt' = attempt + 1
      /\ attempt \in Nat
      /\ RetryBudget \in 0..MaxRetries
  BY RequestFacts DEF TypeOK
<1>2. attempt' \in 1..(RetryBudget + 1) /\ attempt' \in 0..(MaxRetries + 1)
  BY <1>1, RunAssumption DEF RetryIsDue
<1>3. checkout = Pristine
  BY DEF CheckoutAtPc
<1>4. spent' \in [Resource -> Nat]
  BY PlusType DEF TypeOK, Spendable
<1>5. StatusOfPc'
  BY <1>1 DEF StatusOfPc, Body
<1>6. RetryIsDue'
  BY DEF RetryIsDue
<1>7. BaselineIsPristine'
  BY SameRequest DEF BaselineIsPristine
<1>8. TrialIsDescribed'
  BY DEF TrialIsDescribed, StatusOfPc, Body
<1> QED BY <1>1, <1>2, <1>3, <1>4, <1>5, <1>6, <1>7, <1>8

\* Adding what the callback allows keeps the recorded responses in the cap.
LEMMA SpendingWithinCap ==
    ASSUME IInv, UNCHANGED request, NEW n \in Spendable, used' = Plus(used, n)
    PROVE  used' \in [Resource -> Nat] /\ RecordedWithinCap'
<1> USE DEF IInv, TypeOK
<1>1. n \in [Resource -> 0..MaxSpend]
  BY DEF Spendable
<1>2. used' \in [Resource -> Nat] /\ "responses" \in Resource
  BY <1>1, PlusType DEF Resource
<1>3. RecordedWithinCap'
  <2> SUFFICES ASSUME Capped("responses")
               PROVE  used'["responses"] <= request.cap["responses"]
    BY DEF RecordedWithinCap, Capped
  <2>1. used'["responses"] = used["responses"] + n["responses"]
    BY <1>1, <1>2, PlusType
  <2>2. n["responses"] <= Remaining("responses")
    BY DEF Spendable, Allowance
  <2>3. used["responses"] <= request.cap["responses"]
    BY DEF RecordedWithinCap
  <2>4. request.cap["responses"] \in Nat
    BY <1>2, RequestFacts
  <2>5. Remaining("responses") = request.cap["responses"] - used["responses"]
    BY <1>2, <2>3, RemainingFacts
  <2>6. used["responses"] \in Nat /\ n["responses"] \in Nat
    BY <1>1, <1>2, RunAssumption
  <2> QED BY <2>1, <2>2, <2>3, <2>4, <2>5, <2>6
<1> QED BY <1>2, <1>3

LEMMA PlanAndEditStep == IInv /\ PlanAndEdit => IInv'
<1> SUFFICES ASSUME IInv, PlanAndEdit PROVE IInv'
  OBVIOUS
<1>1. PICK n \in Spendable, p \in {"clean", "risky"} :
          /\ BeginAttempt(p, n)
          /\ checkout' = checkout \cup {<<attempt + 1, "edit">>}
          /\ used' = Plus(used, n)
  BY DEF PlanAndEdit
<1>2. p \in Patch /\ p # "none"
  BY DEF Patch
<1> USE DEF BeginAttempt, copies
<1>3. used' \in [Resource -> Nat] /\ RecordedWithinCap'
  BY <1>1, SpendingWithinCap
<1>4. checkout' = Pristine \cup {<<attempt', "edit">>} /\ <<attempt', "edit">> \in Mark
  BY <1>1, <1>2, AttemptBegins, MarkFacts
<1>5. TypeOK'
  BY <1>1, <1>2, <1>3, <1>4, AttemptBegins, SameRequest, RequestFacts DEF IInv, TypeOK
<1>6. CheckoutAtPc'
  <2>1. <<attempt', "edit">> \notin Pristine
    BY <1>1, <1>2, AttemptBegins, RequestFacts DEF IInv, TypeOK
  <2>2. EditsOf(checkout)' = {<<attempt', "edit">>}
    BY <1>1, <1>4, <2>1, SameRequest DEF EditsOf
  <2>3. pc' = "test" /\ status' = status /\ patch' # "none"
    BY <1>1, <1>2
  <2> QED BY <2>2, <2>3 DEF CheckoutAtPc
<1> QED BY <1>1, <1>2, <1>3, <1>5, <1>6, AttemptBegins DEF IInv

\* An attempt that edits nothing, whatever it records.
LEMMA NoEdit ==
    ASSUME IInv, NEW n \in Spendable, BeginAttempt("none", n), UNCHANGED checkout,
           used' \in [Resource -> Nat], RecordedWithinCap'
    PROVE  IInv'
<1> USE DEF BeginAttempt, copies
<1>1. "none" \in Patch
  BY DEF Patch
<1>2. TypeOK'
  BY <1>1, AttemptBegins, SameRequest, RequestFacts DEF IInv, TypeOK
<1>3. CheckoutAtPc'
  <2>1. EditsOf(checkout)' = {}
    BY <1>1, AttemptBegins, SameRequest DEF EditsOf
  <2> QED BY <2>1 DEF CheckoutAtPc
<1> QED BY <1>1, <1>2, <1>3, AttemptBegins DEF IInv

LEMMA PlanRejectedStep == IInv /\ PlanRejected => IInv'
<1> SUFFICES ASSUME IInv, PlanRejected PROVE IInv'
  OBVIOUS
<1>1. PICK n \in Spendable : BeginAttempt("none", n) /\ used' = Plus(used, n)
  BY DEF PlanRejected
<1>2. UNCHANGED checkout /\ UNCHANGED request
  BY <1>1 DEF PlanRejected, BeginAttempt
<1> QED BY <1>1, <1>2, SpendingWithinCap, NoEdit

LEMMA InvocationFailsStep == IInv /\ InvocationFails => IInv'
<1> SUFFICES ASSUME IInv, InvocationFails PROVE IInv'
  OBVIOUS
<1>1. PICK n \in Spendable : BeginAttempt("none", n) /\ UNCHANGED <<used, checkout>>
  BY DEF InvocationFails
<1>2. used' \in [Resource -> Nat] /\ RecordedWithinCap'
  BY <1>1 DEF IInv, TypeOK, RecordedWithinCap, Capped, BeginAttempt
<1> QED BY <1>1, <1>2, NoEdit

LEMMA RunSandboxStep == IInv /\ RunSandbox => IInv'
<1> SUFFICES ASSUME IInv, RunSandbox PROVE IInv'
  OBVIOUS
<1> USE DEF RunSandbox, copies, resources
<1> DEFINE Dropped == {<<attempt, "droppings">>}
<1>0. PICK t \in Test, droppings \in SUBSET Dropped : SandboxReturns(t, droppings)
  BY DEF RunSandbox
<1>a. /\ test' \in Test
      /\ checkout' = checkout \cup droppings
      /\ droppings = {} \/ droppings = Dropped
  BY <1>0 DEF SandboxReturns
<1>b. attempt \in 0..(MaxRetries + 1) /\ attempt > 0 /\ status = "running"
  BY RequestFacts, RunAssumption DEF IInv, TypeOK, StatusOfPc, Body
<1>c. checkout' \subseteq Mark /\ EditsOf(checkout)' = EditsOf(checkout)
  <2>1. checkout' = checkout \/ checkout' = checkout \cup Dropped
    BY <1>a
  <2>2. checkout' \subseteq Mark
    BY <2>1, <1>b, MarkFacts DEF IInv, TypeOK
  <2>3. EditsOf(checkout') = EditsOf(checkout)
    BY <2>1, EditFacts
  <2>4. EditsOf(checkout)' = EditsOf(checkout')
    BY SameRequest DEF EditsOf
  <2> QED BY <2>2, <2>3, <2>4
<1>d. diff' \subseteq Mark /\ EditsOf(diff)' = EditsOf(checkout)'
  <2>1. CASE patch # "none"
    <3>1. diff' = {<<attempt, "edit">>}
      BY <2>1 DEF FinalDiff
    <3>2. EditsOf(checkout) = {<<attempt, "edit">>}
      BY <2>1 DEF IInv, CheckoutAtPc
    <3>3. <<attempt, "edit">> \notin Pristine
      BY <1>b, RequestFacts DEF IInv, TypeOK
    <3>4. EditsOf(diff)' = {<<attempt, "edit">>}
      BY <3>1, <3>3, SameRequest DEF EditsOf
    <3> QED BY <1>b, <1>c, <3>1, <3>2, <3>4, MarkFacts
  <2>2. CASE patch = "none" /\ request.repo = "plain"
    <3>1. diff' = {}
      BY <2>2 DEF FinalDiff
    <3>2. EditsOf(checkout) = {} /\ EditsOf(diff)' = {}
      BY <2>2, <3>1 DEF IInv, CheckoutAtPc, EditsOf
    <3> QED BY <1>c, <3>1, <3>2
  <2>3. CASE patch = "none" /\ request.repo # "plain"
    BY <1>c, <2>3 DEF FinalDiff, EditsOf
  <2> QED BY <2>1, <2>2, <2>3
<1>1. TypeOK'
  BY <1>a, <1>c, <1>d, SameRequest, RequestFacts DEF IInv, TypeOK
<1>2. (StatusOfPc /\ RetryIsDue)'
  BY <1>b DEF IInv, TypeOK, StatusOfPc, RetryIsDue, Body
<1>3. BaselineIsPristine'
  BY SameRequest DEF IInv, BaselineIsPristine
<1>4. CheckoutAtPc'
  BY <1>b, <1>c DEF IInv, CheckoutAtPc
<1>5. TrialIsDescribed'
  BY <1>b, <1>d DEF TrialIsDescribed
<1>6. RecordedWithinCap'
  BY DEF IInv, RecordedWithinCap, Capped
<1> QED BY <1>1, <1>2, <1>3, <1>4, <1>5, <1>6 DEF IInv

LEMMA StragglerWritesStep == IInv /\ StragglerWrites => IInv'
<1> SUFFICES ASSUME IInv, StragglerWrites PROVE IInv'
  OBVIOUS
<1> USE DEF StragglerWrites, copies, trial, resources
<1>a. attempt \in 0..(MaxRetries + 1) /\ test \in Environment
  BY RequestFacts, RunAssumption DEF IInv, TypeOK, Environment
<1>b. pc \notin {"prepare", "capture", "plan", "remove", "copy"}
  BY <1>a DEF IInv, StatusOfPc, RetryIsDue, TypeOK, Environment
<1>c. checkout' \subseteq Mark /\ EditsOf(checkout)' = EditsOf(checkout)
  <2>1. checkout' \subseteq Mark
    BY <1>a, MarkFacts DEF IInv, TypeOK
  <2>2. EditsOf(checkout') = EditsOf(checkout)
    BY EditFacts
  <2>3. EditsOf(checkout)' = EditsOf(checkout')
    BY SameRequest DEF EditsOf
  <2> QED BY <2>1, <2>2, <2>3
<1>d. EditsOf(diff)' = EditsOf(diff)
  BY SameRequest DEF EditsOf
<1>1. TypeOK'
  BY <1>c, SameRequest, RequestFacts DEF IInv, TypeOK
<1>2. (StatusOfPc /\ RetryIsDue)'
  BY <1>b DEF IInv, StatusOfPc, RetryIsDue, Body
<1>3. BaselineIsPristine'
  BY SameRequest DEF IInv, BaselineIsPristine
<1>4. CheckoutAtPc'
  BY <1>b, <1>c DEF IInv, CheckoutAtPc
<1>5. TrialIsDescribed'
  BY <1>c, <1>d, SameRequest DEF IInv, TrialIsDescribed, Analysis, HighRisk
<1>6. RecordedWithinCap'
  BY DEF IInv, RecordedWithinCap, Capped
<1> QED BY <1>1, <1>2, <1>3, <1>4, <1>5, <1>6 DEF IInv

LEMMA JudgeStep == IInv /\ Judge => IInv'
<1> SUFFICES ASSUME IInv, Judge PROVE IInv'
  OBVIOUS
<1> USE DEF Judge, copies, resources
<1>a. verdict' = Analysis /\ Analysis \in Verdict
  BY AnalysisFacts DEF IInv, TypeOK
<1>b. status = "running" /\ attempt > 0 /\ pc' \in {"remove", "report"}
  BY DEF IInv, StatusOfPc, Body
<1>c. /\ EditsOf(diff)' = EditsOf(diff)
      /\ EditsOf(checkout)' = EditsOf(checkout)
      /\ Analysis' = Analysis
  BY SameRequest DEF EditsOf, Analysis, HighRisk
<1>1. TypeOK'
  BY <1>a, <1>b, SameRequest, RequestFacts DEF IInv, TypeOK
<1>2. (StatusOfPc /\ CheckoutAtPc)'
  BY <1>b, <1>c DEF IInv, StatusOfPc, CheckoutAtPc, Body
<1>3. RetryIsDue'
  <2> SUFFICES ASSUME pc' = "remove"
               PROVE  /\ attempt <= RetryBudget
                      /\ RetryBudget > 0
                      /\ Analysis \in Retryable
                      /\ test \notin Environment
                      /\ \A r \in Resource : Capped(r) => Remaining(r) > Reserve
    BY <1>a, <1>b, SameRequest DEF RetryIsDue
  <2>1. ShouldRetry /\ ~BudgetBlocksRetry
    OBVIOUS
  <2>2. /\ attempt <= RetryBudget
        /\ RetryBudget > 0
        /\ test \notin Environment
        /\ Analysis \in Retryable
    BY <2>1, AnalysisFacts DEF ShouldRetry, IInv, TypeOK
  <2>3. \A r \in Resource : Capped(r) => Remaining(r) > Reserve
    BY <2>1, RemainingFacts, RunAssumption DEF BudgetBlocksRetry, IInv, TypeOK
  <2> QED BY <2>2, <2>3
<1>4. BaselineIsPristine'
  BY <1>b, SameRequest DEF IInv, BaselineIsPristine
<1>5. TrialIsDescribed'
  <2>1. EditsOf(diff)' = EditsOf(checkout)'
    BY <1>c DEF IInv, TrialIsDescribed
  <2>2. ASSUME pc' = "report", verdict' \in Retryable, attempt <= RetryBudget
        PROVE  \E r \in Resource : Capped(r)
    <3>1. ShouldRetry
      BY <1>a, <1>b, <2>2, AnalysisFacts, RequestFacts DEF ShouldRetry, IInv, TypeOK
    <3> QED BY <2>2, <3>1 DEF BudgetBlocksRetry
  <2> QED BY <1>a, <1>b, <1>c, <2>1, <2>2, SameRequest DEF TrialIsDescribed, Retryable
<1>6. RecordedWithinCap'
  BY DEF IInv, RecordedWithinCap, Capped
<1> QED BY <1>1, <1>2, <1>3, <1>4, <1>5, <1>6 DEF IInv

LEMMA RemoveCheckoutStep == IInv /\ RemoveCheckout => IInv'
<1> SUFFICES ASSUME IInv, RemoveCheckout PROVE IInv'
  OBVIOUS
<1> USE DEF RemoveCheckout, copies, trial, resources
<1>b. status = "running" /\ attempt > 0 /\ restorer
  BY DEF IInv, StatusOfPc, Body
<1>1. TypeOK'
  BY SameRequest, RequestFacts DEF IInv, TypeOK
<1>2. StatusOfPc'
  BY <1>b DEF IInv, StatusOfPc, Body
<1>3. RetryIsDue'
  BY SameRequest DEF IInv, RetryIsDue
<1>4. (BaselineIsPristine /\ CheckoutAtPc)'
  BY <1>b, SameRequest DEF IInv, BaselineIsPristine, CheckoutAtPc, RetryIsDue
<1>5. TrialIsDescribed'
  BY <1>b DEF TrialIsDescribed
<1>6. RecordedWithinCap'
  BY DEF IInv, RecordedWithinCap, Capped
<1> QED BY <1>1, <1>2, <1>3, <1>4, <1>5, <1>6 DEF IInv

LEMMA CopyBaselineStep == IInv /\ CopyBaseline => IInv'
<1> SUFFICES ASSUME IInv, CopyBaseline PROVE IInv'
  OBVIOUS
<1> USE DEF CopyBaseline, copies, trial, resources
<1>b. status = "running" /\ attempt > 0 /\ restorer
  BY DEF IInv, StatusOfPc, Body
<1>1. TypeOK'
  BY SameRequest, RequestFacts DEF IInv, TypeOK
<1>2. StatusOfPc'
  BY <1>b DEF IInv, StatusOfPc, Body
<1>3. RetryIsDue'
  BY SameRequest DEF IInv, RetryIsDue
<1>4. (BaselineIsPristine /\ CheckoutAtPc)'
  BY <1>b, SameRequest DEF IInv, BaselineIsPristine, CheckoutAtPc, RetryIsDue
<1>5. TrialIsDescribed'
  BY <1>b DEF TrialIsDescribed
<1>6. RecordedWithinCap'
  BY DEF IInv, RecordedWithinCap, Capped
<1> QED BY <1>1, <1>2, <1>3, <1>4, <1>5, <1>6 DEF IInv

LEMMA WriteReportStep == IInv /\ WriteReport => IInv'
<1> SUFFICES ASSUME IInv, WriteReport PROVE IInv'
  OBVIOUS
<1> USE DEF WriteReport, copies, trial, resources
<1>a. /\ EditsOf(diff)' = EditsOf(diff)
      /\ EditsOf(checkout)' = EditsOf(checkout)
      /\ Analysis' = Analysis
  BY SameRequest DEF EditsOf, Analysis, HighRisk
<1>1. TypeOK'
  BY SameRequest, RequestFacts DEF IInv, TypeOK
<1>2. (StatusOfPc /\ RetryIsDue)'
  BY DEF IInv, TypeOK, StatusOfPc, RetryIsDue, Body
<1>3. BaselineIsPristine'
  BY SameRequest DEF IInv, TypeOK, BaselineIsPristine
<1>4. CheckoutAtPc'
  BY <1>a DEF IInv, StatusOfPc, CheckoutAtPc, Body
<1>5. TrialIsDescribed'
  BY <1>a DEF IInv, StatusOfPc, TrialIsDescribed, Body
<1>6. RecordedWithinCap'
  BY DEF IInv, RecordedWithinCap, Capped
<1> QED BY <1>1, <1>2, <1>3, <1>4, <1>5, <1>6 DEF IInv

LEMMA RaiseStep == IInv /\ Raise => IInv'
<1> SUFFICES ASSUME IInv, Raise PROVE IInv'
  OBVIOUS
<1> USE DEF Raise, copies, trial, resources
<1>a. /\ EditsOf(diff)' = EditsOf(diff)
      /\ EditsOf(checkout)' = EditsOf(checkout)
      /\ Analysis' = Analysis
  BY SameRequest DEF EditsOf, Analysis, HighRisk
<1>1. TypeOK'
  BY SameRequest, RequestFacts DEF IInv, TypeOK
<1>2. (StatusOfPc /\ RetryIsDue)'
  BY DEF IInv, TypeOK, StatusOfPc, RetryIsDue, Body
<1>3. BaselineIsPristine'
  BY SameRequest DEF IInv, TypeOK, BaselineIsPristine
<1>4. CheckoutAtPc'
  BY <1>a DEF IInv, StatusOfPc, CheckoutAtPc, Body
<1>5. TrialIsDescribed'
  BY <1>a DEF IInv, StatusOfPc, TrialIsDescribed, Body
<1>6. RecordedWithinCap'
  BY DEF IInv, RecordedWithinCap, Capped
<1> QED BY <1>1, <1>2, <1>3, <1>4, <1>5, <1>6 DEF IInv

LEMMA CleanupStep == IInv /\ Cleanup => IInv'
<1> SUFFICES ASSUME IInv, Cleanup PROVE IInv'
  OBVIOUS
<1> USE DEF Cleanup, copies, trial, resources
<1>a. /\ EditsOf(diff)' = EditsOf(diff)
      /\ EditsOf(checkout)' = EditsOf(checkout)
      /\ Analysis' = Analysis
  BY SameRequest DEF EditsOf, Analysis, HighRisk
<1>1. TypeOK'
  BY SameRequest, RequestFacts DEF IInv, TypeOK
<1>2. (StatusOfPc /\ RetryIsDue)'
  BY DEF IInv, TypeOK, StatusOfPc, RetryIsDue, Body
<1>3. BaselineIsPristine'
  BY SameRequest DEF IInv, TypeOK, BaselineIsPristine
<1>4. CheckoutAtPc'
  BY <1>a DEF IInv, StatusOfPc, CheckoutAtPc, Body
<1>5. TrialIsDescribed'
  BY <1>a DEF IInv, StatusOfPc, TrialIsDescribed, Body
<1>6. RecordedWithinCap'
  BY DEF IInv, RecordedWithinCap, Capped
<1> QED BY <1>1, <1>2, <1>3, <1>4, <1>5, <1>6 DEF IInv

LEMMA KillStep == IInv /\ Kill => IInv'
<1> SUFFICES ASSUME IInv, Kill PROVE IInv'
  OBVIOUS
<1> USE DEF Kill, copies, trial, resources
<1>a. /\ EditsOf(diff)' = EditsOf(diff)
      /\ EditsOf(checkout)' = EditsOf(checkout)
      /\ Analysis' = Analysis
  BY SameRequest DEF EditsOf, Analysis, HighRisk
<1>1. TypeOK'
  BY SameRequest, RequestFacts DEF IInv, TypeOK
<1>2. (StatusOfPc /\ RetryIsDue)'
  BY DEF IInv, TypeOK, StatusOfPc, RetryIsDue, Body
<1>3. BaselineIsPristine'
  BY SameRequest DEF IInv, TypeOK, BaselineIsPristine
<1>4. CheckoutAtPc'
  BY <1>a DEF IInv, StatusOfPc, CheckoutAtPc, Body
<1>5. TrialIsDescribed'
  BY <1>a DEF IInv, StatusOfPc, TrialIsDescribed, Body
<1>6. RecordedWithinCap'
  BY DEF IInv, RecordedWithinCap, Capped
<1> QED BY <1>1, <1>2, <1>3, <1>4, <1>5, <1>6 DEF IInv

\* A stuttering step changes nothing the invariant speaks of.
LEMMA StutterStep == IInv /\ UNCHANGED vars => IInv'
<1> SUFFICES ASSUME IInv, UNCHANGED vars PROVE IInv'
  OBVIOUS
<1> USE DEF IInv, vars, copies, trial, resources
<1>1. (TypeOK /\ RecordedWithinCap)'
  BY SameRequest DEF TypeOK, RecordedWithinCap, Capped
<1>2. (StatusOfPc /\ RetryIsDue /\ BaselineIsPristine)'
  BY SameRequest DEF StatusOfPc, RetryIsDue, BaselineIsPristine
<1>3. (CheckoutAtPc /\ TrialIsDescribed)'
  BY SameRequest DEF CheckoutAtPc, TrialIsDescribed, EditsOf, Analysis, HighRisk
<1> QED BY <1>1, <1>2, <1>3

LEMMA NextPreserves == IInv /\ [Next]_vars => IInv'
BY PrepareStep, CaptureBaselineStep, CaptureFailsStep, PlanAndEditStep,
   PlanRejectedStep, InvocationFailsStep, RunSandboxStep, JudgeStep,
   RemoveCheckoutStep, CopyBaselineStep, WriteReportStep, CleanupStep,
   StragglerWritesStep, RaiseStep, KillStep, StutterStep
   DEF Next, Step

\* The inductive invariant holds throughout.
LEMMA Invariance == Spec => []IInv
<1>1. Init => IInv
  BY InitEstablishes
<1>2. IInv /\ [Next]_vars => IInv'
  BY NextPreserves
<1> QED BY <1>1, <1>2, PTL DEF Spec

-----------------------------------------------------------------------------
(* The theorems *)

\* The variables keep their types, and a run makes at most one attempt more
\* than its retries, whatever its requests, plans and tests.
THEOREM TypeCorrect == Spec => []TypeOK
<1>1. IInv => TypeOK
  BY DEF IInv
<1> QED BY <1>1, Invariance, PTL

\* What a completed run reports is what its checkout holds.
THEOREM ReportIsTrue == Spec => []ReportMatches
<1>1. IInv => ReportMatches
  <2> SUFFICES ASSUME IInv, status = "completed"
               PROVE  /\ EditsOf(diff) = EditsOf(checkout)
                      /\ verdict \in {"patch_validated", QualityWarning} =>
                             <<attempt, "edit">> \in checkout /\ test = "passed"
    BY DEF ReportMatches
  <2>1. EditsOf(diff) = EditsOf(checkout) /\ verdict = Analysis
    BY DEF IInv, TrialIsDescribed
  <2>2. patch # "none" => <<attempt, "edit">> \in checkout
    BY DEF IInv, CheckoutAtPc, EditsOf
  <2> QED BY <2>1, <2>2, AnalysisFacts DEF IInv, TypeOK
<1> QED BY <1>1, Invariance, PTL

\* A restore always finds the pristine baseline, and the copy outlives no run
\* that got its restorer.
THEOREM BaselineIsKept == Spec => []BaselineLifetime
<1>1. IInv => BaselineLifetime
  BY DEF IInv, StatusOfPc, RetryIsDue, BaselineIsPristine, BaselineLifetime, Body
<1> QED BY <1>1, Invariance, PTL

\* The recorded responses of all attempts together stay within the cap.
THEOREM CapIsKept == Spec => []RecordedWithinCap
<1>1. IInv => RecordedWithinCap
  BY DEF IInv
<1> QED BY <1>1, Invariance, PTL

\* Only the three outcomes of a plan begin an attempt.
LEMMA AttemptNeedsPlan ==
    ASSUME IInv, Next, attempt' # attempt
    PROVE  pc = "plan"
<1> USE DEF Prepare, CaptureBaseline, CaptureFails, RunSandbox, Judge, RemoveCheckout,
            CopyBaseline, WriteReport, Cleanup, StragglerWrites, Raise, Kill
<1>1. PlanAndEdit \/ PlanRejected \/ InvocationFails
  BY DEF Next, Step
<1> QED BY <1>1 DEF PlanAndEdit, PlanRejected, InvocationFails, BeginAttempt

\* Every attempt begins on the pristine checkout.
THEOREM AttemptsStartClean == Spec => CleanStart
<1>1. IInv /\ [Next]_vars => [attempt' # attempt => checkout = Pristine]_vars
  BY AttemptNeedsPlan DEF IInv, CheckoutAtPc, vars
<1> QED BY <1>1, Invariance, PTL DEF Spec, CleanStart

\* Every retry begins with more than the reserve of every capped resource.
THEOREM RetriesHaveHeadroom == Spec => RetryHasHeadroom
<1>1. ASSUME IInv, [Next]_vars, attempt' # attempt, attempt > 0,
             NEW r \in Resource, Capped(r)
      PROVE  used[r] + Reserve < request.cap[r]
  <2>1. pc = "plan"
    BY <1>1, AttemptNeedsPlan DEF vars
  <2>2. Remaining(r) > Reserve
    BY <1>1, <2>1 DEF IInv, RetryIsDue
  <2>3. Remaining(r) \in Nat /\ request.cap[r] \in Nat /\ used[r] \in Nat
    BY <1>1, RemainingFacts, RequestFacts DEF IInv, TypeOK
  <2>4. Remaining(r) > 0
    BY <2>2, <2>3, RunAssumption
  <2>5. Remaining(r) = request.cap[r] - used[r]
    BY <1>1, <2>4, RemainingFacts DEF IInv, TypeOK
  <2> QED BY <2>2, <2>3, <2>5, RunAssumption
<1>2. IInv /\ [Next]_vars =>
          [attempt' # attempt /\ attempt > 0 =>
              \A r \in Resource : Capped(r) => used[r] + Reserve < request.cap[r]]_vars
  BY <1>1
<1> QED BY <1>2, Invariance, PTL DEF Spec, RetryHasHeadroom

-----------------------------------------------------------------------------
(* The run implements the series of trials *)

outcome == IF status \in {"running", "completed"} THEN status ELSE "abandoned"
open == pc \in {"test", "judge"}
capped == \E r \in Resource : Capped(r)

\* The parts of the abstract state a step may leave alone.
LEMMA SameTrials ==
    ASSUME UNCHANGED request
    PROVE  RetryBudget' = RetryBudget /\ capped' = capped
BY SameRequest DEF capped

LEMMA TrialsInit == Init => Trials!Init
<1> SUFFICES ASSUME Init PROVE Trials!Init
  OBVIOUS
<1>0. request \in Request
  BY RequestAssumption DEF Init
<1>1. RetryBudget \in Nat
  BY <1>0, RequestFacts, RunAssumption
<1> QED BY <1>1 DEF Init, Trials!Init

LEMMA BeginsTrial ==
    ASSUME IInv, NEW p \in Patch, NEW n \in Spendable, BeginAttempt(p, n)
    PROVE  Trials!Begin
<1>1. pc = "plan" /\ pc' = "test" /\ UNCHANGED <<request, status, verdict>>
  BY DEF BeginAttempt
<1>2. status = "running" /\ attempt' = attempt + 1
  BY <1>1, AttemptBegins DEF IInv, StatusOfPc, Body
<1>3. attempt = 0 \/ (verdict \in Retryable /\ attempt <= RetryBudget)
  BY <1>1, RequestFacts, RunAssumption DEF IInv, RetryIsDue, TypeOK
<1>4. RetryBudget' = RetryBudget /\ capped' = capped
  BY <1>1, SameTrials
<1> QED BY <1>1, <1>2, <1>3, <1>4 DEF Trials!Begin, Trials!Entitled, capped

LEMMA TrialsStep == IInv /\ [Next]_vars => [Trials!Next]_Trials!vars
<1> SUFFICES ASSUME IInv, [Next]_vars PROVE [Trials!Next]_Trials!vars
  OBVIOUS
<1> USE DEF copies, trial, resources
<1>0. ASSUME UNCHANGED <<request, status, attempt, verdict>>, open' = open
      PROVE  UNCHANGED Trials!vars
  BY <1>0, SameTrials DEF Trials!vars, open, capped
<1>1. CASE Prepare
  BY <1>1, <1>0 DEF Prepare, open
<1>2. CASE CaptureBaseline
  BY <1>2, <1>0 DEF CaptureBaseline, open
<1>3. CASE CaptureFails
  <2>1. status = "running" /\ status' = "failed" /\ UNCHANGED <<request, attempt, verdict>>
    BY <1>3 DEF CaptureFails, IInv, StatusOfPc, Body
  <2>2. pc' = "finally" /\ RetryBudget' = RetryBudget /\ capped' = capped
    BY <1>3, SameTrials DEF CaptureFails
  <2> QED BY <2>1, <2>2 DEF Trials!Next, Trials!Abandon, capped
<1>4. CASE PlanAndEdit
  <2>1. PICK n \in Spendable, p \in {"clean", "risky"} : BeginAttempt(p, n)
    BY <1>4 DEF PlanAndEdit
  <2> QED BY <2>1, BeginsTrial DEF Patch, Trials!Next
<1>5. CASE PlanRejected
  <2>1. PICK n \in Spendable : BeginAttempt("none", n)
    BY <1>5 DEF PlanRejected
  <2> QED BY <2>1, BeginsTrial DEF Patch, Trials!Next
<1>6. CASE InvocationFails
  <2>1. PICK n \in Spendable : BeginAttempt("none", n)
    BY <1>6 DEF InvocationFails
  <2> QED BY <2>1, BeginsTrial DEF Patch, Trials!Next
<1>7. CASE RunSandbox
  BY <1>7, <1>0 DEF RunSandbox, open
<1>8. CASE Judge
  <2>1. verdict' \in Verdict
    BY <1>8, AnalysisFacts DEF Judge, IInv, TypeOK
  <2>2. /\ status = "running" /\ status' = "running"
        /\ pc = "judge" /\ pc' \notin {"test", "judge"}
        /\ UNCHANGED <<request, attempt>>
    BY <1>8 DEF Judge, IInv, StatusOfPc, Body
  <2>3. RetryBudget' = RetryBudget /\ capped' = capped
    BY <2>2, SameTrials
  <2> QED BY <2>1, <2>2, <2>3 DEF Trials!Next, Trials!Judge, capped
<1>9. CASE RemoveCheckout
  BY <1>9, <1>0 DEF RemoveCheckout, open
<1>10. CASE CopyBaseline
  BY <1>10, <1>0 DEF CopyBaseline, open
<1>11. CASE WriteReport
  <2>1. /\ status = "running" /\ status' = "completed"
        /\ pc = "report" /\ pc' = "finally"
        /\ attempt > 0
        /\ UNCHANGED <<request, attempt, verdict>>
    BY <1>11 DEF WriteReport, IInv, StatusOfPc, Body
  <2>2. verdict \in Retryable /\ attempt <= RetryBudget => capped
    BY <2>1 DEF IInv, TrialIsDescribed, capped
  <2>3. RetryBudget' = RetryBudget /\ capped' = capped
    BY <2>1, SameTrials
  <2> QED BY <2>1, <2>2, <2>3 DEF Trials!Next, Trials!Complete, Trials!Entitled, capped
<1>12. CASE Cleanup
  BY <1>12, <1>0 DEF Cleanup, open
<1>13. CASE StragglerWrites
  BY <1>13, <1>0 DEF StragglerWrites, open
<1>14. CASE Raise
  <2>1. status = "running" /\ status' = "failed" /\ UNCHANGED <<request, attempt, verdict>>
    BY <1>14 DEF Raise, IInv, TypeOK, StatusOfPc, Body
  <2>2. pc' = "finally" /\ RetryBudget' = RetryBudget /\ capped' = capped
    BY <1>14, SameTrials DEF Raise
  <2> QED BY <2>1, <2>2 DEF Trials!Next, Trials!Abandon, capped
<1>15. CASE Kill
  <2>1. pc' = "dead" /\ UNCHANGED <<request, attempt, verdict>>
    BY <1>15 DEF Kill
  <2>2. RetryBudget' = RetryBudget /\ capped' = capped
    BY <2>1, SameTrials
  <2>3. CASE status = "running"
    <3>1. status' = "killed"
      BY <1>15, <2>3 DEF Kill
    <3> QED BY <2>1, <2>2, <2>3, <3>1 DEF Trials!Next, Trials!Abandon, capped
  <2>4. CASE status # "running"
    <3>1. status' = status /\ pc \notin {"test", "judge"}
      BY <1>15, <2>4 DEF Kill, IInv, StatusOfPc, Body
    <3> QED BY <2>1, <3>1, <1>0 DEF open
  <2> QED BY <2>3, <2>4
<1>16. CASE UNCHANGED vars
  BY <1>16, <1>0 DEF vars, open
<1> QED BY <1>1, <1>2, <1>3, <1>4, <1>5, <1>6, <1>7, <1>8, <1>9, <1>10, <1>11,
           <1>12, <1>13, <1>14, <1>15, <1>16 DEF Next, Step

\* The retry loop is a bounded series of trials, each judged before the next,
\* none retried on a verdict that blames the environment.
THEOREM TrialsImplemented == Spec => ImplementsTrials
<1>1. Init => Trials!Init
  BY TrialsInit
<1>2. IInv /\ [Next]_vars => [Trials!Next]_Trials!vars
  BY TrialsStep
<1> QED BY <1>1, <1>2, Invariance, PTL DEF Spec, ImplementsTrials, Trials!Spec
=============================================================================
