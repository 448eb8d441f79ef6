-------------------------- MODULE Evaluation_proofs --------------------------
(***************************************************************************)
(* What holds of the suites of ComplexSuite, and then of the focused-test  *)
(* stages of IssueSetup.  The two modules share no state.                  *)
(*                                                                         *)
(* A suite is about sums, orders and rates over the rows of result files,  *)
(* so most of the first half is about operators: a sum of recorded costs   *)
(* is a number, selection keys are well ordered, a rate over one row is    *)
(* that of the row.  The invariant then says where a run of passed checks  *)
(* and a run of blocked follow-ups can have got to.                        *)
(*                                                                         *)
(* The artifacts of the stages are joined at different ages, so their      *)
(* invariant says of each only what its stage put into it, and of two of   *)
(* them what the count of the ordered stages promises: a stage that runs   *)
(* again leaves the promise of the stages before it alone and takes back   *)
(* that of the later ones.                                                 *)
(***************************************************************************)
EXTENDS IssueSetup, ComplexSuite, FiniteSetTheorems, WellFoundedInduction, TLAPS

-----------------------------------------------------------------------------
(* Least numbers and sums *)

\* Every set of numbers has a least one: what stands in for induction here.
LEMMA LeastNumber ==
    ASSUME NEW T \in SUBSET Nat, T # {}
    PROVE  \E m \in T : \A n \in T : m <= n
<1>1. IsWellFoundedOn(OpToRel(<, Nat), Nat)
  BY NatLessThanWellFounded
<1>2. PICK m \in T : \A n \in T : ~(<<n, m>> \in OpToRel(<, Nat))
  BY <1>1, WFMin, Zenon
<1>3. \A n, k \in Nat : n < k => <<n, k>> \in OpToRel(<, Nat)
  BY DEF OpToRel
<1>4. \A n \in T : ~(n < m)
  BY <1>2, <1>3
<1> QED BY <1>4

\* The sum of numbers is a number, not less than one of them, and the number itself
\* if there is one only.
LEMMA SumUnfolds ==
    ASSUME NEW h, IsFiniteSet(DOMAIN h), \A x \in DOMAIN h : h[x] \in Nat
    PROVE  /\ SumFunction(h) \in Nat
           /\ DOMAIN h # {} => \E x \in DOMAIN h : SumFunction(h) >= h[x]
           /\ \A x : DOMAIN h = {x} => SumFunction(h) = h[x]
<1> DEFINE S == DOMAIN h
           pick(s) == CHOOSE x \in s : TRUE
           body(k, s) == IF s = {} THEN 0 ELSE h[pick(s)] + k[s \ {pick(s)}]
           iter == CHOOSE f : f = [s \in SUBSET S |-> body(f, s)]
           small(n) == {s \in SUBSET S : Cardinality(s) <= n}
           solves(f, n) == \A s \in small(n) : f[s] = body(f, s)
           bad == {n \in Nat : ~\E f \in [small(n) -> Nat] : solves(f, n)}
<1>1. SumFunction(h) = iter[S]
  BY DEF SumFunction, SumFunctionOnSet, FoldFunctionOnSet, MapThenFoldSet
<1>2. \A s \in SUBSET S : /\ Cardinality(s) \in Nat /\ Cardinality(s) <= Cardinality(S)
                          /\ s = {} <=> Cardinality(s) = 0
                          /\ s # {} => /\ pick(s) \in s /\ s \ {pick(s)} \in SUBSET S
                                       /\ Cardinality(s \ {pick(s)}) = Cardinality(s) - 1
  <2> SUFFICES ASSUME NEW s \in SUBSET S
               PROVE  /\ Cardinality(s) \in Nat /\ Cardinality(s) <= Cardinality(S)
                      /\ s = {} <=> Cardinality(s) = 0
                      /\ s # {} => /\ pick(s) \in s /\ s \ {pick(s)} \in SUBSET S
                                   /\ Cardinality(s \ {pick(s)}) = Cardinality(s) - 1
    OBVIOUS
  <2>1. IsFiniteSet(s) /\ Cardinality(s) <= Cardinality(S)
    BY FS_Subset
  <2>2. Cardinality(s) \in Nat /\ (s = {} <=> Cardinality(s) = 0)
    BY <2>1, FS_CardinalityType, FS_EmptySet
  <2>3. s # {} => pick(s) \in s
    OBVIOUS
  <2>4. s # {} => Cardinality(s \ {pick(s)}) = Cardinality(s) - 1
    BY <2>1, <2>3, FS_RemoveElement
  <2> QED BY <2>1, <2>2, <2>3, <2>4
<1>a. \A s, n : s \in small(n) <=> s \in SUBSET S /\ Cardinality(s) <= n
  OBVIOUS
<1>b. \A k, s : body(k, s) = IF s = {} THEN 0 ELSE h[pick(s)] + k[s \ {pick(s)}]
  OBVIOUS
<1> HIDE DEF small, pick, body
<1>3. bad = {}
  <2> SUFFICES ASSUME bad # {} PROVE FALSE
    OBVIOUS
  <2>1. PICK n \in bad : \A m \in bad : n <= m
    BY LeastNumber
  <2>2. CASE n = 0
    <3> DEFINE g == [s \in small(0) |-> 0]
    <3>1. \A s \in small(0) : s = {}
      <4> SUFFICES ASSUME NEW s \in small(0) PROVE s = {}
        OBVIOUS
      <4>1. s \in SUBSET S /\ Cardinality(s) <= 0
        BY <1>a
      <4>2. Cardinality(s) \in Nat
        BY <4>1, <1>2
      <4>3. Cardinality(s) = 0
        BY <4>1, <4>2
      <4> QED BY <4>1, <4>3, <1>2, Zenon
    <3>2. g \in [small(0) -> Nat] /\ solves(g, 0)
      BY <3>1, <1>b
    <3> QED BY <3>2, <2>1, <2>2
  <2>3. CASE n # 0
    <3>1. n \in Nat /\ n - 1 \in Nat /\ n - 1 \notin bad
      <4>1. n \in Nat /\ n - 1 \in Nat /\ ~(n <= n - 1)
        BY <2>3
      <4> QED BY <4>1, <2>1
    <3>2. PICK f \in [small(n - 1) -> Nat] : solves(f, n - 1)
      BY <3>1
    <3> DEFINE g == [s \in small(n) |-> body(f, s)]
    <3>3. \A s \in small(n) : s # {} => s \ {pick(s)} \in small(n - 1)
      BY <1>2, <1>a, <3>1
    <3>4. \A s \in small(n) : body(f, s) \in Nat
      <4> SUFFICES ASSUME NEW s \in small(n) PROVE body(f, s) \in Nat
        OBVIOUS
      <4>1. CASE s = {}
        BY <4>1, <1>b
      <4>2. CASE s # {}
        <5>1. h[pick(s)] \in Nat /\ f[s \ {pick(s)}] \in Nat
          BY <4>2, <1>2, <1>a, <3>2, <3>3
        <5>2. body(f, s) = h[pick(s)] + f[s \ {pick(s)}]
          BY <4>2, <1>b, Zenon
        <5>3. h[pick(s)] + f[s \ {pick(s)}] \in Nat
          BY <5>1
        <5> QED BY <5>2, <5>3, Zenon
      <4> QED BY <4>1, <4>2
    <3>5. \A s \in small(n - 1) : s \in small(n) /\ g[s] = f[s]
      <4> SUFFICES ASSUME NEW s \in small(n - 1) PROVE s \in small(n) /\ g[s] = f[s]
        OBVIOUS
      <4>1. s \in SUBSET S /\ Cardinality(s) \in Nat /\ Cardinality(s) <= n - 1
        BY <1>a, <1>2
      <4>2. s \in small(n)
        BY <4>1, <3>1, <1>a
      <4>3. f[s] = body(f, s)
        BY <3>2
      <4> QED BY <4>2, <4>3
    <3>6. \A s \in small(n) : g[s] = body(g, s)
      <4> SUFFICES ASSUME NEW s \in small(n) PROVE g[s] = body(g, s)
        OBVIOUS
      <4>1. s # {} => g[s \ {pick(s)}] = f[s \ {pick(s)}]
        BY <3>3, <3>5
      <4>2. body(g, s) = body(f, s)
        <5>1. body(g, s) = IF s = {} THEN 0 ELSE h[pick(s)] + g[s \ {pick(s)}]
          BY <1>b, Zenon
        <5>2. body(f, s) = IF s = {} THEN 0 ELSE h[pick(s)] + f[s \ {pick(s)}]
          BY <1>b, Zenon
        <5> HIDE DEF g
        <5> QED BY <5>1, <5>2, <4>1, Zenon
      <4> QED BY <4>2
    <3>7. g \in [small(n) -> Nat]
      BY <3>4
    <3> QED BY <3>6, <3>7, <3>1, <2>1
  <2> QED BY <2>2, <2>3
<1>4. \E f : f = [s \in SUBSET S |-> body(f, s)]
  <2>1. Cardinality(S) \in Nat
    BY <1>2
  <2>2. PICK f \in [small(Cardinality(S)) -> Nat] : solves(f, Cardinality(S))
    BY <1>3, <2>1
  <2>3. small(Cardinality(S)) = SUBSET S
    BY <1>2, <1>a
  <2>4. f = [s \in SUBSET S |-> body(f, s)]
    BY <2>2, <2>3
  <2> QED BY <2>4
<1>5. iter = [s \in SUBSET S |-> body(iter, s)]
  BY <1>4
<1> HIDE DEF iter
<1>6. \A s \in SUBSET S : iter[s] = body(iter, s)
  BY <1>5
<1>7. \A s \in SUBSET S : iter[s] \in Nat
  <2> DEFINE odd == {Cardinality(s) : s \in {t \in SUBSET S : iter[t] \notin Nat}}
  <2> SUFFICES ASSUME odd # {} PROVE FALSE
    OBVIOUS
  <2>0. \A n : n \in odd <=> \E s \in SUBSET S : n = Cardinality(s) /\ iter[s] \notin Nat
    OBVIOUS
  <2> HIDE DEF odd
  <2>1. odd \in SUBSET Nat
    <3> SUFFICES ASSUME NEW k \in odd PROVE k \in Nat
      OBVIOUS
    <3>1. PICK s \in SUBSET S : k = Cardinality(s)
      BY <2>0
    <3> QED BY <3>1, <1>2
  <2>2. PICK n \in odd : \A m \in odd : n <= m
    BY <2>1, LeastNumber
  <2>3. PICK s \in SUBSET S : n = Cardinality(s) /\ iter[s] \notin Nat
    BY <2>0, <2>2
  <2>4. s # {}
    BY <2>3, <1>6, <1>b
  <2>5. Cardinality(s \ {pick(s)}) \notin odd
    <3>1. n \in Nat /\ Cardinality(s \ {pick(s)}) = n - 1
      BY <2>1, <2>3, <2>4, <1>2
    <3>2. ~(n <= n - 1)
      BY <3>1
    <3> QED BY <2>2, <3>1, <3>2
  <2>6. iter[s \ {pick(s)}] \in Nat
    BY <2>5, <2>4, <1>2, <2>0
  <2>7. iter[s] = h[pick(s)] + iter[s \ {pick(s)}] /\ h[pick(s)] \in Nat
    BY <2>4, <1>2, <1>6, <1>b
  <2> QED BY <2>3, <2>6, <2>7
<1>8. SumFunction(h) \in Nat
  BY <1>1, <1>7
<1>9. ASSUME S # {}
      PROVE  /\ pick(S) \in S /\ iter[S \ {pick(S)}] \in Nat /\ h[pick(S)] \in Nat
             /\ iter[S] = h[pick(S)] + iter[S \ {pick(S)}]
  BY <1>2, <1>6, <1>7, <1>9, <1>b
<1>10. S # {} => \E x \in S : SumFunction(h) >= h[x]
  BY <1>1, <1>9
<1>11. ASSUME NEW x, S = {x} PROVE SumFunction(h) = h[x]
  <2>1. pick(S) = x /\ S \ {pick(S)} = {}
    BY <1>11, <1>2
  <2>2. iter[{}] = 0
    BY <1>6, <1>b
  <2>3. iter[S] = h[x] + 0 /\ h[x] \in Nat
    BY <2>1, <2>2, <1>9, <1>11
  <2> QED BY <2>3, <1>1
<1> QED BY <1>8, <1>10, <1>11

LEMMA GreatestOf ==
    ASSUME NEW n \in Nat, NEW T \in SUBSET (1..n), T # {}
    PROVE  Max(T) \in T
<1> DEFINE D == {n - k : k \in T}
<1>1. D \in SUBSET Nat /\ D # {}
  <2>1. \A k \in T : n - k \in Nat
    OBVIOUS
  <2> QED BY <2>1
<1>2. PICK m \in D : \A d \in D : m <= d
  BY <1>1, LeastNumber
<1>3. PICK k \in T : m = n - k
  BY <1>2
<1>4. \A j \in T : j \in Int /\ k \in Int /\ n - k <= n - j
  <2>1. \A j \in T : n - j \in D
    OBVIOUS
  <2> HIDE DEF D
  <2>2. \A j \in T : n - k <= n - j
    BY <1>2, <1>3, <2>1
  <2>3. \A j \in T : j \in Int
    OBVIOUS
  <2> QED BY <2>2, <2>3
<1>5. \A j \in T : k >= j
  BY <1>4
<1>6. \E x \in T : \A y \in T : x >= y
  BY <1>5
<1> QED BY <1>6 DEF Max

LEMMA FinitelyMany ==
    ASSUME NEW n \in Nat, NEW T \in SUBSET (1..n)
    PROVE  IsFiniteSet(T) /\ Cardinality(T) \in Nat
<1>1. IsFiniteSet(1..n)
  BY FS_Interval
<1>2. IsFiniteSet(T)
  BY <1>1, FS_Subset
<1> QED BY <1>2, FS_CardinalityType

LEMMA OneMore ==
    ASSUME NEW S, NEW x, NEW n \in Nat, IsFiniteSet(S), Cardinality(S) <= n
    PROVE  IsFiniteSet(S \cup {x}) /\ Cardinality(S \cup {x}) <= n + 1
<1>1. Cardinality(S) \in Nat
  BY FS_CardinalityType
<1>2. /\ IsFiniteSet(S \cup {x})
      /\ Cardinality(S \cup {x}) = IF x \in S THEN Cardinality(S) ELSE Cardinality(S) + 1
  BY FS_AddElement
<1> QED BY <1>1, <1>2

-----------------------------------------------------------------------------
(* What a trace and a diff say *)

\* What selection, the process quality and the gate compare are numbers and words
\* of the few that have a rank.
ReadingOK(u) ==
    /\ u.severity \in Severities
    /\ u.targets \in {"aligned", "misaligned", "unavailable"}
    /\ u.failures \in Nat /\ u.retries \in Nat /\ u.cost \in Nat
    /\ u.signals \in 0..7

LEMMA NoRepairIsOne == NoRepair \in Repair
BY DEF NoRepair, Repair, Severities

LEMMA CostIsKnownOr ==
    ASSUME NEW events \in Seq(Event)
    PROVE  CostOf(events) \in Nat
<1> DEFINE known == {i \in DOMAIN events : events[i].cost # Unknown}
           h == [i \in known |-> events[i].cost]
<1>1. known \in SUBSET (1..Len(events)) /\ Len(events) \in Nat
  OBVIOUS
<1>2. IsFiniteSet(DOMAIN h)
  BY <1>1, FinitelyMany
<1>3. \A i \in DOMAIN events : events[i].cost \in Nat
  <2>1. \A i \in DOMAIN events : events[i] \in Event
    OBVIOUS
  <2> QED BY <2>1 DEF Event
<1>4. \A i \in DOMAIN h : h[i] \in Nat
  BY <1>3
<1>5. SumFunction(h) \in Nat
  <2> HIDE DEF h
  <2> QED BY <1>2, <1>4, SumUnfolds
<1>6. CostOf(events) = IF known = {} THEN Unknown ELSE SumFunction(h)
  BY Zenon DEF CostOf
<1> QED BY <1>5, <1>6 DEF Unknown

LEMMA LastSeverityType ==
    ASSUME NEW events \in Seq(Event)
    PROVE  LastSeverity(events) \in Severities
<1> DEFINE said == {i \in DOMAIN events : events[i].severity # "none"}
<1>1. said \in SUBSET (1..Len(events)) /\ Len(events) \in Nat
  OBVIOUS
<1>2. said # {} => Max(said) \in DOMAIN events
  BY <1>1, GreatestOf
<1>3. \A i \in DOMAIN events : events[i].severity \in Severities
  <2>1. \A i \in DOMAIN events : events[i] \in Event
    OBVIOUS
  <2> QED BY <2>1 DEF Event
<1>4. LastSeverity(events) = IF said = {} THEN "none" ELSE events[Max(said)].severity
  BY Zenon DEF LastSeverity
<1> QED BY <1>2, <1>3, <1>4 DEF Severities

LEMMA SignalsAreSeven ==
    ASSUME NEW events
    PROVE  Cardinality(Signals(events)) \in 0..7
<1> DEFINE A == {"todo_planning"} B == A \cup {"constrained_filesystem"}
           C == B \cup {"specialist_review"} D == C \cup {"guardrails"}
           E == D \cup {"structured_output"} F == E \cup {"retry_feedback"}
           G == F \cup {"patch_diagnostics"}
<1> HIDE DEF A, B, C, D, E, F, G
<1>1. IsFiniteSet(A) /\ Cardinality(A) <= 1
  BY FS_Singleton DEF A
<1>2. IsFiniteSet(B) /\ Cardinality(B) <= 2
  <2>1. IsFiniteSet(B) /\ Cardinality(B) <= 1 + 1
    BY <1>1, OneMore DEF B
  <2> QED BY <2>1
<1>3. IsFiniteSet(C) /\ Cardinality(C) <= 3
  <2>1. IsFiniteSet(C) /\ Cardinality(C) <= 2 + 1
    BY <1>2, OneMore DEF C
  <2> QED BY <2>1
<1>4. IsFiniteSet(D) /\ Cardinality(D) <= 4
  <2>1. IsFiniteSet(D) /\ Cardinality(D) <= 3 + 1
    BY <1>3, OneMore DEF D
  <2> QED BY <2>1
<1>5. IsFiniteSet(E) /\ Cardinality(E) <= 5
  <2>1. IsFiniteSet(E) /\ Cardinality(E) <= 4 + 1
    BY <1>4, OneMore DEF E
  <2> QED BY <2>1
<1>6. IsFiniteSet(F) /\ Cardinality(F) <= 6
  <2>1. IsFiniteSet(F) /\ Cardinality(F) <= 5 + 1
    BY <1>5, OneMore DEF F
  <2> QED BY <2>1
<1>7. IsFiniteSet(G) /\ Cardinality(G) <= 7
  <2>1. IsFiniteSet(G) /\ Cardinality(G) <= 6 + 1
    BY <1>6, OneMore DEF G
  <2> QED BY <2>1
<1>8. Signals(events) \in SUBSET G
  BY DEF Signals, A, B, C, D, E, F, G
<1>9. IsFiniteSet(Signals(events)) /\ Cardinality(Signals(events)) <= Cardinality(G)
  BY <1>7, <1>8, FS_Subset
<1>10. Cardinality(Signals(events)) \in Nat /\ Cardinality(G) \in Nat
  BY <1>7, <1>9, FS_CardinalityType
<1> QED BY <1>7, <1>9, <1>10

LEMMA ReadingIsOK ==
    ASSUME NEW repair \in Repair
    PROVE  ReadingOK(Read(repair))
<1> DEFINE u == Read(repair)
           es == repair.events
<1>1. es \in Seq(Event) /\ repair.risk \in Severities
  BY DEF Repair
<1>2. /\ u.severity = Higher(LastSeverity(es), repair.risk)
      /\ u.targets = Alignment(repair.diff, Localized(es))
      /\ u.failures = Cardinality({i \in DOMAIN es : es[i].failed})
      /\ u.retries = Cardinality(Nodes(es, {"feedback_retry"}))
      /\ u.cost = CostOf(es)
      /\ u.signals = Cardinality(Signals(es))
  BY DEF Read
<1> HIDE DEF u
<1>3. Len(es) \in Nat /\ DOMAIN es = 1..Len(es)
  BY <1>1
<1>4. u.failures \in Nat /\ u.retries \in Nat
  <2>1. {i \in DOMAIN es : es[i].failed} \in SUBSET (1..Len(es))
    BY <1>3
  <2>2. Nodes(es, {"feedback_retry"}) \in SUBSET (1..Len(es))
    BY <1>3 DEF Nodes
  <2> QED BY <2>1, <2>2, <1>2, <1>3, FinitelyMany
<1>5. u.severity \in Severities
  BY <1>1, <1>2, LastSeverityType DEF Higher
<1>6. u.targets \in {"aligned", "misaligned", "unavailable"}
  BY <1>2 DEF Alignment
<1>7. u.cost \in Nat /\ u.signals \in 0..7
  BY <1>1, <1>2, CostIsKnownOr, SignalsAreSeven
<1> QED BY <1>4, <1>5, <1>6, <1>7 DEF ReadingOK, u

-----------------------------------------------------------------------------
(* Selection *)

RowOK(r) == r.task \in Tasks /\ r.index \in Nat /\ ReadingOK(r.run)

Keys == [1..10 -> Nat]

LEMMA KeyType ==
    ASSUME NEW r, RowOK(r)
    PROVE  /\ SortKey(r) \in Keys
           /\ SortKey(r)[1] = IF StrictPass(r) THEN 0 ELSE 1
<1> DEFINE k == SortKey(r)
<1>1. Progress(r) \in 0..100
  BY DEF Progress
<1>2. Rank(r.run.severity, <<"low", "medium", "high", "none">>) \in 1..4
  <2> DEFINE order == <<"low", "medium", "high", "none">>
  <2>1. DOMAIN order = 1..4
    OBVIOUS
  <2>2. \E i \in DOMAIN order : order[i] = r.run.severity
    <3>1. r.run.severity \in {"none", "low", "medium", "high"}
      BY DEF RowOK, ReadingOK, Severities
    <3> QED BY <3>1
  <2>3. Rank(r.run.severity, order) \in DOMAIN order
    BY <2>2 DEF Rank
  <2> QED BY <2>1, <2>3
<1>3. Rank(r.run.targets, <<"aligned", "unavailable", "misaligned">>) \in 1..3
  <2> DEFINE order == <<"aligned", "unavailable", "misaligned">>
  <2>1. DOMAIN order = 1..3
    OBVIOUS
  <2>2. \E i \in DOMAIN order : order[i] = r.run.targets
    <3>1. r.run.targets \in {"aligned", "misaligned", "unavailable"}
      BY DEF RowOK, ReadingOK
    <3> QED BY <3>1
  <2>3. Rank(r.run.targets, order) \in DOMAIN order
    BY <2>2 DEF Rank
  <2> QED BY <2>1, <2>3
<1>4. /\ r.run.retries \in Nat /\ r.run.failures \in Nat /\ r.run.cost \in Nat
      /\ 7 - r.run.signals \in Nat /\ r.index \in Nat
  BY DEF RowOK, ReadingOK
<1>5. /\ DOMAIN k = 1..10
      /\ k[1] = IF StrictPass(r) THEN 0 ELSE 1
      /\ k[2] = 100 - Progress(r)
      /\ k[3] = Rank(r.run.severity, <<"low", "medium", "high", "none">>)
      /\ k[4] = Rank(r.run.targets, <<"aligned", "unavailable", "misaligned">>)
      /\ k[5] = IF HasPatch(r) THEN 0 ELSE 1
      /\ k[6] = r.run.retries /\ k[7] = r.run.failures /\ k[8] = r.run.cost
      /\ k[9] = 7 - r.run.signals /\ k[10] = r.index
  BY DEF SortKey
<1> HIDE DEF k
<1>6. k = [i \in DOMAIN k |-> k[i]]
  BY DEF SortKey, k
<1>7. \A i \in 1..10 : k[i] \in Nat
  <2>1. k[2] \in Nat /\ k[3] \in Nat /\ k[4] \in Nat
    BY <1>1, <1>2, <1>3, <1>5
  <2>2. k[1] \in Nat /\ k[5] \in Nat
    BY <1>5
  <2>3. k[6] \in Nat /\ k[7] \in Nat /\ k[8] \in Nat /\ k[9] \in Nat /\ k[10] \in Nat
    BY <1>4, <1>5
  <2>4. \A i \in 1..10 : i = 1 \/ i = 2 \/ i = 3 \/ i = 4 \/ i = 5
                         \/ i = 6 \/ i = 7 \/ i = 8 \/ i = 9 \/ i = 10
    OBVIOUS
  <2> QED BY <2>1, <2>2, <2>3, <2>4
<1> QED BY <1>5, <1>6, <1>7 DEF Keys, k

\* Of two keys that differ, one comes before the other.
LEMMA KeysCompare ==
    ASSUME NEW a \in Keys, NEW b \in Keys, a # b
    PROVE  Before(a, b) \/ Before(b, a)
<1> DEFINE D == {i \in 1..10 : a[i] # b[i]}
<1>1. D # {} /\ D \in SUBSET Nat
  BY DEF Keys
<1>2. PICK m \in D : \A n \in D : m <= n
  BY <1>1, LeastNumber
<1>3. \A j \in 1..(m - 1) : a[j] = b[j]
  BY <1>2
<1>4. m \in 1..10 /\ (a[m] < b[m] \/ b[m] < a[m])
  BY <1>2 DEF Keys
<1>5. DOMAIN a = 1..10 /\ DOMAIN b = 1..10
  BY DEF Keys
<1> QED BY <1>3, <1>4, <1>5 DEF Before

\* Some key of any set of keys comes after no other.
LEMMA FirstKey ==
    ASSUME NEW K \in SUBSET Keys, K # {}
    PROVE  \E k \in K : \A l \in K : ~Before(l, k)
<1> DEFINE R == OpToRel(<, Nat)
<1>1. IsWellFoundedOn(LexProductOrdering(R, Nat, 10), [1..10 -> Nat])
  BY NatLessThanWellFounded, WFLexProductOrdering, Zenon
<1>2. PICK k \in K : \A l \in K : ~(<<l, k>> \in LexProductOrdering(R, Nat, 10))
  BY <1>1, WFMin, Zenon DEF Keys
<1>3. \A n, m \in Nat : n < m => <<n, m>> \in R
  BY DEF OpToRel
<1> HIDE DEF R
<1>4. ASSUME NEW l \in K, Before(l, k) PROVE FALSE
  <2>1. l \in [1..10 -> Nat] /\ k \in [1..10 -> Nat] /\ DOMAIN l = 1..10
    BY DEF Keys
  <2>2. PICK i \in 1..10 : l[i] < k[i] /\ \A j \in 1..(i - 1) : l[j] = k[j]
    BY <1>4, <2>1 DEF Before
  <2>3. <<l[i], k[i]>> \in R
    BY <1>3, <2>1, <2>2
  <2> DEFINE ff == <<l, k>>
  <2>4. ff \in [1..10 -> Nat] \X [1..10 -> Nat] /\ ff[1] = l /\ ff[2] = k
    BY <2>1
  <2> HIDE DEF ff
  <2>5. ff \in LexProductOrdering(R, Nat, 10)
    BY <2>2, <2>3, <2>4 DEF LexProductOrdering
  <2> QED BY <2>5, <1>2 DEF ff
<1> QED BY <1>4

\* The selected attempt exists, and none comes before it.
LEMMA SelectedIsBest ==
    ASSUME NEW rows, NEW t, DOMAIN rows \in SUBSET Nat, \A i \in DOMAIN rows : RowOK(rows[i]),
           AttemptsAt(rows, t) # {}
    PROVE  /\ Selected(rows, t) \in AttemptsAt(rows, t)
           /\ \A j \in AttemptsAt(rows, t) :
                 ~Before(SortKey(rows[j]), SortKey(rows[Selected(rows, t)]))
<1> DEFINE A == AttemptsAt(rows, t)
           key(i) == SortKey(rows[i])
           K == {key(i) : i \in A}
           best(i) == \A j \in A : ~Before(key(j), key(i)) /\ (j < i => Before(key(i), key(j)))
<1>1. A \in SUBSET DOMAIN rows
  BY DEF AttemptsAt
<1>2. \A i \in A : key(i) \in Keys
  BY <1>1, KeyType
<1>3. PICK k \in K : \A l \in K : ~Before(l, k)
  <2>1. K \in SUBSET Keys /\ K # {}
    BY <1>2
  <2> QED BY <2>1, FirstKey
<1> DEFINE T == {i \in A : key(i) = k}
<1>4. PICK i \in T : \A j \in T : i <= j
  <2>1. T # {} /\ T \in SUBSET Nat
    BY <1>1, <1>3
  <2> QED BY <2>1, LeastNumber
<1>5. best(i)
  <2> SUFFICES ASSUME NEW j \in A PROVE ~Before(key(j), key(i)) /\ (j < i => Before(key(i), key(j)))
    OBVIOUS
  <2>1. ~Before(key(j), key(i))
    BY <1>3, <1>4
  <2>2. ASSUME j < i PROVE Before(key(i), key(j))
    <3>1. i \in Nat /\ j \in Nat /\ ~(i <= j)
      BY <1>1, <1>4, <2>2
    <3>2. j \notin T
      BY <1>4, <3>1
    <3>3. key(j) # key(i)
      BY <1>4, <3>2
    <3>4. key(j) \in Keys /\ key(i) \in Keys
      BY <1>2, <1>4
    <3> QED BY <2>1, <3>3, <3>4, KeysCompare
  <2> QED BY <2>1, <2>2
<1>6. \E m \in A : best(m)
  BY <1>4, <1>5
<1>7. Selected(rows, t) = CHOOSE m \in A : best(m)
  BY DEF Selected
<1>8. Selected(rows, t) \in A /\ best(Selected(rows, t))
  BY <1>6, <1>7
<1> QED BY <1>8

\* It is strictly validated if any attempt at the task is.
LEMMA SelectedPasses ==
    ASSUME NEW rows, NEW t, DOMAIN rows \in SUBSET Nat, \A i \in DOMAIN rows : RowOK(rows[i]),
           NEW i \in AttemptsAt(rows, t), StrictPass(rows[i])
    PROVE  StrictPass(rows[Selected(rows, t)])
<1> DEFINE s == Selected(rows, t)
           a == SortKey(rows[i])
           b == SortKey(rows[s])
<1>1. s \in AttemptsAt(rows, t) /\ ~Before(a, b)
  BY SelectedIsBest
<1>2. a \in Keys /\ b \in Keys /\ a[1] = 0 /\ b[1] = IF StrictPass(rows[s]) THEN 0 ELSE 1
  BY <1>1, KeyType DEF AttemptsAt
<1> HIDE DEF a, b
<1>3. ~(a[1] < b[1])
  <2>1. DOMAIN a = 1..10 /\ 1 \in 1..10 /\ 1..(1 - 1) = {}
    BY <1>2 DEF Keys
  <2> QED BY <1>1, <2>1 DEF Before
<1> QED BY <1>2, <1>3

-----------------------------------------------------------------------------
(* pass@n *)

\* Tasks with an attempt and the attempts selected at them are as many.
LEMMA AsManySelected ==
    ASSUME NEW rows, DOMAIN rows \in SUBSET Nat, IsFiniteSet(DOMAIN rows),
           \A i \in DOMAIN rows : RowOK(rows[i]), NEW T \in SUBSET AttemptedTasks(rows)
    PROVE  Cardinality({Selected(rows, t) : t \in T}) = Cardinality(T)
<1> DEFINE S == {Selected(rows, t) : t \in T}
           f == [i \in S |-> rows[i].task]
<1>1. \A t \in T : Selected(rows, t) \in DOMAIN rows /\ rows[Selected(rows, t)].task = t
  <2> SUFFICES ASSUME NEW t \in T
               PROVE  Selected(rows, t) \in DOMAIN rows /\ rows[Selected(rows, t)].task = t
    OBVIOUS
  <2>1. AttemptsAt(rows, t) # {}
    BY DEF AttemptedTasks
  <2>2. Selected(rows, t) \in AttemptsAt(rows, t)
    BY <2>1, SelectedIsBest
  <2> QED BY <2>2 DEF AttemptsAt
<1>2. IsFiniteSet(S)
  <2>1. S \in SUBSET DOMAIN rows
    BY <1>1
  <2> QED BY <2>1, FS_Subset
<1>3. /\ f \in [S -> T]
      /\ \A i, j \in S : f[i] = f[j] => i = j
      /\ \A t \in T : \E i \in S : f[i] = t
  BY <1>1
<1> HIDE DEF f
<1>4. f \in Bijection(S, T)
  BY <1>3 DEF Bijection, Injection, IsInjective, Surjection
<1>5. ExistsBijection(S, T)
  BY <1>4 DEF ExistsBijection
<1> QED BY <1>2, <1>5, FS_Bijection

LEMMA PassAtNAgrees ==
    ASSUME NEW rows, DOMAIN rows \in SUBSET Nat, IsFiniteSet(DOMAIN rows),
           \A i \in DOMAIN rows : RowOK(rows[i])
    PROVE  OutcomeSummary(rows).validated_task_pass_at_n_rate =
               SelectedSummary(rows).selected_validation_rate
<1> DEFINE attempted == {i \in DOMAIN rows : Attempted(rows[i])}
           strict == {i \in attempted : StrictPass(rows[i])}
           tasks == AttemptedTasks(rows)
           atN == {t \in tasks : \E i \in AttemptsAt(rows, t) : i \in strict}
           selections == {Selected(rows, t) : t \in tasks}
           passed == {i \in selections : StrictPass(rows[i])}
<1>1. OutcomeSummary(rows).validated_task_pass_at_n_rate = Rate(atN, tasks)
  BY DEF OutcomeSummary
<1>2. SelectedSummary(rows).selected_validation_rate = Rate(passed, selections)
  BY DEF SelectedSummary
<1>3. passed = {Selected(rows, t) : t \in atN}
  <2>1. \A t \in atN : StrictPass(rows[Selected(rows, t)])
    <3> SUFFICES ASSUME NEW t \in atN PROVE StrictPass(rows[Selected(rows, t)])
      OBVIOUS
    <3>1. PICK i \in AttemptsAt(rows, t) : StrictPass(rows[i])
      OBVIOUS
    <3> QED BY <3>1, SelectedPasses
  <2>2. \A t \in tasks : StrictPass(rows[Selected(rows, t)]) => t \in atN
    <3> SUFFICES ASSUME NEW t \in tasks, StrictPass(rows[Selected(rows, t)]) PROVE t \in atN
      OBVIOUS
    <3>1. AttemptsAt(rows, t) # {}
      BY DEF AttemptedTasks
    <3>2. Selected(rows, t) \in AttemptsAt(rows, t)
      BY <3>1, SelectedIsBest
    <3>3. Selected(rows, t) \in strict
      BY <3>2 DEF AttemptsAt
    <3> QED BY <3>2, <3>3
  <2> HIDE DEF atN
  <2>3. atN \in SUBSET tasks
    BY DEF atN
  <2> QED BY <2>1, <2>2, <2>3
<1>4. atN \in SUBSET tasks
  OBVIOUS
<1> HIDE DEF atN, passed
<1>5. Cardinality(passed) = Cardinality(atN) /\ Cardinality(selections) = Cardinality(tasks)
  BY <1>3, <1>4, AsManySelected
<1> QED BY <1>1, <1>2, <1>5 DEF Rate

-----------------------------------------------------------------------------
(* The gate on one row *)

\* A summary has the fields of its three parts.
LEMMA SummaryFields ==
    ASSUME NEW rows
    PROVE  LET s == Summary(rows)
           IN  /\ s["validation_rate"] = OutcomeSummary(rows).validation_rate
               /\ s["target_alignment_rate"] = OutcomeSummary(rows).target_alignment_rate
               /\ s["acceptance_rubric_alignment_rate"] =
                      OutcomeSummary(rows).acceptance_rubric_alignment_rate
               /\ s["avg_process_quality_score"] = ProcessSummary(rows).avg_process_quality_score
               /\ s["live_provider_tasks"] = ProcessSummary(rows).live_provider_tasks
<1> DEFINE o == OutcomeSummary(rows)
           p == ProcessSummary(rows)
           q == Over(p, SelectedSummary(rows))
<1>1. Summary(rows) = Over(o, q)
  BY DEF Summary
<1>2. DOMAIN o = {"unique_task_count", "validation_rate", "validated_task_pass_at_n_rate",
                  "target_alignment_rate", "repo_instructions_manifest_rate",
                  "repo_instructions_read_first_rate", "acceptance_rubric_manifest_rate",
                  "acceptance_rubric_read_first_rate", "acceptance_rubric_alignment_rate"}
  BY DEF OutcomeSummary
<1>3. DOMAIN p = {"avg_agent_trajectory_score", "contextual_verifier_rate",
                  "avg_process_quality_score", "process_risky_validated_tasks",
                  "live_provider_tasks", "live_cost_budget_overage_tasks",
                  "attempted_cost_per_validated_task", "max_attempted_task_cost"}
  BY DEF ProcessSummary
<1>4. /\ o["validation_rate"] = o.validation_rate
      /\ o["target_alignment_rate"] = o.target_alignment_rate
      /\ o["acceptance_rubric_alignment_rate"] = o.acceptance_rubric_alignment_rate
      /\ p["avg_process_quality_score"] = p.avg_process_quality_score
      /\ p["live_provider_tasks"] = p.live_provider_tasks
  OBVIOUS
<1> HIDE DEF o, p
<1>5. \A x \in DOMAIN p : x \in DOMAIN q /\ q[x] = p[x]
  BY DEF Over
<1>6. \A x \in DOMAIN o : Over(o, q)[x] = o[x]
  BY DEF Over
<1>7. \A x \in DOMAIN p : x \notin DOMAIN o => Over(o, q)[x] = p[x]
  <2> HIDE DEF q
  <2> QED BY <1>5 DEF Over
<1> HIDE DEF q
<1>8. Summary(rows)["validation_rate"] = o["validation_rate"]
  BY <1>1, <1>2, <1>6
<1>9. Summary(rows)["target_alignment_rate"] = o["target_alignment_rate"]
  BY <1>1, <1>2, <1>6
<1>10. Summary(rows)["acceptance_rubric_alignment_rate"] = o["acceptance_rubric_alignment_rate"]
  BY <1>1, <1>2, <1>6
<1>11. Summary(rows)["avg_process_quality_score"] = p["avg_process_quality_score"]
  BY <1>1, <1>2, <1>3, <1>7
<1>12. Summary(rows)["live_provider_tasks"] = p["live_provider_tasks"]
  BY <1>1, <1>2, <1>3, <1>7
<1> QED BY <1>4, <1>8, <1>9, <1>10, <1>11, <1>12 DEF o, p

\* The criteria of a follow-up's check.
LEMMA ValidationAsks ==
    ASSUME NEW c
    PROVE  LET th == Validation(c)
           IN  /\ {"min_validation_rate", "min_live_provider_tasks", "min_process_quality_score",
                   "min_target_alignment_rate"} \subseteq DOMAIN th
               /\ th["min_validation_rate"] = 100 /\ th["min_live_provider_tasks"] = 1
               /\ th["min_process_quality_score"] = 100 /\ th["min_target_alignment_rate"] = 100
               /\ Profile(c.action) = "acceptance_rubric_verifier" =>
                     /\ "min_acceptance_rubric_alignment_rate" \in DOMAIN th
                     /\ th["min_acceptance_rubric_alignment_rate"] = 100
<1> DEFINE a == [min_validation_rate |-> 100, min_live_provider_tasks |-> 1, min_unique_tasks |-> 1,
                 max_attempted_cost_per_validated_task |-> CostCap(c),
                 max_attempted_task_cost |-> CostCap(c),
                 max_selected_cost_per_validated_task |-> CostCap(c),
                 max_selected_task_cost |-> CostCap(c),
                 min_process_quality_score |-> 100, max_process_risky_validated_tasks |-> 0,
                 min_target_alignment_rate |-> 100]
           b == [n \in (IF Profile(c.action) = "acceptance_rubric_verifier"
                        THEN VerifierThresholds ELSE {}) |-> 100]
<1>1. Validation(c) = Over(a, b)
  BY DEF Validation
<1>2. /\ DOMAIN a = {"min_validation_rate", "min_live_provider_tasks", "min_unique_tasks",
                     "max_attempted_cost_per_validated_task", "max_attempted_task_cost",
                     "max_selected_cost_per_validated_task", "max_selected_task_cost",
                     "min_process_quality_score", "max_process_risky_validated_tasks",
                     "min_target_alignment_rate"}
      /\ a["min_validation_rate"] = 100 /\ a["min_live_provider_tasks"] = 1
      /\ a["min_process_quality_score"] = 100 /\ a["min_target_alignment_rate"] = 100
  OBVIOUS
<1>3. Profile(c.action) = "acceptance_rubric_verifier" =>
         /\ "min_acceptance_rubric_alignment_rate" \in DOMAIN b
         /\ b["min_acceptance_rubric_alignment_rate"] = 100
  BY DEF VerifierThresholds
<1> HIDE DEF a, b
<1>4. DOMAIN Over(a, b) = DOMAIN a \cup DOMAIN b
  BY DEF Over
<1>5. \A x \in DOMAIN a : Over(a, b)[x] = a[x]
  BY DEF Over
<1>6. \A x \in DOMAIN b : x \notin DOMAIN a => Over(a, b)[x] = b[x]
  BY DEF Over
<1>7. Profile(c.action) = "acceptance_rubric_verifier" =>
         /\ "min_acceptance_rubric_alignment_rate" \in DOMAIN Over(a, b)
         /\ Over(a, b)["min_acceptance_rubric_alignment_rate"] = 100
  BY <1>2, <1>3, <1>4, <1>6
<1> QED BY <1>1, <1>2, <1>4, <1>5, <1>7

\* A rate over one row that is not below the whole is one of that row.
LEMMA FloorOfOne ==
    ASSUME NEW n \in DOMAIN Floors, NEW whole \in SUBSET {1}, NEW part \in SUBSET whole,
           NEW summary,
           summary[Floors[n]] = Rate(part, whole), ~Fails(n, 100, summary)
    PROVE  1 \in part
<1>1. ~Below(Rate(part, whole), 100)
  BY DEF Fails
<1>2. Cardinality({}) = 0 /\ Cardinality({1}) = 1
  BY FS_EmptySet, FS_Singleton
<1>3. (whole = {} \/ whole = {1}) /\ (part = {} \/ part = {1})
  OBVIOUS
<1>4. Rate(part, whole).sum = 100 * Cardinality(part) /\ Rate(part, whole).of = Cardinality(whole)
  BY DEF Rate
<1>5. whole # {}
  BY <1>1, <1>2, <1>4 DEF Below
<1>6. Cardinality(whole) = 1
  BY <1>2, <1>3, <1>5
<1>7. ~(100 * Cardinality(part) < 100 * 1)
  BY <1>1, <1>4, <1>6 DEF Below
<1>8. part # {}
  BY <1>2, <1>7
<1> QED BY <1>3, <1>8

\* Only a solid process has the full score.
LEMMA FullScore ==
    ASSUME NEW r
    PROVE  ProcessScore(r) \in 0..100 /\ (ProcessScore(r) >= 100 => ProcessLabel(r) = "solid")
<1> DEFINE flags == ProcessFlags(r)
           h == [flag \in flags |-> Penalty(flag)]
           words == {"missing_verification", "blind_retry", "failed_event_churn",
                     "post_verification_edit"}
<1>1. CASE ~r.run.trace
  BY <1>1 DEF ProcessScore
<1>2. CASE r.run.trace
  <2>1. flags \in SUBSET words
    BY <1>2 DEF ProcessFlags
  <2>2. \A flag \in words : Penalty(flag) \in Nat /\ Penalty(flag) >= 20
    BY DEF Penalty
  <2>3. IsFiniteSet(words)
    <3> DEFINE A == {"missing_verification"} B == A \cup {"blind_retry"}
               C == B \cup {"failed_event_churn"} D == C \cup {"post_verification_edit"}
    <3>1. IsFiniteSet(A)
      BY FS_Singleton
    <3>2. IsFiniteSet(B)
      BY <3>1, FS_AddElement
    <3>3. IsFiniteSet(C)
      BY <3>2, FS_AddElement
    <3>4. IsFiniteSet(D)
      BY <3>3, FS_AddElement
    <3>5. D = words
      OBVIOUS
    <3> QED BY <3>4, <3>5
  <2> HIDE DEF words
  <2>4. IsFiniteSet(DOMAIN h) /\ DOMAIN h = flags
    BY <2>1, <2>3, FS_Subset
  <2>5. \A x \in DOMAIN h : h[x] \in Nat /\ h[x] >= 20
    BY <2>1, <2>2
  <2>6. ProcessScore(r) = IF SumFunction(h) > 100 THEN 0 ELSE 100 - SumFunction(h)
    BY <1>2 DEF ProcessScore
  <2> HIDE DEF h
  <2>7. SumFunction(h) \in Nat /\ (flags # {} => \E x \in DOMAIN h : SumFunction(h) >= h[x])
    BY <2>4, <2>5, SumUnfolds
  <2>8. flags # {} => SumFunction(h) >= 20
    BY <2>5, <2>7
  <2>9. flags = {} => ProcessLabel(r) = "solid"
    BY <1>2 DEF ProcessLabel
  <2> QED BY <2>6, <2>7, <2>8, <2>9
<1> QED BY <1>1, <1>2

\* A check is passed by nothing less than what each of its criteria says.
LEMMA GateOfOne ==
    ASSUME NEW r, NEW c, GatePasses(<<r>>, Validation(c))
    PROVE  /\ Attempted(r) /\ StrictPass(r) /\ ProcessLabel(r) = "solid"
           /\ r.run.targets = "aligned" /\ r.run.live
           /\ Profile(c.action) = "acceptance_rubric_verifier" => RubricAligned(r)
<1> DEFINE rows == <<r>>
           s == Summary(rows)
           th == Validation(c)
           attempted == {i \in DOMAIN rows : Attempted(rows[i])}
           passed == {i \in attempted : StrictPass(rows[i])}
           alignable == {i \in attempted : rows[i].run.targets # "unavailable"}
           aligned == {i \in alignable : rows[i].run.targets = "aligned"}
           rubric == {i \in attempted : rows[i].run.rubric}
           agreed == {i \in rubric : RubricAligned(rows[i])}
           live == {i \in attempted : rows[i].run.live}
           h == [i \in attempted |-> ProcessScore(rows[i])]
<1>1. DOMAIN rows = {1} /\ rows[1] = r
  OBVIOUS
<1>2. \A n \in DOMAIN th : ~Fails(n, th[n], s)
  BY DEF GatePasses
<1>3. /\ s["validation_rate"] = Rate(passed, attempted)
      /\ s["target_alignment_rate"] = Rate(aligned, alignable)
      /\ s["acceptance_rubric_alignment_rate"] = Rate(agreed, rubric)
  <2>1. OutcomeSummary(rows).validation_rate = Rate(passed, attempted)
    BY DEF OutcomeSummary
  <2>2. OutcomeSummary(rows).target_alignment_rate = Rate(aligned, alignable)
    BY DEF OutcomeSummary
  <2>3. OutcomeSummary(rows).acceptance_rubric_alignment_rate = Rate(agreed, rubric)
    BY DEF OutcomeSummary
  <2> HIDE DEF rows, s, attempted, passed, alignable, aligned, rubric, agreed
  <2> QED BY <2>1, <2>2, <2>3, SummaryFields DEF s
<1>4. /\ s["avg_process_quality_score"] = [sum |-> SumFunction(h), of |-> Cardinality(attempted)]
      /\ s["live_provider_tasks"] = Cardinality(live)
  <2>1. ProcessSummary(rows).avg_process_quality_score =
           [sum |-> SumFunction(h), of |-> Cardinality(attempted)]
    BY DEF ProcessSummary
  <2>2. ProcessSummary(rows).live_provider_tasks = Cardinality(live)
    BY DEF ProcessSummary
  <2> HIDE DEF rows, s, attempted, live, h
  <2> QED BY <2>1, <2>2, SummaryFields DEF s
<1>5. /\ "min_validation_rate" \in DOMAIN Floors
      /\ "min_target_alignment_rate" \in DOMAIN Floors
      /\ "min_acceptance_rubric_alignment_rate" \in DOMAIN Floors
      /\ "min_process_quality_score" \in DOMAIN Floors
      /\ Floors["min_validation_rate"] = "validation_rate"
      /\ Floors["min_target_alignment_rate"] = "target_alignment_rate"
      /\ Floors["min_acceptance_rubric_alignment_rate"] = "acceptance_rubric_alignment_rate"
      /\ Floors["min_process_quality_score"] = "avg_process_quality_score"
      /\ "min_live_provider_tasks" \in DOMAIN CountFloors
      /\ CountFloors["min_live_provider_tasks"] = "live_provider_tasks"
  BY DEF Floors, CountFloors
<1>6. /\ attempted \in SUBSET {1} /\ passed \in SUBSET attempted
      /\ alignable \in SUBSET {1} /\ aligned \in SUBSET alignable
      /\ rubric \in SUBSET {1} /\ agreed \in SUBSET rubric /\ live \in SUBSET {1}
  BY <1>1
<1>7. /\ ~Fails("min_validation_rate", 100, s) /\ ~Fails("min_target_alignment_rate", 100, s)
      /\ ~Fails("min_process_quality_score", 100, s) /\ ~Fails("min_live_provider_tasks", 1, s)
      /\ Profile(c.action) = "acceptance_rubric_verifier" =>
            ~Fails("min_acceptance_rubric_alignment_rate", 100, s)
  <2> HIDE DEF s, th
  <2> QED BY <1>2, ValidationAsks DEF th
<1>8. 1 \in passed
  <2> HIDE DEF rows, s, th, attempted, passed
  <2> QED BY <1>3, <1>5, <1>6, <1>7, FloorOfOne
<1>9. 1 \in aligned
  <2> HIDE DEF rows, s, th, alignable, aligned
  <2> QED BY <1>3, <1>5, <1>6, <1>7, FloorOfOne
<1>10. Profile(c.action) = "acceptance_rubric_verifier" => 1 \in agreed
  <2> HIDE DEF rows, s, th, rubric, agreed
  <2> QED BY <1>3, <1>5, <1>6, <1>7, FloorOfOne
<1>11. attempted = {1}
  BY <1>6, <1>8
<1>12. ProcessLabel(r) = "solid"
  <2>1. DOMAIN h = {1} /\ h[1] = ProcessScore(r)
    BY <1>1, <1>11
  <2>2. ProcessScore(r) \in Nat /\ IsFiniteSet({1}) /\ Cardinality({1}) = 1
    <3>1. ProcessScore(r) \in 0..100
      BY FullScore
    <3>2. IsFiniteSet({1}) /\ Cardinality({1}) = 1
      BY FS_Singleton
    <3> QED BY <3>1, <3>2
  <2>3. SumFunction(h) = ProcessScore(r)
    <3> HIDE DEF h
    <3>1. IsFiniteSet(DOMAIN h) /\ \A x \in DOMAIN h : h[x] \in Nat
      BY <2>1, <2>2
    <3> QED BY <2>1, <3>1, SumUnfolds
  <2>4. ~Below(s["avg_process_quality_score"], 100)
    <3> HIDE DEF s
    <3> QED BY <1>5, <1>7 DEF Fails
  <2>5. ~Below([sum |-> ProcessScore(r), of |-> 1], 100)
    <3> HIDE DEF s, h, attempted
    <3> QED BY <1>4, <1>11, <2>2, <2>3, <2>4
  <2>6. ~(ProcessScore(r) < 100)
    BY <2>5 DEF Below
  <2> QED BY <2>2, <2>6, FullScore
<1>13. 1 \in live
  <2>1. ~(Cardinality(live) < 1)
    <3> HIDE DEF s, live
    <3> QED BY <1>4, <1>5, <1>7 DEF Fails
  <2>2. live # {}
    BY <2>1, FS_EmptySet
  <2> QED BY <1>6, <2>2
<1> QED BY <1>1, <1>8, <1>9, <1>10, <1>12, <1>13

-----------------------------------------------------------------------------
(* Rows *)

Runs == {Readings[repair] : repair \in Repairs \cup {NoRepair}}

Slots == Tasks \X (Nat \ {0}) \X (Nat \ {0})

AnyRow == [task : Tasks, index : Nat, count : Nat, status : {"validated", "failed", "blocked"},
           gate : {"none", "sandbox", "model", "budget"}, reproduced : BOOLEAN, cap : Nat,
           run : Runs]

LEMMA RunsAreOK == \A u \in Runs : ReadingOK(u)
<1>1. \A repair \in Repairs \cup {NoRepair} : repair \in Repair
  BY SuiteAssumption, NoRepairIsOne
<1> QED BY <1>1, ReadingIsOK DEF Runs, Readings

LEMMA AnyRowIsOK == \A r \in AnyRow : RowOK(r)
BY RunsAreOK DEF AnyRow, RowOK

LEMMA NoRunIsOne == NoRun \in Runs
BY DEF NoRun, Runs, Readings

LEMMA RowType ==
    ASSUME NEW slot \in Slots, NEW status \in {"validated", "failed", "blocked"},
           NEW gate \in {"none", "sandbox", "model", "budget"}, NEW reproduced \in BOOLEAN,
           NEW cap \in Nat, NEW u \in Runs
    PROVE  Row(slot, status, gate, reproduced, cap, u) \in AnyRow
<1>1. slot[1] \in Tasks /\ slot[2] \in Nat /\ slot[3] \in Nat
  BY DEF Slots
<1> QED BY <1>1 DEF Row, AnyRow

LEMMA BlockedType ==
    ASSUME NEW slot \in Slots, NEW gate \in {"none", "sandbox", "model", "budget"},
           NEW r \in Blocked(slot, gate)
    PROVE  r \in AnyRow /\ r.status = "blocked" /\ r.gate = gate
<1>1. PICK reproduced \in BOOLEAN : r = Row(slot, "blocked", gate, reproduced, NoCap, NoRun)
  BY DEF Blocked
<1>2. NoCap \in Nat
  BY DEF NoCap, Unknown
<1>3. r \in AnyRow
  BY <1>1, <1>2, NoRunIsOne, RowType
<1>4. r.status = "blocked" /\ r.gate = gate
  BY <1>1 DEF Row
<1> QED BY <1>3, <1>4

LEMMA LaunchedType ==
    ASSUME NEW slot \in Slots, NEW cap \in Nat, NEW repairs \in SUBSET Repairs,
           NEW r \in Launched(slot, cap, repairs)
    PROVE  /\ r \in AnyRow /\ r.gate = "none" /\ r.cap = cap
           /\ r.status = "validated" =>
                 /\ ~r.run.warning /\ r.run.cost <= cap
                 /\ \E repair \in repairs : r.run = Readings[repair]
<1>1. PICK repair \in repairs \cup {NoRepair} :
         r = Row(slot, IF Readings[repair].passes /\ Readings[repair].patched # {}
                          /\ ~Readings[repair].warning /\ Readings[repair].cost <= cap
                       THEN "validated" ELSE "failed",
                 "none", TRUE, cap, Readings[repair])
  BY DEF Launched
<1> DEFINE u == Readings[repair]
           status == IF u.passes /\ u.patched # {} /\ ~u.warning /\ u.cost <= cap
                     THEN "validated" ELSE "failed"
<1>2. u \in Runs /\ status \in {"validated", "failed", "blocked"}
  BY DEF Runs
<1> HIDE DEF status
<1>3. r = Row(slot, status, "none", TRUE, cap, u)
  BY <1>1 DEF status
<1>4. r.status = status /\ r.gate = "none" /\ r.cap = cap /\ r.run = u
  <2> HIDE DEF u
  <2> QED BY <1>3 DEF Row
<1>5. status = "validated" => u.passes /\ ~u.warning /\ u.cost <= cap
  <2> HIDE DEF u
  <2> QED BY DEF status
<1>6. status = "validated" => repair \in repairs
  <2> SUFFICES ASSUME repair = NoRepair PROVE ~u.passes
    BY <1>5
  <2>1. u = Read(NoRepair)
    BY DEF Readings
  <2> QED BY <2>1 DEF Read, NoRepair
<1>7. r \in AnyRow
  <2> HIDE DEF u
  <2> QED BY <1>2, <1>3, RowType
<1> QED BY <1>4, <1>5, <1>6, <1>7

LEMMA BatchType ==
    ASSUME NEW p \in Plans, NEW f \in BatchRows(p)
    PROVE  f \in Seq(AnyRow)
<1> DEFINE slots == p.slots
           outcomes(slot, gate) ==
               Blocked(slot, gate)
               \cup (IF gate = "none" THEN Launched(slot, p.cap, p.repairs) ELSE {})
<1>1. p.cap \in Nat /\ p.repairs \in SUBSET Repairs /\ slots \in Seq(Slots)
  BY SuiteAssumption DEF Slots
<1>2. PICK gate \in {"sandbox", "model", "budget", "none"} :
         /\ f \in [DOMAIN slots -> UNION {outcomes(slots[i], gate) : i \in DOMAIN slots}]
         /\ \A i \in DOMAIN slots : f[i] \in outcomes(slots[i], gate)
  BY DEF BatchRows
<1>3. \A i \in DOMAIN slots : f[i] \in AnyRow
  <2> SUFFICES ASSUME NEW i \in DOMAIN slots PROVE f[i] \in AnyRow
    OBVIOUS
  <2>1. slots[i] \in Slots
    BY <1>1
  <2>2. f[i] \in Blocked(slots[i], gate) \/ f[i] \in Launched(slots[i], p.cap, p.repairs)
    BY <1>2
  <2> QED BY <1>1, <1>2, <2>1, <2>2, BlockedType, LaunchedType
<1>4. DOMAIN slots = 1..Len(slots) /\ Len(slots) \in Nat
  BY <1>1
<1>5. f \in [1..Len(slots) -> AnyRow]
  BY <1>2, <1>3, <1>4
<1> QED BY <1>4, <1>5

\* Rows one after the other are rows.
LEMMA FlattenType ==
    ASSUME NEW S, NEW seqs \in Seq(Seq(S))
    PROVE  FlattenSeq(seqs) \in Seq(S)
<1> DEFINE N == Len(seqs)
           body(k, i) == IF i = 1 THEN seqs[i] ELSE k[i - 1] \o seqs[i]
           flatten == CHOOSE k : k = [i \in 1..N |-> body(k, i)]
           bad == {n \in 0..N : ~\E k \in [1..n -> Seq(S)] : \A i \in 1..n : k[i] = body(k, i)}
<1>1. N \in Nat /\ \A i \in 1..N : seqs[i] \in Seq(S)
  OBVIOUS
<1>2. FlattenSeq(seqs) = IF N = 0 THEN seqs ELSE flatten[N]
  BY DEF FlattenSeq
<1>3. bad = {}
  <2> SUFFICES ASSUME bad # {} PROVE FALSE
    OBVIOUS
  <2>0. bad \in SUBSET Nat
    OBVIOUS
  <2>1. PICK n \in bad : \A m \in bad : n <= m
    BY <2>0, LeastNumber
  <2>2. n # 0
    <3> SUFFICES ASSUME n = 0 PROVE FALSE
      OBVIOUS
    <3> DEFINE k == [i \in 1..0 |-> <<>>]
    <3>1. k \in [1..0 -> Seq(S)] /\ \A i \in 1..0 : k[i] = body(k, i)
      OBVIOUS
    <3> QED BY <3>1, <2>1
  <2>3. n \in 1..N /\ n - 1 \in 0..N /\ ~(n <= n - 1)
    BY <2>1, <2>2, <1>1
  <2>4. n - 1 \notin bad
    BY <2>1, <2>3
  <2>5. PICK k \in [1..(n - 1) -> Seq(S)] : \A i \in 1..(n - 1) : k[i] = body(k, i)
    BY <2>3, <2>4
  <2> DEFINE g == [i \in 1..n |-> body(k, i)]
  <2>6. \A i \in 1..(n - 1) : i \in 1..n /\ g[i] = k[i]
    <3>1. \A i \in 1..(n - 1) : i \in 1..n
      BY <2>3
    <3>2. \A i \in 1..n : g[i] = body(k, i)
      OBVIOUS
    <3> HIDE DEF body, g
    <3> QED BY <2>5, <3>1, <3>2
  <2>7. \A i \in 1..n : i # 1 => i - 1 \in 1..(n - 1)
    BY <2>3
  <2>8. \A i \in 1..n : g[i] = body(g, i)
    <3> SUFFICES ASSUME NEW i \in 1..n PROVE g[i] = body(g, i)
      OBVIOUS
    <3>1. g[i] = body(k, i)
      OBVIOUS
    <3>2. i # 1 => g[i - 1] = k[i - 1]
      BY <2>6, <2>7
    <3> HIDE DEF g
    <3> QED BY <3>1, <3>2
  <2>9. \A i \in 1..n : body(k, i) \in Seq(S)
    <3> SUFFICES ASSUME NEW i \in 1..n PROVE body(k, i) \in Seq(S)
      OBVIOUS
    <3>1. seqs[i] \in Seq(S)
      BY <1>1, <2>3
    <3>2. i # 1 => k[i - 1] \in Seq(S)
      BY <2>5, <2>7
    <3>3. i # 1 => k[i - 1] \o seqs[i] \in Seq(S)
      BY <3>1, <3>2
    <3> QED BY <3>1, <3>3
  <2>10. g \in [1..n -> Seq(S)]
    BY <2>9
  <2> QED BY <2>1, <2>8, <2>10
<1>4. PICK k \in [1..N -> Seq(S)] : \A i \in 1..N : k[i] = body(k, i)
  <2>1. N \in 0..N
    BY <1>1
  <2>2. N \notin bad
    <3> HIDE DEF bad
    <3> QED BY <1>3
  <2> HIDE DEF body
  <2> QED BY <2>1, <2>2
<1>5. k = [i \in 1..N |-> body(k, i)]
  BY <1>4
<1>6. flatten = [i \in 1..N |-> body(flatten, i)]
  BY <1>5
<1> HIDE DEF flatten
<1>7. \A i \in 1..N : flatten[i] = body(flatten, i)
  BY <1>6
<1>8. \A i \in 1..N : flatten[i] \in Seq(S)
  <2> DEFINE odd == {i \in 1..N : flatten[i] \notin Seq(S)}
  <2> SUFFICES ASSUME odd # {} PROVE FALSE
    OBVIOUS
  <2>0. odd \in SUBSET Nat
    OBVIOUS
  <2>1. PICK i \in odd : \A j \in odd : i <= j
    BY <2>0, LeastNumber
  <2>2. i \in 1..N /\ flatten[i] = body(flatten, i) /\ seqs[i] \in Seq(S)
    BY <2>1, <1>1, <1>7
  <2>3. i # 1
    BY <2>1, <2>2
  <2>4. i - 1 \in 1..N /\ ~(i <= i - 1)
    BY <2>2, <2>3, <1>1
  <2>5. flatten[i - 1] \in Seq(S)
    BY <2>1, <2>4
  <2>6. flatten[i - 1] \o seqs[i] \in Seq(S)
    BY <2>2, <2>5
  <2> QED BY <2>1, <2>2, <2>3, <2>6
<1>9. CASE N = 0
  BY <1>9, <1>2
<1>10. CASE N # 0
  BY <1>10, <1>1, <1>2, <1>8
<1> QED BY <1>9, <1>10

-----------------------------------------------------------------------------
(* Follow-ups *)

Actions == {"budget_contract_tightening", "cost_optimization_rerun", "quality_gate_rerun",
            "context_policy_ablation", "retry_policy_ablation", "process_quality_review",
            "runtime_failure_triage", "planning_context_repair", "validation_failure_rerun",
            "manual_triage", "verifier_contract_rerun"}

Followups == [task : Tasks, action : Actions]

LEMMA CapIsKnown == \A c : CostCap(c) \in Nat /\ CostCap(c) < Unknown
BY DEF CostCap, Unknown

LEMMA CandidateType ==
    ASSUME NEW rows \in Seq(AnyRow), NEW thresholds, NEW c \in Candidates(rows, thresholds)
    PROVE  c \in Followups
<1>1. \A r : Action(r) \in Actions
  BY DEF Action, Actions
<1>2. \A i \in DOMAIN rows : rows[i].task \in Tasks
  <2>1. \A i \in DOMAIN rows : rows[i] \in AnyRow
    OBVIOUS
  <2> QED BY <2>1 DEF AnyRow
<1>3. \/ \E i \in DOMAIN rows : c = [task |-> rows[i].task, action |-> Action(rows[i])]
      \/ \E t \in AttemptedTasks(rows) : c = [task |-> t, action |-> "verifier_contract_rerun"]
  BY Zenon DEF Candidates
<1>4. CASE \E i \in DOMAIN rows : c = [task |-> rows[i].task, action |-> Action(rows[i])]
  BY <1>1, <1>2, <1>4 DEF Followups
<1>5. CASE \E t \in AttemptedTasks(rows) : c = [task |-> t, action |-> "verifier_contract_rerun"]
  BY <1>5 DEF Followups, AttemptedTasks, Actions
<1> QED BY <1>3, <1>4, <1>5

\* What a follow-up may leave: a row that was blocked, or one that was launched
\* within the budget.
LEMMA RerunType ==
    ASSUME NEW c \in Followups, NEW r \in RerunRows(c)
    PROVE  /\ r \in AnyRow
           /\ r.gate = "budget" => OverBudget(c)
           /\ \/ r.status = "blocked"
              \/ ~OverBudget(c) /\ r \in Launched(<<c.task, 1, 1>>, CostCap(c), RerunRepairs(c))
<1> DEFINE slot == <<c.task, 1, 1>>
<1>1. slot \in Slots
  BY DEF Slots, Followups
<1>2. RerunRepairs(c) \in SUBSET Repairs /\ CostCap(c) \in Nat
  BY CapIsKnown DEF RerunRepairs
<1>3. \/ r \in Blocked(slot, "sandbox") \/ r \in Blocked(slot, "model")
      \/ OverBudget(c) /\ r \in Blocked(slot, "budget")
      \/ ~OverBudget(c) /\ r \in Blocked(slot, "none")
      \/ ~OverBudget(c) /\ r \in Launched(slot, CostCap(c), RerunRepairs(c))
  BY DEF RerunRows
<1> HIDE DEF slot
<1>4. \A gate \in {"none", "sandbox", "model", "budget"} : r \in Blocked(slot, gate) =>
         r \in AnyRow /\ r.status = "blocked" /\ r.gate = gate
  BY <1>1, BlockedType
<1>5. r \in Launched(slot, CostCap(c), RerunRepairs(c)) => r \in AnyRow /\ r.gate = "none"
  BY <1>1, <1>2, LaunchedType
<1> QED BY <1>3, <1>4, <1>5 DEF slot

\* A check that passes was earned.
LEMMA EarnedRow ==
    ASSUME NEW c \in Followups, NEW r \in RerunRows(c), GatePasses(<<r>>, Validation(c))
    PROVE  /\ StrictPass(r) /\ ProcessLabel(r) = "solid"
           /\ r.run.targets = "aligned" /\ r.run.live
           /\ r.run.cost \in Nat /\ r.run.cost <= CostCap(c) /\ r.cap = CostCap(c)
           /\ r.run.retries \in Nat /\ r.run.retries <= MaxRetries(c)
           /\ ~OverBudget(c)
           /\ Profile(c.action) = "acceptance_rubric_verifier" => RubricAligned(r)
<1>1. /\ StrictPass(r) /\ ProcessLabel(r) = "solid"
      /\ r.run.targets = "aligned" /\ r.run.live
      /\ Profile(c.action) = "acceptance_rubric_verifier" => RubricAligned(r)
  BY GateOfOne
<1>2. r.status = "validated"
  BY <1>1 DEF StrictPass
<1>3. ~OverBudget(c) /\ r \in Launched(<<c.task, 1, 1>>, CostCap(c), RerunRepairs(c))
  BY <1>2, RerunType
<1>4. <<c.task, 1, 1>> \in Slots /\ RerunRepairs(c) \in SUBSET Repairs /\ CostCap(c) \in Nat
  BY CapIsKnown DEF Slots, Followups, RerunRepairs
<1>5. /\ r.cap = CostCap(c) /\ r.run.cost <= CostCap(c)
      /\ \E repair \in RerunRepairs(c) : r.run = Readings[repair]
  BY <1>2, <1>3, <1>4, LaunchedType
<1>6. r.run.retries <= MaxRetries(c)
  BY <1>5 DEF RerunRepairs
<1>7. r.run.cost \in Nat /\ r.run.retries \in Nat
  BY RerunType, AnyRowIsOK DEF RowOK, ReadingOK
<1> QED BY <1>1, <1>3, <1>5, <1>6, <1>7

\* After a check that passed there is a retry or a cost to save, and no longer
\* where the cost has just been saved.
LEMMA AfterPassed ==
    ASSUME NEW c \in Followups, NEW r \in RerunRows(c), GatePasses(<<r>>, Validation(c)),
           NEW d \in Candidates(<<r>>, Validation(c))
    PROVE  /\ d.action \in {"cost_optimization_rerun", "retry_policy_ablation"}
           /\ c.action # "cost_optimization_rerun"
<1> DEFINE rows == <<r>>
           th == Validation(c)
<1>1. DOMAIN rows = {1} /\ rows[1] = r
  OBVIOUS
<1>2. \A u : ~LacksVerifier(u, rows, th)
  BY DEF LacksVerifier, GatePasses
<1>3. \E i \in DOMAIN rows : /\ HasReason(rows[i])
                              /\ d = [task |-> rows[i].task, action |-> Action(rows[i])]
  <2> HIDE DEF rows, th
  <2>1. d \in Candidates(rows, th)
    BY DEF rows, th
  <2> QED BY <2>1, <1>2, Zenon DEF Candidates
<1>4. HasReason(r) /\ d.action = Action(r)
  BY <1>1, <1>3
<1>5. /\ StrictPass(r) /\ ProcessLabel(r) = "solid" /\ r.run.targets = "aligned"
      /\ r.run.cost \in Nat /\ r.run.cost <= CostCap(c) /\ r.cap = CostCap(c)
      /\ r.run.retries \in Nat /\ r.run.retries <= MaxRetries(c)
      /\ CostCap(c) \in Nat /\ CostCap(c) < Unknown
  BY EarnedRow, CapIsKnown
<1>6. ~r.run.warning
  BY <1>5 DEF StrictPass
<1>7. FailureClass(r) = "validated" /\ HarnessLayer(r) = "none"
  BY <1>5 DEF FailureClass, HarnessLayer
<1>8. ~Overage(r)
  BY <1>5 DEF Overage
<1>9. ~(r.run.failures >= 3)
  <2>1. ProcessFlags(r) = {} /\ r.run.trace
    BY <1>5 DEF ProcessLabel
  <2> QED BY <2>1 DEF ProcessFlags
<1>10. r.run.retries > 0 \/ HighCost(r)
  BY <1>4, <1>5, <1>6, <1>7, <1>8, <1>9 DEF HasReason
<1>11. Action(r) \in {"cost_optimization_rerun", "retry_policy_ablation"}
  BY <1>5, <1>6, <1>7, <1>8, <1>10 DEF Action
<1>12. c.action # "cost_optimization_rerun"
  <2> SUFFICES ASSUME c.action = "cost_optimization_rerun" PROVE FALSE
    OBVIOUS
  <2>1. Critical(c)
    BY DEF Critical, Profile
  <2>2. CostCap(c) = 7 /\ MaxRetries(c) = 0
    BY <2>1 DEF CostCap, MaxRetries
  <2> QED BY <2>2, <1>5, <1>10 DEF HighCost
<1> QED BY <1>4, <1>11, <1>12

\* After a check of what its own budget blocked the contract is tightened.
LEMMA AfterBlocked ==
    ASSUME NEW r, r.status = "blocked", r.gate = "budget", NEW thresholds,
           NEW d \in Candidates(<<r>>, thresholds)
    PROVE  d.action = "budget_contract_tightening"
<1> DEFINE rows == <<r>>
<1>1. DOMAIN rows = {1} /\ rows[1] = r
  OBVIOUS
<1>2. AttemptedTasks(rows) = {}
  BY <1>1 DEF AttemptedTasks, AttemptsAt, Attempted
<1>3. \E i \in DOMAIN rows : d = [task |-> rows[i].task, action |-> Action(rows[i])]
  <2> HIDE DEF rows
  <2>1. d \in Candidates(rows, thresholds)
    BY DEF rows
  <2> QED BY <2>1, <1>2, Zenon DEF Candidates
<1>4. d.action = Action(r)
  BY <1>1, <1>3
<1>5. HarnessLayer(r) = "budget"
  BY DEF HarnessLayer, StrictPass
<1> QED BY <1>4, <1>5 DEF Action

\* A retry is over the budget of a follow-up, a tightened contract is not.
LEMMA RetryIsOverBudget ==
    ASSUME NEW c \in Followups
    PROVE  /\ c.action = "retry_policy_ablation" => OverBudget(c)
           /\ c.action = "budget_contract_tightening" => ~OverBudget(c)
<1>1. c.action = "retry_policy_ablation" => CostCap(c) = 12 /\ MaxRetries(c) = 1
  BY DEF CostCap, MaxRetries, Critical, TriesTwice, Profile
<1>2. c.action = "budget_contract_tightening" => CostCap(c) = 10 /\ MaxRetries(c) = 0
  BY DEF CostCap, MaxRetries, Critical, TriesTwice, Profile
<1> QED BY <1>1, <1>2 DEF OverBudget

-----------------------------------------------------------------------------
(* The invariant is inductive *)

\* The rows of the saved batch and of the newest suite are rows.
SuiteRows == batch \in Seq(AnyRow) /\ suite.rows \in Seq(AnyRow)

\* The newest follow-up is a suggested one, with a row that its command may leave.
LeftBehind == {x \in [command : Followups, row : AnyRow] : x.row \in RerunRows(x.command)}

RerunFollows == rerun # <<>> => \E x \in LeftBehind : rerun = <<x>>

Checked == rerun # <<>> /\ suite = CheckOf(rerun[1])

\* As long as checks pass in a row, the newest suite is the check that passed, or
\* the follow-up has been taken that it suggested: a retry, which its budget will
\* block, or a saving of cost, after which nothing is suggested.
StreakIsShort ==
    /\ streak \in 0..2
    /\ streak > 0 =>
          \/ Checked /\ GatePasses(suite.rows, suite.thresholds)
          \/ /\ streak = 1 /\ suite = NoSuite /\ rerun # <<>>
             /\ rerun[1].command.action \in {"cost_optimization_rerun", "retry_policy_ablation"}
    /\ streak = 2 => rerun[1].command.action = "cost_optimization_rerun"

\* After a block the newest suite is its check, or the contract has been tightened.
BlocksAreShort ==
    /\ blocks \in 0..1
    /\ blocks > 0 => \/ Checked /\ rerun[1].row.gate = "budget"
                     \/ suite = NoSuite /\ rerun # <<>> /\ rerun[1].row.gate # "budget"

SuiteInv == SuiteRows /\ RerunFollows /\ StreakIsShort /\ BlocksAreShort

LEMMA NothingFromNoSuite == Candidates(NoSuite.rows, NoSuite.thresholds) = {}
<1>1. DOMAIN NoSuite.rows = {}
  BY DEF NoSuite
<1>2. AttemptedTasks(NoSuite.rows) = {}
  BY <1>1 DEF AttemptedTasks, AttemptsAt
<1> QED BY <1>1, <1>2, Zenon DEF Candidates

LEMMA SuiteInitEstablishes == SuiteInit => SuiteInv
BY DEF SuiteInit, SuiteInv, SuiteRows, RerunFollows, StreakIsShort, BlocksAreShort, NoSuite

\* The rows of a directory are rows.
LEMMA DirType ==
    ASSUME SuiteRows, RerunFollows, NEW d
    PROVE  Dir(d) \in Seq(AnyRow)
<1> DEFINE left == [i \in DOMAIN rerun |-> rerun[i].row]
<1>1. left \in Seq(AnyRow)
  <2>1. CASE rerun = <<>>
    <3>1. left = <<>>
      BY <2>1
    <3> QED BY <3>1
  <2>2. CASE rerun # <<>>
    <3>1. PICK x \in LeftBehind : rerun = <<x>>
      BY <2>2 DEF RerunFollows
    <3>2. left = <<x.row>>
      BY <3>1
    <3>3. x.row \in AnyRow
      BY DEF LeftBehind
    <3> QED BY <3>2, <3>3
  <2> QED BY <2>1, <2>2
<1> QED BY <1>1 DEF Dir, SuiteRows

LEMMA AllRowsType ==
    ASSUME SuiteRows, RerunFollows, NEW dirs \in Seq({"batch", "rerun"})
    PROVE  AllRows(dirs) \in Seq(AnyRow)
<1> DEFINE seqs == [i \in DOMAIN dirs |-> Dir(dirs[i])]
<1>1. \A i \in DOMAIN dirs : Dir(dirs[i]) \in Seq(AnyRow)
  BY DirType
<1>2. DOMAIN dirs = 1..Len(dirs) /\ Len(dirs) \in Nat
  OBVIOUS
<1>3. seqs \in Seq(Seq(AnyRow))
  BY <1>1, <1>2
<1> HIDE DEF seqs
<1> QED BY <1>3, FlattenType DEF AllRows, seqs

LEMMA SaveBatchPreserves == SuiteInv /\ SaveBatch => SuiteInv'
<1> SUFFICES ASSUME SuiteInv, SaveBatch PROVE SuiteInv'
  OBVIOUS
<1>1. batch' \in Seq(AnyRow) /\ UNCHANGED <<rerun, suite, streak, blocks>>
  BY BatchType DEF SaveBatch
<1> QED BY <1>1 DEF SuiteInv, SuiteRows, RerunFollows, StreakIsShort, BlocksAreShort, Checked

LEMMA RunSuitePreserves ==
    ASSUME SuiteInv, NEW command \in Suites, RunSuite(command)
    PROVE  SuiteInv'
<1>1. /\ suite' = [rows |-> AllRows(Dirs(command)), thresholds |-> Thresholds(command)]
      /\ streak' = 0 /\ blocks' = 0 /\ batch' = batch /\ rerun' = rerun
  BY DEF RunSuite
<1>2. Dirs(command) \in Seq({"batch", "rerun"})
  BY SuiteAssumption DEF Dirs
<1>3. suite'.rows \in Seq(AnyRow)
  BY <1>1, <1>2, AllRowsType DEF SuiteInv
<1>4. SuiteRows' /\ RerunFollows'
  BY <1>1, <1>3 DEF SuiteInv, SuiteRows, RerunFollows
<1> QED BY <1>1, <1>4 DEF SuiteInv, StreakIsShort, BlocksAreShort

LEMMA FollowPreserves ==
    ASSUME SuiteInv, NEW c \in Candidates(suite.rows, suite.thresholds), Follow(c)
    PROVE  SuiteInv'
<1>1. PICK r \in RerunRows(c) : rerun' = <<[command |-> c, row |-> r]>>
  BY DEF Follow
<1>2. suite' = NoSuite /\ batch' = batch /\ streak' = streak /\ blocks' = blocks
  BY DEF Follow
<1>3. c \in Followups
  BY CandidateType DEF SuiteInv, SuiteRows
<1>4. SuiteRows'
  BY <1>2 DEF SuiteInv, SuiteRows, NoSuite
<1>5. RerunFollows'
  <2>1. r \in AnyRow
    BY <1>3, RerunType
  <2>2. [command |-> c, row |-> r] \in LeftBehind
    BY <1>3, <2>1 DEF LeftBehind
  <2> QED BY <1>1, <2>2 DEF RerunFollows
<1>6. suite # NoSuite
  BY NothingFromNoSuite
<1>7. rerun' # <<>> /\ rerun'[1].command = c /\ rerun'[1].row = r
  BY <1>1
<1>8. ASSUME Checked
      PROVE  \E x \in LeftBehind : /\ rerun[1] = x
                                  /\ suite.rows = <<x.row>>
                                  /\ suite.thresholds = Validation(x.command)
  <2>1. PICK x \in LeftBehind : rerun = <<x>>
    BY <1>8 DEF SuiteInv, RerunFollows, Checked
  <2>2. rerun[1] = x
    BY <2>1
  <2>3. suite.rows = <<x.row>> /\ suite.thresholds = Validation(x.command)
    BY <1>8, <2>2 DEF Checked, CheckOf
  <2> QED BY <2>2, <2>3
<1>9. StreakIsShort'
  <2>1. CASE streak = 0
    BY <1>2, <2>1 DEF StreakIsShort
  <2>2. CASE streak > 0
    <3>1. Checked /\ GatePasses(suite.rows, suite.thresholds) /\ streak \in 0..2
      BY <1>6, <2>2 DEF SuiteInv, StreakIsShort
    <3>2. PICK x \in LeftBehind : /\ rerun[1] = x
                                 /\ suite.rows = <<x.row>>
                                 /\ suite.thresholds = Validation(x.command)
      BY <1>8, <3>1
    <3> DEFINE e == x.command
               q == x.row
    <3>a. e \in Followups /\ q \in RerunRows(e)
      BY DEF LeftBehind
    <3>b. /\ rerun[1].command = e /\ rerun[1].row = q
          /\ suite.rows = <<q>> /\ suite.thresholds = Validation(e)
      BY <3>2
    <3> HIDE DEF e, q
    <3>3. /\ c.action \in {"cost_optimization_rerun", "retry_policy_ablation"}
          /\ e.action # "cost_optimization_rerun"
      BY <3>a, <3>b, <3>1, AfterPassed
    <3>4. streak = 1
      BY <2>2, <3>1, <3>b, <3>3 DEF SuiteInv, StreakIsShort
    <3> QED BY <1>2, <1>7, <3>3, <3>4 DEF StreakIsShort
  <2> QED BY <2>1, <2>2 DEF SuiteInv, StreakIsShort
<1>10. BlocksAreShort'
  <2>1. CASE blocks = 0
    BY <1>2, <2>1 DEF BlocksAreShort
  <2>2. CASE blocks > 0
    <3>1. Checked /\ rerun[1].row.gate = "budget" /\ blocks \in 0..1
      BY <1>6, <2>2 DEF SuiteInv, BlocksAreShort
    <3>2. PICK x \in LeftBehind : /\ rerun[1] = x
                                 /\ suite.rows = <<x.row>>
                                 /\ suite.thresholds = Validation(x.command)
      BY <1>8, <3>1
    <3> DEFINE e == x.command
               q == x.row
    <3>a. e \in Followups /\ q \in RerunRows(e)
      BY DEF LeftBehind
    <3>b. /\ rerun[1].command = e /\ rerun[1].row = q
          /\ suite.rows = <<q>> /\ suite.thresholds = Validation(e)
      BY <3>2
    <3> HIDE DEF e, q
    <3>3. q.status = "blocked"
      BY <3>a, <3>b, <3>1, RerunType
    <3>4. c.action = "budget_contract_tightening"
      BY <3>b, <3>1, <3>3, AfterBlocked
    <3>5. r.gate # "budget"
      BY <1>3, <3>4, RetryIsOverBudget, RerunType
    <3> QED BY <1>2, <1>7, <3>1, <3>5 DEF BlocksAreShort
  <2> QED BY <2>1, <2>2 DEF SuiteInv, BlocksAreShort
<1> QED BY <1>4, <1>5, <1>9, <1>10 DEF SuiteInv

LEMMA CheckPreserves == SuiteInv /\ Check => SuiteInv'
<1> SUFFICES ASSUME SuiteInv, Check PROVE SuiteInv'
  OBVIOUS
<1>1. /\ rerun # <<>> /\ suite # CheckOf(rerun[1]) /\ suite' = CheckOf(rerun[1])
      /\ streak' = IF GatePasses(CheckOf(rerun[1]).rows, CheckOf(rerun[1]).thresholds)
                   THEN streak + 1 ELSE 0
      /\ blocks' = IF rerun[1].row.gate = "budget" THEN blocks + 1 ELSE 0
      /\ batch' = batch /\ rerun' = rerun
  BY DEF Check
<1>2. PICK x \in LeftBehind : rerun = <<x>>
  BY <1>1 DEF SuiteInv, RerunFollows
<1> DEFINE c == x.command
           r == x.row
<1>a. c \in Followups /\ r \in RerunRows(c) /\ r \in AnyRow
  BY DEF LeftBehind
<1>3. rerun[1].command = c /\ rerun[1].row = r
  BY <1>2
<1> HIDE DEF c, r
<1>4. suite'.rows = <<r>> /\ suite'.thresholds = Validation(c)
  BY <1>1, <1>3 DEF CheckOf
<1>5. SuiteRows' /\ RerunFollows'
  <2> QED BY <1>a, <1>1, <1>4 DEF SuiteInv, SuiteRows, RerunFollows
<1>6. Checked' /\ ~Checked
  BY <1>1 DEF Checked
<1>7. StreakIsShort'
  <2>1. CASE ~GatePasses(<<r>>, Validation(c))
    <3>1. streak' = 0
      BY <1>1, <1>3, <2>1 DEF CheckOf
    <3> QED BY <3>1 DEF StreakIsShort
  <2>2. CASE GatePasses(<<r>>, Validation(c))
    <3>1. streak' = streak + 1 /\ GatePasses(suite'.rows, suite'.thresholds)
      BY <1>1, <1>3, <1>4, <2>2 DEF CheckOf
    <3>2. c.action # "retry_policy_ablation"
      BY <1>a, <2>2, EarnedRow, RetryIsOverBudget
    <3>3. streak = 0 \/ (streak = 1 /\ c.action = "cost_optimization_rerun")
      BY <1>3, <1>6, <3>2 DEF SuiteInv, StreakIsShort
    <3>4. GatePasses(suite.rows, suite.thresholds)'
      BY <3>1, <1>4 DEF GatePasses, Summary
    <3>5. rerun'[1].command.action = c.action
      BY <1>1, <1>3
    <3> QED BY <1>6, <3>1, <3>3, <3>4, <3>5 DEF StreakIsShort
  <2> QED BY <2>1, <2>2
<1>8. BlocksAreShort'
  <2>1. CASE r.gate # "budget"
    BY <1>1, <1>3, <2>1 DEF BlocksAreShort
  <2>2. CASE r.gate = "budget"
    <3>1. blocks = 0
      BY <1>3, <1>6, <2>2 DEF SuiteInv, BlocksAreShort
    <3>2. blocks' = 1 /\ rerun'[1].row.gate = "budget"
      BY <1>1, <1>3, <2>2, <3>1
    <3> QED BY <1>6, <3>2 DEF BlocksAreShort
  <2> QED BY <2>1, <2>2
<1> QED BY <1>5, <1>7, <1>8 DEF SuiteInv

LEMMA SuiteStutterPreserves == SuiteInv /\ UNCHANGED suiteVars => SuiteInv'
BY DEF suiteVars, SuiteInv, SuiteRows, RerunFollows, StreakIsShort, BlocksAreShort, Checked

\* The invariant holds of every batch, of any suites and of follow-ups taken one
\* after the other for ever.
THEOREM SuiteInvariance == SuiteSpec => []SuiteInv
<1>1. SuiteInv /\ [SuiteNext]_suiteVars => SuiteInv'
  BY SaveBatchPreserves, RunSuitePreserves, FollowPreserves, CheckPreserves,
     SuiteStutterPreserves DEF SuiteNext
<1> QED BY SuiteInitEstablishes, <1>1, PTL DEF SuiteSpec

-----------------------------------------------------------------------------
(* The properties *)

LEMMA RowsAgree == SuiteRows => PassAtNIsSelected
<1> SUFFICES ASSUME SuiteRows PROVE PassAtNIsSelected
  OBVIOUS
<1> DEFINE rows == suite.rows
<1>1. rows \in Seq(AnyRow)
  BY DEF SuiteRows
<1> HIDE DEF rows
<1>2. DOMAIN rows = 1..Len(rows) /\ Len(rows) \in Nat
  BY <1>1
<1>3. IsFiniteSet(DOMAIN rows) /\ DOMAIN rows \in SUBSET Nat
  <2>1. IsFiniteSet(1..Len(rows))
    BY <1>2, FS_Interval
  <2> QED BY <1>2, <2>1
<1>4. \A i \in DOMAIN rows : RowOK(rows[i])
  BY <1>1, AnyRowIsOK
<1> QED BY <1>3, <1>4, PassAtNAgrees DEF PassAtNIsSelected, rows

\* The attempt that select_attempts prefers at a task is strictly validated if any is,
\* so that the summary's two rates agree.
THEOREM PassAtN == SuiteSpec => []PassAtNIsSelected
<1>1. SuiteInv => PassAtNIsSelected
  BY RowsAgree DEF SuiteInv
<1> QED BY <1>1, SuiteInvariance, PTL

\* No follow-up passes its check (_followup_validation_command) but by an attempt that
\* was launched within its budget and meets every criterion.
THEOREM ChecksAreEarned == SuiteSpec => []CheckIsEarned
<1>1. SuiteInv => CheckIsEarned
  <2> SUFFICES ASSUME SuiteInv, rerun # <<>>, suite = CheckOf(rerun[1]),
                      GatePasses(suite.rows, suite.thresholds)
               PROVE  LET r == rerun[1].row
                          c == rerun[1].command
                      IN  /\ StrictPass(r) /\ ProcessLabel(r) = "solid"
                          /\ r.run.targets = "aligned"
                          /\ r.run.live /\ r.run.cost <= CostCap(c)
                          /\ Profile(c.action) = "acceptance_rubric_verifier" => RubricAligned(r)
    BY DEF CheckIsEarned
  <2>1. PICK x \in LeftBehind : rerun = <<x>>
    BY DEF SuiteInv, RerunFollows
  <2> DEFINE e == x.command
             q == x.row
  <2>a. e \in Followups /\ q \in RerunRows(e)
    BY DEF LeftBehind
  <2>2. rerun[1].command = e /\ rerun[1].row = q
    BY <2>1
  <2> HIDE DEF e, q
  <2>3. GatePasses(<<q>>, Validation(e))
    BY <2>2 DEF CheckOf
  <2> QED BY <2>a, <2>2, <2>3, EarnedRow
<1> QED BY <1>1, SuiteInvariance, PTL

\* Following complex_suite_followup_candidates passes at most two checks and meets at
\* most one block in a row.
THEOREM Settles == SuiteSpec => []FollowupsSettle
<1>1. SuiteInv => FollowupsSettle
  BY DEF SuiteInv, StreakIsShort, BlocksAreShort, FollowupsSettle
<1> QED BY <1>1, SuiteInvariance, PTL

-----------------------------------------------------------------------------
(* The focused-test stages *)

\* A row type is the set it is defined as, and saving a row is assigning it.
USE DEF PlanRow, RunRow, DiagnosisRow, SetupPlanRow, ReadinessRow, ExecutionRow,
        ValidationRow, VerdictRow, SavePlan, SaveRun, SaveDiagnosis, SaveSetupPlan,
        SaveReadiness, SaveExecution, SaveValidation, SaveVerdict, ExecuteOptions,
        ValidateOptions

\* A readiness row lets a planned setup go on only with a warning, and only
\* when docker has been seen to work.
ReadinessIsCareful ==
    readiness \notin Rows /\ readiness.setup = "planned" /\ readiness.status # "blocked" =>
        readiness.status = "warning" /\ readiness.smoke = "passed"

\* A validation that passed was seen to.
PassWasSeen == validation \notin Rows /\ validation.status = "passed" => exercised

\* What holds between an artifact and the one before it when both are in order.
DiagnosisFollows == diagnosis = RowOf(run, Category(run))

SetupPlanFollows == setupPlan = RowOf(diagnosis, SetupStatus(diagnosis))

ReadinessFollows ==
    readiness \notin Rows =>
        /\ readiness.setup = setupPlan
        /\ setupPlan = "manual_review" => readiness.status = "blocked"
        /\ readiness.status = "warning" => setupPlan = "planned"

ExecutionFollows ==
    /\ execution = "passed" => readiness \notin Rows /\ readiness.setup = "planned"
                                /\ installs # {}
    /\ execution = "skipped" => readiness \notin Rows /\ readiness.setup # "planned"
    /\ execution \in {"passed", "skipped"} => readiness.status # "blocked"

ValidationFollows ==
    validation \notin Rows /\ validation.status = "passed" => SetupDone

InOrder ==
    /\ ordered >= 3 => DiagnosisFollows
    /\ ordered >= 4 => SetupPlanFollows
    /\ ordered >= 5 => ReadinessFollows
    /\ ordered >= 6 => ExecutionFollows
    /\ ordered >= 7 => ValidationFollows

IInv ==
    /\ TypeOK
    /\ ReadinessIsCareful
    /\ PassWasSeen
    /\ InOrder
    /\ InstallsAreConfined
    /\ OrderedVerdict
    /\ UnblockedWasRun

-----------------------------------------------------------------------------
(* Facts about the operators *)

\* The categories and the statuses made of them.
LEMMA CategoryType ==
    ASSUME NEW r \in [status : Finished \cup {"blocked"}, log : Logs \cup {"none"}]
    PROVE  /\ Category(r) \in Severe \cup {"focused_test_passed", "nonzero_exit"}
           /\ Category(r) = "focused_test_passed" => r.status = "passed"
BY DEF Category, Severe, Finished, Logs

LEMMA SetupStatusType ==
    ASSUME NEW category
    PROVE  /\ SetupStatus(category) \in {"ready", "planned", "manual_review"}
           /\ SetupStatus(category) = "ready" => category = "focused_test_passed"
           /\ SetupStatus(category) = "planned" => category = "install_needed"
BY DEF SetupStatus

\* The status a readiness row gets.
LEMMA ReadinessStatusType ==
    ASSUME NEW status
    PROVE  /\ ReadinessStatus(status) \in {"ready", "warning", "blocked"}
           /\ status = "manual_review" => ReadinessStatus(status) = "blocked"
           /\ ReadinessStatus(status) = "warning" => status = "planned"
           /\ status = "planned" /\ ReadinessStatus(status) # "blocked" =>
                 ReadinessStatus(status) = "warning" /\ smoke = "passed"
BY DEF ReadinessStatus, NeedsInstall

\* Running stage k keeps the count of ordered stages below k, or makes it k.
LEMMA RanOrder ==
    ASSUME NEW k \in 1..8, NEW artifact, TypeOK, Ran(k, artifact)
    PROVE  /\ ordered' \in 0..8 /\ reruns' \in 0..MaxReruns
           /\ ordered' > k => FALSE
           /\ ordered' = k => ordered >= k - 1
           /\ ordered' # k => ordered' = ordered /\ ordered < k - 1
BY SetupAssumption DEF Ran, TypeOK

-----------------------------------------------------------------------------
(* The invariant is inductive *)

LEMMA InitEstablishes == Init => IInv
<1> SUFFICES ASSUME Init PROVE IInv
  OBVIOUS
<1> USE SetupAssumption DEF Init, Rows
<1>1. TypeOK
  <2>1. /\ smoke \in {"passed", "not_available"}
        /\ plan \in {NoFile, "runnable", "not_runnable"}
        /\ ordered \in 0..8 /\ reruns \in 0..MaxReruns
    OBVIOUS
  <2>a. snapshot \in BOOLEAN /\ exercised \in BOOLEAN
    BY Zenon
  <2>2. \A a \in {run, diagnosis, setupPlan, readiness, execution, validation, verdict} :
           a \in Rows
    OBVIOUS
  <2> QED BY <2>a, <2>1, <2>2, Zenon DEF TypeOK
<1>2. ReadinessIsCareful /\ PassWasSeen /\ InOrder
  BY DEF ReadinessIsCareful, PassWasSeen, InOrder
<1>3. InstallsAreConfined /\ OrderedVerdict /\ UnblockedWasRun
  BY DEF InstallsAreConfined, OrderedVerdict, UnblockedWasRun
<1> QED BY <1>1, <1>2, <1>3 DEF IInv

\* The stages before the last keep what is said of the verdict: they leave it
\* alone, and the count of the ordered ones is no longer eight.
LEMMA VerdictKept ==
    ASSUME IInv, ordered' \in 0..7, UNCHANGED verdict, exercised => exercised'
    PROVE  OrderedVerdict' /\ UnblockedWasRun'
<1>1. OrderedVerdict'
  BY DEF OrderedVerdict
<1>2. UnblockedWasRun'
  BY DEF IInv, UnblockedWasRun
<1> QED BY <1>1, <1>2

LEMMA EarlyStages ==
    ASSUME IInv, PlanFocusedTest \/ RunFocusedTest
    PROVE  IInv'
<1> USE DEF IInv
<1>1. ordered' \in 0..2 \/ FALSE
  <2>1. CASE PlanFocusedTest
    BY <2>1, RanOrder DEF PlanFocusedTest, Ran, TypeOK
  <2>2. CASE RunFocusedTest
    BY <2>2, RanOrder DEF RunFocusedTest, Ran, TypeOK
  <2> QED BY <2>1, <2>2
<1>2. /\ reruns' \in 0..MaxReruns
      /\ UNCHANGED <<snapshot, smoke, diagnosis, setupPlan, readiness, execution, validation,
                     verdict, installs, exercised>>
  BY SetupAssumption DEF PlanFocusedTest, RunFocusedTest, Ran, TypeOK
<1>3. plan' \in {NoFile, "runnable", "not_runnable"}
  BY DEF PlanFocusedTest, RunFocusedTest, TypeOK
<1>4. run' \in Rows \cup [status : Finished \cup {"blocked"}, log : Logs \cup {"none"}]
  BY DEF PlanFocusedTest, RunFocusedTest, TypeOK, Rows, Finished, Logs
<1>5. TypeOK'
  BY <1>1, <1>2, <1>3, <1>4 DEF TypeOK, Rows
<1>6. ReadinessIsCareful' /\ PassWasSeen' /\ InstallsAreConfined'
  BY <1>2 DEF ReadinessIsCareful, PassWasSeen, InstallsAreConfined, Rows
<1>7. InOrder'
  BY <1>1 DEF InOrder
<1>8. OrderedVerdict' /\ UnblockedWasRun'
  BY <1>1, <1>2, VerdictKept
<1> QED BY <1>5, <1>6, <1>7, <1>8

LEMMA DiagnoseStep ==
    ASSUME IInv, Diagnose
    PROVE  IInv'
<1> USE DEF IInv
<1>1. ordered' \in 0..3 /\ reruns' \in 0..MaxReruns
  BY RanOrder DEF Diagnose, TypeOK
<1>2. UNCHANGED <<snapshot, smoke, plan, run, setupPlan, readiness, execution, validation,
                  verdict, installs, exercised>> /\ diagnosis' = RowOf(run, Category(run))
  BY DEF Diagnose
<1>3. diagnosis' \in Rows \cup Severe \cup {"focused_test_passed", "nonzero_exit"}
  BY <1>2, CategoryType DEF Diagnose, TypeOK, RowOf, Rows
<1>4. TypeOK'
  BY <1>1, <1>2, <1>3 DEF TypeOK, Rows
<1>5. ReadinessIsCareful' /\ PassWasSeen' /\ InstallsAreConfined'
  BY <1>2 DEF ReadinessIsCareful, PassWasSeen, InstallsAreConfined, Rows
<1>6. InOrder'
  BY <1>1, <1>2 DEF InOrder, DiagnosisFollows, RowOf, Category
<1>7. OrderedVerdict' /\ UnblockedWasRun'
  BY <1>1, <1>2, VerdictKept
<1> QED BY <1>4, <1>5, <1>6, <1>7

LEMMA PlanSetupStep ==
    ASSUME IInv, PlanSetup
    PROVE  IInv'
<1> USE DEF IInv
<1>1. /\ ordered' \in 0..4 /\ reruns' \in 0..MaxReruns
      /\ ordered' >= 3 => ordered >= 3
  BY RanOrder DEF PlanSetup, TypeOK
<1>2. /\ UNCHANGED <<snapshot, smoke, plan, run, diagnosis, readiness, execution, validation,
                     verdict, installs, exercised>>
      /\ setupPlan' = RowOf(diagnosis, SetupStatus(diagnosis))
  BY DEF PlanSetup
<1>3. setupPlan' \in Rows \cup {"ready", "planned", "manual_review"}
  BY <1>2, SetupStatusType DEF RowOf, Rows
<1>4. TypeOK'
  BY <1>1, <1>2, <1>3 DEF TypeOK, Rows
<1>5. ReadinessIsCareful' /\ PassWasSeen' /\ InstallsAreConfined'
  BY <1>2 DEF ReadinessIsCareful, PassWasSeen, InstallsAreConfined, Rows
<1>6. InOrder'
  <2>1. ordered' >= 3 => DiagnosisFollows'
    BY <1>1, <1>2 DEF InOrder, DiagnosisFollows, RowOf, Category
  <2>2. SetupPlanFollows'
    BY <1>2 DEF SetupPlanFollows, RowOf, SetupStatus
  <2> QED BY <1>1, <2>1, <2>2 DEF InOrder
<1>7. OrderedVerdict' /\ UnblockedWasRun'
  BY <1>1, <1>2, VerdictKept
<1> QED BY <1>4, <1>5, <1>6, <1>7

\* The artifacts up to the setup plan and the counts that go with them.
LEMMA PlansKept ==
    ASSUME IInv, UNCHANGED <<run, diagnosis, setupPlan>>,
           ordered' >= 3 => ordered >= 3, ordered' >= 4 => ordered >= 4
    PROVE  /\ ordered' >= 3 => DiagnosisFollows'
           /\ ordered' >= 4 => SetupPlanFollows'
<1>1. ordered' >= 3 => DiagnosisFollows'
  BY DEF IInv, InOrder, DiagnosisFollows, RowOf, Category
<1>2. ordered' >= 4 => SetupPlanFollows'
  BY DEF IInv, InOrder, SetupPlanFollows, RowOf, SetupStatus
<1> QED BY <1>1, <1>2

LEMMA CheckStep ==
    ASSUME IInv, CheckSetupReadiness
    PROVE  IInv'
<1> USE DEF IInv
<1>1. /\ ordered' \in 0..5 /\ reruns' \in 0..MaxReruns
      /\ ordered' >= 3 => ordered >= 3
      /\ ordered' >= 4 => ordered >= 4
  BY RanOrder DEF CheckSetupReadiness, TypeOK
<1>2. UNCHANGED <<snapshot, smoke, plan, run, diagnosis, setupPlan, execution, validation,
                  verdict, installs, exercised>>
  BY DEF CheckSetupReadiness
<1>3. CASE setupPlan = NoRow
  <2>1. readiness' = NoRow
    BY <1>3 DEF CheckSetupReadiness, RowOf
  <2>2. TypeOK'
    BY <1>1, <1>2, <2>1 DEF TypeOK, Rows
  <2>3. ReadinessIsCareful' /\ ReadinessFollows' /\ PassWasSeen' /\ InstallsAreConfined'
    BY <1>2, <2>1 DEF ReadinessIsCareful, ReadinessFollows, PassWasSeen, InstallsAreConfined, Rows
  <2>4. InOrder'
    BY <1>1, <1>2, <2>3, PlansKept DEF InOrder
  <2>5. OrderedVerdict' /\ UnblockedWasRun'
    BY <1>1, <1>2, VerdictKept
  <2> QED BY <2>2, <2>3, <2>4, <2>5
<1>4. CASE setupPlan # NoRow
  <2>1. readiness' = [status |-> ReadinessStatus(setupPlan), setup |-> setupPlan, smoke |-> smoke]
    BY <1>4 DEF CheckSetupReadiness, RowOf
  <2>2. /\ ReadinessStatus(setupPlan) \in {"ready", "warning", "blocked"}
        /\ setupPlan = "manual_review" => ReadinessStatus(setupPlan) = "blocked"
        /\ ReadinessStatus(setupPlan) = "warning" => setupPlan = "planned"
        /\ setupPlan = "planned" /\ ReadinessStatus(setupPlan) # "blocked" =>
              ReadinessStatus(setupPlan) = "warning" /\ smoke = "passed"
    BY ReadinessStatusType
  <2>3. TypeOK'
    <3>1. setupPlan \in {"ready", "planned", "manual_review"}
      BY <1>4 DEF CheckSetupReadiness, TypeOK, Rows
    <3>2. readiness' \in [status : {"ready", "warning", "blocked"},
                          setup : {"ready", "planned", "manual_review"},
                          smoke : {"passed", "not_available"}]
      BY <2>1, <2>2, <3>1 DEF TypeOK
    <3> QED BY <1>1, <1>2, <3>2 DEF TypeOK, Rows
  <2>4. ReadinessIsCareful' /\ ReadinessFollows'
    BY <1>2, <2>1, <2>2 DEF ReadinessIsCareful, ReadinessFollows
  <2>5. PassWasSeen' /\ InstallsAreConfined'
    BY <1>2 DEF PassWasSeen, InstallsAreConfined, Rows
  <2>6. InOrder'
    BY <1>1, <1>2, <2>4, PlansKept DEF InOrder
  <2>7. OrderedVerdict' /\ UnblockedWasRun'
    BY <1>1, <1>2, VerdictKept
  <2> QED BY <2>3, <2>4, <2>5, <2>6, <2>7
<1> QED BY <1>3, <1>4

LEMMA ExecuteStep ==
    ASSUME IInv, NEW dry \in BOOLEAN, NEW accepted \in BOOLEAN, NEW mode \in Modes,
           NEW network \in Networks, NEW allow \in BOOLEAN,
           ExecuteSetup(dry, accepted, mode, network, allow)
    PROVE  IInv'
<1> USE DEF IInv
<1>1. /\ ordered' \in 0..6 /\ reruns' \in 0..MaxReruns
      /\ ordered' >= 3 => ordered >= 3
      /\ ordered' >= 4 => ordered >= 4
      /\ ordered' >= 5 => ordered >= 5
  BY RanOrder DEF ExecuteSetup, TypeOK
<1>2. UNCHANGED <<snapshot, smoke, plan, run, diagnosis, setupPlan, readiness, validation,
                  verdict, exercised>>
  BY DEF ExecuteSetup
<1>3. readiness # NoFile /\ (allow => mode = "docker")
  BY DEF ExecuteSetup
<1>4. ReadinessIsCareful' /\ PassWasSeen'
  BY <1>2 DEF ReadinessIsCareful, PassWasSeen, Rows
<1>5. OrderedVerdict' /\ UnblockedWasRun'
  BY <1>1, <1>2, VerdictKept
<1>6. ordered' >= 5 => ReadinessFollows'
  BY <1>1, <1>2 DEF InOrder, ReadinessFollows, Rows
<1>7. SUFFICES TypeOK' /\ ExecutionFollows' /\ InstallsAreConfined'
  BY <1>1, <1>2, <1>4, <1>5, <1>6, PlansKept DEF InOrder
<1> DEFINE refused == SetupRefused(dry, accepted, mode, network, allow)
<1>8. CASE execution' = NoRow /\ UNCHANGED installs
  <2>1. TypeOK'
    BY <1>1, <1>2, <1>8 DEF TypeOK, Rows
  <2>2. ExecutionFollows'
    BY <1>8, SetupAssumption DEF ExecutionFollows
  <2>3. InstallsAreConfined'
    BY <1>8 DEF InstallsAreConfined
  <2> QED BY <2>1, <2>2, <2>3
<1>9. CASE /\ readiness # NoRow
           /\ refused \/ ~NeedsInstall(readiness.setup) \/ dry
           /\ execution' = IF refused THEN "blocked"
                           ELSE IF NeedsInstall(readiness.setup) THEN "dry_run" ELSE "skipped"
           /\ UNCHANGED installs
  <2>1. TypeOK'
    BY <1>1, <1>2, <1>9 DEF TypeOK, Rows
  <2>2. ExecutionFollows'
    BY <1>2, <1>3, <1>9 DEF ExecutionFollows, NeedsInstall, SetupRefused, Rows
  <2>3. InstallsAreConfined'
    BY <1>9 DEF InstallsAreConfined
  <2> QED BY <2>1, <2>2, <2>3
<1>10. CASE /\ readiness # NoRow
            /\ ~refused /\ NeedsInstall(readiness.setup) /\ ~dry
            /\ execution' \in Finished
            /\ installs' = installs \cup {[mode |-> mode, network |-> network,
                                          smoke |-> readiness.smoke, accepted |-> accepted]}
  <2> DEFINE install == [mode |-> mode, network |-> network,
                         smoke |-> readiness.smoke, accepted |-> accepted]
  <2>1. TypeOK'
    <3>1. \A i \in installs' : i.mode \in Modes /\ i.network \in Networks
      BY <1>10 DEF TypeOK
    <3>2. execution' \in Rows \cup Finished \cup {"skipped", "dry_run", "blocked"}
      BY <1>10
    <3> QED BY <1>1, <1>2, <3>1, <3>2 DEF TypeOK, Rows
  <2>2. /\ readiness.setup = "planned" /\ readiness.status # "blocked"
        /\ mode = "docker" /\ network = "bridge"
        /\ readiness.status = "warning" => accepted
    BY <1>3, <1>10 DEF SetupRefused, NeedsInstall, Modes, Networks
  <2>3. ExecutionFollows'
    BY <1>2, <1>3, <1>10, <2>2 DEF ExecutionFollows, Finished, Rows
  <2>4. readiness.status = "warning" /\ readiness.smoke = "passed"
    BY <1>3, <1>10, <2>2 DEF ReadinessIsCareful, Rows
  <2>5. install = [mode |-> "docker", network |-> "bridge", smoke |-> "passed",
                   accepted |-> TRUE]
    BY <2>2, <2>4
  <2>6. InstallsAreConfined'
    BY <1>10, <2>5 DEF InstallsAreConfined
  <2> QED BY <2>1, <2>3, <2>6
<1> QED BY <1>8, <1>9, <1>10 DEF ExecuteSetup

LEMMA ValidateStep ==
    ASSUME IInv, NEW dry \in BOOLEAN, NEW network \in Networks, ValidateSetup(dry, network)
    PROVE  IInv'
<1> USE DEF IInv
<1>1. /\ ordered' \in 0..7 /\ reruns' \in 0..MaxReruns
      /\ ordered' >= 3 => ordered >= 3
      /\ ordered' >= 4 => ordered >= 4
      /\ ordered' >= 5 => ordered >= 5
      /\ ordered' >= 6 => ordered >= 6
  BY RanOrder DEF ValidateSetup, TypeOK
<1>2. UNCHANGED <<snapshot, smoke, plan, run, diagnosis, setupPlan, readiness, execution,
                  verdict, installs>>
  BY DEF ValidateSetup
<1>3. PICK status \in Finished \cup {"dry_run", "blocked"} :
          \/ validation' = NoRow /\ UNCHANGED exercised
          \/ /\ validation' = [status |-> status, network |-> network]
             /\ status = "passed" => SetupDone
             /\ exercised' = (exercised \/ status = "passed")
  BY DEF ValidateSetup, Finished
<1>4. exercised' \in BOOLEAN /\ (exercised => exercised')
  BY <1>3 DEF TypeOK
<1>5. TypeOK'
  <2>1. validation' \in Rows \cup [status : Finished \cup {"dry_run", "blocked"},
                                   network : Networks]
    BY <1>3 DEF Rows
  <2> QED BY <1>1, <1>2, <1>4, <2>1 DEF TypeOK, Rows
<1>6. ReadinessIsCareful' /\ InstallsAreConfined'
  BY <1>2 DEF ReadinessIsCareful, InstallsAreConfined, Rows
<1>7. PassWasSeen'
  BY <1>3, <1>4 DEF PassWasSeen, Rows
<1>8. InOrder'
  <2>1. ordered' >= 5 => ReadinessFollows'
    BY <1>1, <1>2 DEF InOrder, ReadinessFollows, Rows
  <2>2. ordered' >= 6 => ExecutionFollows'
    BY <1>1, <1>2 DEF InOrder, ExecutionFollows, Rows
  <2>3. ValidationFollows'
    BY <1>2, <1>3 DEF ValidationFollows, SetupDone, Rows
  <2> QED BY <1>1, <1>2, <2>1, <2>2, <2>3, PlansKept DEF InOrder
<1>9. OrderedVerdict' /\ UnblockedWasRun'
  BY <1>1, <1>2, <1>4, VerdictKept
<1> QED BY <1>5, <1>6, <1>7, <1>8, <1>9

\* A step that leaves every artifact and history alone but the world keeps the
\* order of the artifacts.
LEMMA OrderKept ==
    ASSUME IInv, UNCHANGED <<run, diagnosis, setupPlan, readiness, execution, validation,
                             installs, exercised>>,
           \A k \in 3..7 : ordered' >= k => ordered >= k
    PROVE  ReadinessIsCareful' /\ PassWasSeen' /\ InOrder' /\ InstallsAreConfined'
<1> USE DEF IInv
<1>1. ReadinessIsCareful' /\ PassWasSeen' /\ InstallsAreConfined'
  BY DEF ReadinessIsCareful, PassWasSeen, InstallsAreConfined, Rows
<1>2. ordered' >= 5 => ReadinessFollows'
  BY DEF InOrder, ReadinessFollows, Rows
<1>3. ordered' >= 6 => ExecutionFollows'
  BY DEF InOrder, ExecutionFollows, Rows
<1>4. ordered' >= 7 => ValidationFollows'
  BY DEF InOrder, ValidationFollows, SetupDone, Rows
<1>5. /\ ordered' >= 3 => DiagnosisFollows'
      /\ ordered' >= 4 => SetupPlanFollows'
  BY PlansKept
<1> QED BY <1>1, <1>2, <1>3, <1>4, <1>5 DEF InOrder

\* With every stage in order, an unblocked verdict means a focused test that
\* passed at once: any other diagnosis needs an install or a manual review, and
\* neither leaves a setup that is done with nothing to install.
LEMMA JudgeStep ==
    ASSUME IInv, JudgeRepair
    PROVE  IInv'
<1> USE DEF IInv
<1>1. /\ ordered' \in 0..8 /\ reruns' \in 0..MaxReruns
      /\ \A k \in 3..7 : ordered' >= k => ordered >= k
      /\ ordered' = 8 => ordered >= 7
  BY RanOrder DEF JudgeRepair, TypeOK
<1>2. UNCHANGED <<snapshot, smoke, plan, run, diagnosis, setupPlan, readiness, execution,
                  validation, installs, exercised>>
  BY DEF JudgeRepair
<1>3. run # NoFile /\ diagnosis # NoFile /\ validation # NoFile
  BY DEF JudgeRepair
<1>4. verdict' \in Rows \cup {"clean", "warning", "blocked"}
  BY DEF JudgeRepair, RowOf, Rows
<1>5. TypeOK'
  BY <1>1, <1>2, <1>4 DEF TypeOK, Rows
<1>6. ReadinessIsCareful' /\ PassWasSeen' /\ InOrder' /\ InstallsAreConfined'
  BY <1>1, <1>2, OrderKept
<1>7. verdict' \in {"clean", "warning"} => run # NoRow /\ ~Blocks
  BY SetupAssumption DEF JudgeRepair, RowOf
<1>8. ASSUME verdict' \in {"clean", "warning"}
      PROVE  validation \notin Rows /\ validation.status = "passed"
  BY <1>3, <1>7, <1>8 DEF Blocks, ValidationBlocks, Rows
<1>9. UnblockedWasRun'
  BY <1>2, <1>8 DEF UnblockedWasRun, PassWasSeen
<1>10. ASSUME ordered' = 8, verdict' \in {"clean", "warning"}
       PROVE  run.status = "passed" /\ setupPlan = "ready" /\ execution = "skipped"
  <2>1. /\ DiagnosisFollows /\ SetupPlanFollows /\ ReadinessFollows
        /\ ExecutionFollows /\ ValidationFollows
    BY <1>1, <1>10 DEF InOrder, TypeOK
  <2>2. execution \in {"passed", "skipped"} /\ readiness \notin Rows
    BY <1>8, <1>10, <2>1 DEF ValidationFollows, SetupDone, ExecutionFollows
  <2>3. diagnosis \notin Severe /\ diagnosis # NoRow /\ run # NoRow
    BY <1>7, <1>10 DEF Blocks
  <2>4. diagnosis = Category(run) /\ setupPlan = SetupStatus(diagnosis)
    BY <2>1, <2>3 DEF DiagnosisFollows, SetupPlanFollows, RowOf
  <2>5. run \in [status : Finished \cup {"blocked"}, log : Logs \cup {"none"}]
    BY <1>3, <2>3 DEF TypeOK, Rows
  <2>6. setupPlan \in {"ready", "manual_review"}
    BY <2>3, <2>4, SetupStatusType DEF Severe
  <2>7. readiness.setup = setupPlan /\ setupPlan # "manual_review"
    BY <2>1, <2>2 DEF ReadinessFollows, ExecutionFollows
  <2>8. setupPlan = "ready" /\ execution = "skipped"
    BY <2>1, <2>2, <2>6, <2>7 DEF ExecutionFollows
  <2> QED BY <2>4, <2>5, <2>8, CategoryType, SetupStatusType
<1>11. OrderedVerdict'
  BY <1>2, <1>10 DEF OrderedVerdict
<1> QED BY <1>5, <1>6, <1>9, <1>11

LEMMA WorldOrStutter ==
    ASSUME IInv, World \/ UNCHANGED vars
    PROVE  IInv'
<1> USE DEF IInv
<1>1. UNCHANGED <<plan, run, diagnosis, setupPlan, readiness, execution, validation, verdict,
                  ordered, installs, exercised>>
  BY DEF World, vars, artifacts
<1>2. /\ smoke' \in {"passed", "not_available"}
      /\ reruns' \in 0..MaxReruns
  BY SetupAssumption DEF World, vars, TypeOK
<1>a. snapshot' \in BOOLEAN
  BY Zenon DEF World, vars, TypeOK
<1>3. TypeOK'
  BY <1>1, <1>2, <1>a DEF TypeOK, Rows
<1>4. ReadinessIsCareful' /\ PassWasSeen' /\ InOrder' /\ InstallsAreConfined'
  BY <1>1, OrderKept
<1>5. OrderedVerdict' /\ UnblockedWasRun'
  BY <1>1 DEF OrderedVerdict, UnblockedWasRun
<1> QED BY <1>3, <1>4, <1>5

LEMMA StepKeeps == IInv /\ [Next]_vars => IInv'
BY EarlyStages, DiagnoseStep, PlanSetupStep, CheckStep, ExecuteStep, ValidateStep, JudgeStep,
   WorldOrStutter DEF Next

\* The launch item's claim is a matter of the artifacts' order alone.
LEMMA ClaimFollows == IInv => SetupClaimIsEarned
<1> SUFFICES ASSUME IInv, ordered >= 7, readiness # NoRow, SetupItem = "ready",
                    readiness.status = "warning"
             PROVE  installs # {}
  BY DEF SetupClaimIsEarned
<1> USE DEF IInv
<1>1. ReadinessFollows /\ ExecutionFollows /\ ValidationFollows
  BY DEF InOrder, TypeOK
<1>2. readiness \notin Rows /\ validation \notin Rows /\ validation.status = "passed"
  BY DEF SetupItem, ValidationBlocks, Rows
<1>3. readiness.setup = "planned"
  BY <1>1, <1>2 DEF ReadinessFollows
<1>4. execution \in {"passed", "skipped"}
  BY <1>1, <1>2 DEF ValidationFollows, SetupDone
<1> QED BY <1>1, <1>3, <1>4 DEF ExecutionFollows

-----------------------------------------------------------------------------
(* Theorems *)

LEMMA Invariant == Spec => []IInv
<1>1. Init => IInv
  BY InitEstablishes
<1>2. IInv /\ [Next]_vars => IInv'
  BY StepKeeps
<1> QED BY <1>1, <1>2, PTL DEF Spec

\* Every stage writes only rows of its kind, whatever it reads and however often
\* it is run again.
THEOREM TypeCorrect == Spec => []TypeOK
<1>1. IInv => TypeOK
  BY DEF IInv
<1> QED BY <1>1, Invariant, PTL

\* No install is run but in docker, with its network, after a docker smoke that
\* passed and a warning the user accepted (execute_focused_test_setup_record).
THEOREM InstallsConfined == Spec => []InstallsAreConfined
<1>1. IInv => InstallsAreConfined
  BY DEF IInv
<1> QED BY <1>1, Invariant, PTL

\* A verdict that lets a repair go ahead rests on a test command seen to pass
\* (check_public_issue_repair_readiness_record).
THEOREM VerdictWasRun == Spec => []UnblockedWasRun
<1>1. IInv => UnblockedWasRun
  BY DEF IInv
<1> QED BY <1>1, Invariant, PTL

\* With every stage in order, only a focused test that passed before any setup
\* is handed on to repair.
THEOREM VerdictInOrder == Spec => []OrderedVerdict
<1>1. IInv => OrderedVerdict
  BY DEF IInv
<1> QED BY <1>1, Invariant, PTL

\* With the stages in order, setup warnings called exercised are
\* (focused_setup_readiness_launch_item).
THEOREM ClaimEarned == Spec => []SetupClaimIsEarned
<1>1. IInv => SetupClaimIsEarned
  BY ClaimFollows
<1> QED BY <1>1, Invariant, PTL
=============================================================================
