------------------------ MODULE RetryHistory_proofs -------------------------
(***************************************************************************)
(* What holds of RetryHistory for any files, spans, retrievals and number  *)
(* of attempts.  The plan that is being edited was judged against the very *)
(* history it will be recorded in, since nothing is recorded in between;   *)
(* and preferred targets are always among the mounted files, so that the   *)
(* rules on targets never contradict the rule on mounts.                   *)
(***************************************************************************)
EXTENDS RetryHistory, FiniteSetTheorems, TLAPS

\* The plan that is edited was not refused for its target.
PlanIsFresh ==
    pc = "edit" => /\ target \in Paths /\ old \in Span
                   /\ ~(/\ target \in AttemptedPaths(history)
                        /\ GuardHash(old) \in SpanHashes(history, target))

\* A rejected target has no span.
RejectedHasNoSpan == pc = "judge" /\ outcome = "off_target" => old = NoSpan

\* Preferred targets are local to the planning of an attempt.
PreferredIsLocal == pc # "plan" => preferred = {}

IInv == TypeOK /\ PlanIsFresh /\ RejectedHasNoSpan /\ PreferredIsLocal /\ StoriesAgree

-----------------------------------------------------------------------------
(* The order of merged contexts *)

Sooner(a, b) == a[1] < b[1] \/ (a[1] = b[1] /\ a[2] < b[2])

Before(place, p) == {q \in DOMAIN place : Sooner(place[q], place[p])}

Rank(place, p) == Cardinality(Before(place, p)) + 1

\* Different keys have different places.
Places(S) == {place \in [S -> Nat \X Nat] : \A p, q \in S : place[p] = place[q] => p = q}

\* Fewer keys come before the one that comes first, and none before itself.
LEMMA RankGrows ==
    ASSUME NEW S, IsFiniteSet(S), NEW place \in Places(S)
    PROVE  /\ \A p \in S : Rank(place, p) \in 1..Cardinality(S)
           /\ \A p, q \in S : Sooner(place[p], place[q]) => Rank(place, p) < Rank(place, q)
           /\ \A p, q \in S : Rank(place, p) = Rank(place, q) => p = q
<1>1. place \in [S -> Nat \X Nat] /\ DOMAIN place = S
  BY DEF Places
<1>2. \A p \in S : place[p][1] \in Nat /\ place[p][2] \in Nat /\ place[p] = <<place[p][1], place[p][2]>>
  BY <1>1
<1>3. \A p \in S : Before(place, p) \in SUBSET (S \ {p})
  BY <1>1, <1>2 DEF Before, Sooner
<1>4. \A p \in S : IsFiniteSet(Before(place, p)) /\ Cardinality(Before(place, p)) \in Nat
                     /\ Cardinality(Before(place, p)) < Cardinality(S)
  <2> SUFFICES ASSUME NEW p \in S
               PROVE  IsFiniteSet(Before(place, p)) /\ Cardinality(Before(place, p)) \in Nat
                        /\ Cardinality(Before(place, p)) < Cardinality(S)
    OBVIOUS
  <2>1. IsFiniteSet(S \ {p}) /\ Cardinality(S \ {p}) = Cardinality(S) - 1
    BY FS_RemoveElement
  <2>2. IsFiniteSet(Before(place, p)) /\ Cardinality(Before(place, p)) <= Cardinality(S \ {p})
    BY <1>3, <2>1, FS_Subset
  <2>3. Cardinality(S) \in Nat /\ Cardinality(Before(place, p)) \in Nat
    BY <2>2, FS_CardinalityType
  <2> QED BY <2>1, <2>2, <2>3
<1>5. ASSUME NEW p \in S, NEW q \in S, Sooner(place[p], place[q])
      PROVE  Cardinality(Before(place, p)) < Cardinality(Before(place, q))
  <2>1. \A r \in S : Sooner(place[r], place[p]) => Sooner(place[r], place[q])
    BY <1>2, <1>5 DEF Sooner
  <2>2. Before(place, p) \subseteq Before(place, q)
    BY <1>1, <2>1 DEF Before
  <2>3. p \in Before(place, q) /\ p \notin Before(place, p)
    BY <1>1, <1>3, <1>5 DEF Before
  <2>4. Cardinality(Before(place, p)) <= Cardinality(Before(place, q))
           /\ (Cardinality(Before(place, q)) = Cardinality(Before(place, p)) =>
                  Before(place, q) = Before(place, p))
    BY <1>4, <2>2, FS_Subset
  <2>5. Cardinality(Before(place, q)) # Cardinality(Before(place, p))
    BY <2>3, <2>4
  <2> QED BY <1>4, <2>4, <2>5
<1>6. \A p, q \in S : p # q => Sooner(place[p], place[q]) \/ Sooner(place[q], place[p])
  <2>1. \A p, q \in S : p # q => place[p] # place[q]
    BY DEF Places
  <2> QED BY <1>2, <2>1 DEF Sooner
<1>7. Cardinality(S) \in Nat
  BY FS_CardinalityType
<1>8. \A p \in S : Rank(place, p) \in 1..Cardinality(S)
  BY <1>4, <1>7 DEF Rank
<1>9. \A p, q \in S : Sooner(place[p], place[q]) => Rank(place, p) < Rank(place, q)
  BY <1>4, <1>5 DEF Rank
<1>10. \A p, q \in S : Rank(place, p) = Rank(place, q) => p = q
  <2> SUFFICES ASSUME NEW p \in S, NEW q \in S, Rank(place, p) = Rank(place, q), p # q
               PROVE  FALSE
    OBVIOUS
  <2>1. Rank(place, p) < Rank(place, q) \/ Rank(place, q) < Rank(place, p)
    BY <1>6, <1>9
  <2>2. Rank(place, p) \in Int /\ Rank(place, q) \in Int
    BY <1>8, <1>7
  <2> QED BY <2>1, <2>2
<1> QED BY <1>8, <1>9, <1>10

\* Every rank is taken.
LEMMA EveryRankIsTaken ==
    ASSUME NEW S, IsFiniteSet(S), NEW place \in Places(S), NEW k \in 1..Cardinality(S)
    PROVE  \E p \in S : Rank(place, p) = k
<1> DEFINE n == Cardinality(S)
           rank == [p \in S |-> Rank(place, p)]
<1>1. n \in Nat
  BY FS_CardinalityType
<1>2. IsFiniteSet(1..n) /\ Cardinality(1..n) = n
  <2> HIDE DEF n
  <2>1. IsFiniteSet(1..n) /\ Cardinality(1..n) = IF 1 > n THEN 0 ELSE n - 1 + 1
    BY <1>1, FS_Interval
  <2> QED BY <1>1, <2>1
<1>3. rank \in Injection(S, 1..n)
  BY RankGrows DEF Injection, IsInjective
<1>4. rank \in Surjection(S, 1..n)
  <2> HIDE DEF n, rank
  <2>1. Cardinality(S) = Cardinality(1..n)
    BY <1>2 DEF n
  <2> QED BY <1>2, <1>3, <2>1, FS_Injection
<1>5. \A i \in 1..n : \E p \in S : rank[p] = i
  <2> HIDE DEF n, rank
  <2> QED BY <1>4 DEF Surjection
<1> QED BY <1>5

Limit == TopK + ExtraFiles

\* InOrder has the keys of the first ranks, each at its rank.
LEMMA InOrderHolds ==
    ASSUME NEW S, IsFiniteSet(S), NEW place \in Places(S)
    PROVE  /\ InOrder(place) \in Seq(S)
           /\ \A p \in S : Rank(place, p) <= Limit => p \in ToSet(InOrder(place))
<1> DEFINE size == Cardinality(S)
           len == IF size <= Limit THEN size ELSE Limit
<1>1. DOMAIN place = S
  BY DEF Places
<1>2. InOrder(place) = [k \in 1..len |-> CHOOSE p \in S : Rank(place, p) = k]
  BY <1>1 DEF InOrder, Rank, Before, Sooner, Limit
<1>3. size \in Nat /\ Limit \in Nat
  BY FS_CardinalityType, HistoryAssumption DEF Limit
<1>4. len \in Nat /\ len <= size
  <2> HIDE DEF size
  <2> QED BY <1>3
<1>5. ASSUME NEW k \in 1..len
      PROVE  (CHOOSE p \in S : Rank(place, p) = k) \in S
  <2>1. k \in 1..size
    <3> HIDE DEF size
    <3> QED BY <1>3
  <2> QED BY <2>1, EveryRankIsTaken
<1>6. InOrder(place) \in Seq(S)
  <2> HIDE DEF len
  <2> QED BY <1>2, <1>4, <1>5
<1>7. ASSUME NEW p \in S, Rank(place, p) <= Limit
      PROVE  p \in ToSet(InOrder(place))
  <2>1. Rank(place, p) \in 1..len
    <3>1. Rank(place, p) \in 1..size
      BY RankGrows
    <3> HIDE DEF size
    <3> QED BY <1>3, <1>7, <3>1
  <2>2. (CHOOSE q \in S : Rank(place, q) = Rank(place, p)) = p
    BY RankGrows
  <2>3. InOrder(place)[Rank(place, p)] = p /\ Rank(place, p) \in DOMAIN InOrder(place)
    <3> HIDE DEF len
    <3> QED BY <1>2, <2>1, <2>2
  <2> QED BY <2>3 DEF ToSet
<1> QED BY <1>6, <1>7

LEMMA LeastIndex ==
    ASSUME NEW T \in SUBSET Nat, T # {}
    PROVE  \E m \in T : \A n \in T : m <= n
<1>1. IsWellFoundedOn(OpToRel(<, Nat), Nat)
  BY NatLessThanWellFounded
<1>2. PICK m \in T : \A n \in T : ~(<<n, m>> \in OpToRel(<, Nat))
  BY <1>1, WFMin, Zenon
<1>3. \A n, k \in Nat : n < k => <<n, k>> \in OpToRel(<, Nat)
  BY DEF OpToRel
<1>4. \A n \in T : ~(n < m)
  BY <1>2, <1>3
<1> QED BY <1>4

LEMMA FirstAtHolds ==
    ASSUME NEW A, NEW s \in Seq(A), NEW p \in ToSet(s)
    PROVE  FirstAt(s, p) \in 1..Len(s) /\ s[FirstAt(s, p)] = p
<1> DEFINE T == {i \in 1..Len(s) : s[i] = p}
<1>1. T \in SUBSET Nat /\ T # {}
  BY DEF ToSet
<1>2. PICK m \in T : \A n \in T : m <= n
  BY <1>1, LeastIndex
<1>3. m \in DOMAIN s /\ s[m] = p /\ \A j \in 1..(m - 1) : s[j] # p
  <2> SUFFICES ASSUME NEW j \in 1..(m - 1) PROVE s[j] # p
    BY <1>2
  <2>1. m \in 1..Len(s) /\ Len(s) \in Nat
    BY <1>2
  <2>2. j \in 1..Len(s) /\ j < m
    BY <2>1
  <2> QED BY <1>2, <2>1, <2>2
<1> QED BY <1>3 DEF FirstAt

LEMMA FiniteToSet ==
    ASSUME NEW A, NEW s \in Seq(A)
    PROVE  IsFiniteSet(ToSet(s)) /\ ToSet(s) \subseteq A
<1>1. s \in [1..Len(s) -> ToSet(s)] /\ Len(s) \in Nat
  BY DEF ToSet
<1>2. s \in Surjection(1..Len(s), ToSet(s))
  BY <1>1 DEF Surjection, ToSet
<1>3. IsFiniteSet(1..Len(s))
  BY <1>1, FS_Interval
<1>4. IsFiniteSet(ToSet(s))
  <2> DEFINE D == 1..Len(s)
             T == ToSet(s)
  <2>1. s \in Surjection(D, T) /\ IsFiniteSet(D)
    BY <1>2, <1>3
  <2> HIDE DEF D, T
  <2>2. IsFiniteSet(T)
    BY <2>1, FS_Surjection
  <2> QED BY <2>2 DEF T
<1> QED BY <1>4 DEF ToSet

\* What a merge returns are contexts of the two lists; and the reviewed ones of the
\* first that are not discredited are among them when there is room for these.
LEMMA MergeHolds ==
    ASSUME NEW existing \in Seq(Paths), NEW refreshed \in Seq(Paths), NEW ineffective
    PROVE  /\ Merge(existing, refreshed, ineffective) \in Seq(Paths)
           /\ LET kept == (ToSet(existing) \cap Hinted) \ ineffective
              IN  Cardinality(kept) <= TopK + ExtraFiles =>
                     kept \subseteq ToSet(Merge(existing, refreshed, ineffective))
<1> DEFINE S == ToSet(existing) \cup ToSet(refreshed)
           reviewed == ToSet(existing) \cap Hinted
           anew(p) == p \in ToSet(refreshed) \ reviewed
           Place(p) == IF anew(p)
                       THEN <<Delayed(1, p, ineffective), FirstAt(refreshed, p)>>
                       ELSE <<Delayed(IF p \in reviewed THEN 0 ELSE 2, p, ineffective),
                              FirstAt(existing, p)>>
           place == [p \in S |-> Place(p)]
           kept == reviewed \ ineffective
<1>1. Merge(existing, refreshed, ineffective) = InOrder(place)
  BY DEF Merge
<1>2. IsFiniteSet(S) /\ S \subseteq Paths
  BY FiniteToSet, FS_Union
<1>3. ASSUME NEW p \in S
      PROVE  /\ Place(p)[1] \in 0..5 /\ Place(p)[2] \in Nat
             /\ Place(p) = <<Place(p)[1], Place(p)[2]>>
             /\ anew(p) <=> Place(p)[1] \in {1, 4}
             /\ anew(p) => Place(p)[2] \in 1..Len(refreshed) /\ refreshed[Place(p)[2]] = p
             /\ ~anew(p) => Place(p)[2] \in 1..Len(existing) /\ existing[Place(p)[2]] = p
             /\ Place(p)[1] = 0 <=> p \in kept
  <2>1. CASE anew(p)
    <3>1. Place(p) = <<IF p \in ineffective THEN 4 ELSE 1, FirstAt(refreshed, p)>>
      BY <2>1 DEF Delayed
    <3>2. FirstAt(refreshed, p) \in 1..Len(refreshed) /\ refreshed[FirstAt(refreshed, p)] = p
      BY <2>1, FirstAtHolds
    <3>3. p \notin kept
      BY <2>1
    <3> HIDE DEF Place, kept
    <3> QED BY <2>1, <3>1, <3>2, <3>3
  <2>2. CASE ~anew(p)
    <3>1. Place(p) = <<Delayed(IF p \in reviewed THEN 0 ELSE 2, p, ineffective), FirstAt(existing, p)>>
      BY <2>2
    <3>2. p \in ToSet(existing)
      BY <2>2
    <3>3. FirstAt(existing, p) \in 1..Len(existing) /\ existing[FirstAt(existing, p)] = p
      BY <3>2, FirstAtHolds
    <3>4. /\ Delayed(IF p \in reviewed THEN 0 ELSE 2, p, ineffective) \in {0, 2, 3, 5}
          /\ Delayed(IF p \in reviewed THEN 0 ELSE 2, p, ineffective) = 0 <=> p \in kept
      BY DEF Delayed
    <3> HIDE DEF Place, kept
    <3> QED BY <2>2, <3>1, <3>3, <3>4
  <2> QED BY <2>1, <2>2
<1> HIDE DEF Place, anew, kept
<1>4. place \in Places(S)
  <2>1. place \in [S -> Nat \X Nat]
    BY <1>3
  <2>2. ASSUME NEW p \in S, NEW q \in S, place[p] = place[q]
        PROVE  p = q
    <3>1. Place(p) = Place(q)
      BY <2>2
    <3>2. anew(p) <=> anew(q)
      BY <1>3, <3>1
    <3> QED BY <1>3, <3>1, <3>2
  <2> QED BY <2>1, <2>2 DEF Places
<1>5. InOrder(place) \in Seq(S) /\ \A p \in S : Rank(place, p) <= Limit => p \in ToSet(InOrder(place))
  <2> HIDE DEF S, place
  <2> QED BY <1>2, <1>4, InOrderHolds
<1>6. InOrder(place) \in Seq(Paths)
  <2> HIDE DEF S, place
  <2> QED BY <1>2, <1>5
<1>7. kept \subseteq S
  BY DEF kept
<1>8. ASSUME Cardinality(kept) <= Limit, NEW p \in kept
      PROVE  p \in ToSet(InOrder(place))
  <2>1. Before(place, p) \in SUBSET (kept \ {p})
    <3>1. p \in S /\ Place(p)[1] = 0
      BY <1>3, <1>7, <1>8
    <3>2. ASSUME NEW q \in S, Sooner(Place(q), Place(p))
          PROVE  q \in kept /\ q # p
      <4>1. Place(q)[1] \in 0..5 /\ Place(p)[2] \in Nat
        BY <1>3, <3>1
      <4>2. Place(q)[1] = 0 /\ Place(q)[2] < Place(p)[2]
        BY <3>1, <3>2, <4>1 DEF Sooner
      <4> QED BY <1>3, <4>1, <4>2
    <3> QED BY <3>1, <3>2 DEF Before
  <2>2. IsFiniteSet(kept) /\ IsFiniteSet(kept \ {p}) /\ Cardinality(kept \ {p}) = Cardinality(kept) - 1
    <3> HIDE DEF S
    <3> QED BY <1>2, <1>7, <1>8, FS_Subset, FS_RemoveElement
  <2>3. /\ IsFiniteSet(Before(place, p))
        /\ Cardinality(Before(place, p)) <= Cardinality(kept \ {p})
    <3> HIDE DEF place
    <3> QED BY <2>1, <2>2, FS_Subset
  <2>4. Cardinality(kept) \in Nat /\ Cardinality(Before(place, p)) \in Nat
    <3> HIDE DEF place
    <3> QED BY <2>2, <2>3, FS_CardinalityType
  <2>5. Rank(place, p) <= Limit
    <3>1. Limit \in Nat
      BY HistoryAssumption DEF Limit
    <3> HIDE DEF place
    <3> QED BY <1>8, <2>2, <2>3, <2>4, <3>1 DEF Rank
  <2> QED BY <1>5, <1>7, <1>8, <2>5
<1> QED BY <1>1, <1>6, <1>8 DEF Limit, kept

-----------------------------------------------------------------------------
(* Facts about the history *)

LEMMA MountsAreAvailable ==
    ASSUME NEW available, NEW pins, NEW strong, NEW S \in Mounts(available, pins, strong)
    PROVE  S \subseteq ToSet(available)
<1>1. CASE FileLimit(available, strong) = 0 \/ Len(available) <= FileLimit(available, strong)
  BY <1>1 DEF Mounts
<1>2. CASE ~(FileLimit(available, strong) = 0 \/ Len(available) <= FileLimit(available, strong))
  <2>1. S \in kSubset(FileLimit(available, strong), ToSet(available))
    BY <1>2 DEF Mounts
  <2> QED BY <2>1 DEF kSubset
<1> QED BY <1>1, <1>2

LEMMA AttemptedAreFiles ==
    ASSUME NEW h \in Seq(AttemptRecord)
    PROVE  AttemptedPaths(h) \subseteq Paths
<1> SUFFICES ASSUME NEW i \in DOMAIN h PROVE RecordPaths(h[i]) \subseteq Paths
  BY DEF AttemptedPaths
<1>1. h[i] \in AttemptRecord
  OBVIOUS
<1> QED BY <1>1 DEF RecordPaths, AttemptRecord

LEMMA LastOfAppend ==
    ASSUME NEW A, NEW h \in Seq(A), NEW r \in A
    PROVE  /\ Append(h, r) # <<>> /\ Last(Append(h, r)) = r
           /\ Front(Append(h, r)) = h
           /\ Append(h, r) \in Seq(A)
BY DEF Last, Front

LEMMA PriorOfAppend ==
    ASSUME NEW A, NEW h \in Seq(A), NEW r \in A, r.target # None
    PROVE  Prior(Append(h, r), r.target) = h
BY LastOfAppend DEF Prior

\* The two histories that an attempt is classified by know its target alike.
LEMMA PriorsAgree ==
    ASSUME TypeOK, NEW r \in AttemptRecord, r.target = target
    PROVE  /\ target \in AttemptedPaths(Prior(Append(history, r), target)) <=>
                 target \in AttemptedPaths(history)
           /\ target \in AttemptedPaths(Prior(WithTarget, target)) <=>
                 target \in AttemptedPaths(history)
<1>1. history \in Seq(AttemptRecord) /\ target \in Paths \cup {None}
  BY DEF TypeOK
<1>2. CASE target # None
  <2> DEFINE entry == [target |-> target, files |-> {}]
             A == AttemptRecord \cup {entry}
  <2>1. Prior(Append(history, r), target) = history
    BY <1>1, <1>2, PriorOfAppend
  <2>2. WithTarget = Append(history, entry)
    BY <1>2 DEF WithTarget
  <2>3. Prior(Append(history, entry), target) = history
    <3>1. history \in Seq(A) /\ entry \in A /\ entry.target = target
      BY <1>1
    <3> HIDE DEF A, entry
    <3>2. Prior(Append(history, entry), entry.target) = history
      BY <1>2, <3>1, PriorOfAppend
    <3> QED BY <3>1, <3>2
  <2> QED BY <2>1, <2>2, <2>3
<1>3. CASE target = None
  <2>1. None \notin Paths
    BY HistoryAssumption
  <2>2. Prior(Append(history, r), target) = Append(history, r)
    BY <1>3 DEF Prior
  <2>3. Prior(WithTarget, target) = history
    BY <1>3 DEF Prior, WithTarget
  <2>4. Append(history, r) \in Seq(AttemptRecord)
    BY <1>1
  <2>5. target \notin AttemptedPaths(history) /\ target \notin AttemptedPaths(Append(history, r))
    BY <1>1, <1>3, <2>1, <2>4, AttemptedAreFiles
  <2> QED BY <2>2, <2>3, <2>5
<1> QED BY <1>2, <1>3

LEMMA ClassHolds ==
    ASSUME NEW test, NEW partial, NEW prior
    PROVE  /\ FailureClass(test, partial, prior) \in FailureClasses
           /\ FailureClass(test, partial, prior) = "repeated_target_failure" =>
                 target \in AttemptedPaths(prior)
           /\ FailureClass(test, partial, prior) = "validation_failed" =>
                 target \notin AttemptedPaths(prior)
           /\ FailureClass(test, partial, prior) = "partial_progress" => partial
           /\ \A other : (target \in AttemptedPaths(other) <=> target \in AttemptedPaths(prior)) =>
                 FailureClass(test, partial, other) = FailureClass(test, partial, prior)
BY DEF FailureClass, FailureClasses

LEMMA LabelsHold ==
    ASSUME NEW test, NEW h
    PROVE  /\ Labels(test, h) \in SUBSET LabelNames
           /\ "same_target_retry" \in Labels(test, h) <=>
                 target # None /\ target \in AttemptedPaths(Prior(h, target))
           /\ "partial_assertion_progress" \in Labels(test, h) <=> \E i \in DOMAIN h : h[i].partial
           /\ "target_history_override" \in Labels(test, h) => outcome = "off_target"
           /\ "old_span_repair" \in Labels(test, h) => old # NoSpan
<1> DEFINE says(label, condition) == IF condition THEN {label} ELSE {}
           earlier == AttemptedPaths(Prior(h, target))
           same == target # None /\ target \in earlier
           moved == target # None /\ earlier # {} /\ target \notin earlier
           progress == \E i \in DOMAIN h : h[i].partial
           quality == QualityRetry(test)
           silent == test = "passed" /\ ~QualityRetry(test)
           missing == test = "none"
           spanned == old # NoSpan
           off == outcome = "off_target"
           unsafe == outcome = "unsafe"
<1>1. \A l : l \in Labels(test, h) <=>
         \/ l = "quality_retry" /\ quality
         \/ l = "test_failure_retry" /\ ~quality
         \/ l = "missing_validation_retry" /\ missing
         \/ l = "passing_test_retry" /\ silent
         \/ l = "same_target_retry" /\ same
         \/ l = "moved_control_point" /\ moved
         \/ l = "old_span_repair" /\ spanned
         \/ l = "target_history_override" /\ off
         \/ l = "partial_assertion_progress" /\ progress
         \/ l = "safety_gate_retry" /\ unsafe
  <2>1. Labels(test, h) =
           says("quality_retry", quality) \cup says("test_failure_retry", ~quality)
           \cup says("missing_validation_retry", missing) \cup says("passing_test_retry", silent)
           \cup says("same_target_retry", same) \cup says("moved_control_point", moved)
           \cup says("old_span_repair", spanned) \cup says("target_history_override", off)
           \cup says("partial_assertion_progress", progress) \cup says("safety_gate_retry", unsafe)
    BY Zenon DEF Labels
  <2> HIDE DEF same, moved, progress, quality, silent, missing, spanned, off, unsafe
  <2> QED BY <2>1
<1> HIDE DEF same, moved, progress, quality, silent, missing, spanned, off, unsafe
<1>2. Labels(test, h) \in SUBSET LabelNames
  BY <1>1 DEF LabelNames
<1>3. "same_target_retry" \in Labels(test, h) <=> same
  BY <1>1
<1>4. "partial_assertion_progress" \in Labels(test, h) <=> progress
  BY <1>1
<1>5. "target_history_override" \in Labels(test, h) => off
  BY <1>1
<1>6. "old_span_repair" \in Labels(test, h) => spanned
  BY <1>1
<1> QED BY <1>2, <1>3, <1>4, <1>5, <1>6 DEF same, progress, off, spanned

-----------------------------------------------------------------------------
(* The invariant is inductive *)

LEMMA InitEstablishes == Init => IInv
<1> SUFFICES ASSUME Init PROVE IInv
  OBVIOUS
<1>1. TypeOK
  BY HistoryAssumption DEF Init, TypeOK, NoAnnouncement, FailureClasses
<1>2. PlanIsFresh /\ RejectedHasNoSpan /\ PreferredIsLocal /\ StoriesAgree
  BY DEF Init, PlanIsFresh, RejectedHasNoSpan, PreferredIsLocal, StoriesAgree
<1> QED BY <1>1, <1>2 DEF IInv

LEMMA SelectStep ==
    ASSUME IInv, SelectContext
    PROVE  IInv'
<1>1. /\ pc = "select" /\ pc' \in {"judge", "plan"}
      /\ outcome' = "none" /\ target' = None /\ old' = NoSpan
      /\ announced' = NoAnnouncement
      /\ UNCHANGED <<request, history>>
  BY DEF SelectContext
<1>2. retrieved' \in Seq(Paths)
  <2>1. PICK found \in Retrievals :
           retrieved' = IF history = <<>> THEN found ELSE Merge(retrieved, found, Ineffective(history))
    BY DEF SelectContext
  <2>2. found \in Seq(Paths) /\ retrieved \in Seq(Paths)
    BY HistoryAssumption DEF IInv, TypeOK
  <2>3. Merge(retrieved, found, Ineffective(history)) \in Seq(Paths)
    BY <2>2, MergeHolds
  <2> QED BY <2>1, <2>2, <2>3
<1>3. PICK strong \in SUBSET ToSet(retrieved') :
         /\ mounted' \in Mounts(retrieved', IF request.maxFiles > 0 THEN Pinned(history) ELSE {}, strong)
         /\ SelectTargets(retrieved', strong)
  BY DEF SelectContext
<1>4. mounted' \subseteq ToSet(retrieved')
  BY <1>3, MountsAreAvailable
<1>5. ToSet(retrieved') \subseteq Paths
  BY <1>2, FiniteToSet
<1>6. preferred' \in SUBSET mounted' /\ symbols' \in SUBSET preferred'
  BY <1>3 DEF SelectTargets, Preferred, FirstPreferred
<1>7. TypeOK'
  BY <1>1, <1>2, <1>4, <1>5, <1>6 DEF IInv, TypeOK, NoAnnouncement, FailureClasses
<1>8. PlanIsFresh' /\ RejectedHasNoSpan' /\ StoriesAgree'
  BY <1>1 DEF PlanIsFresh, RejectedHasNoSpan, StoriesAgree
<1>9. PreferredIsLocal'
  <2>1. pc' = IF retrieved' = <<>> THEN "judge" ELSE "plan"
    BY DEF SelectContext
  <2>2. retrieved' = <<>> => ToSet(retrieved') = {}
    BY DEF ToSet
  <2> QED BY <1>4, <1>6, <2>1, <2>2 DEF PreferredIsLocal
<1> QED BY <1>7, <1>8, <1>9 DEF IInv

LEMMA PlanStep ==
    ASSUME IInv, NEW x \in Payload, Plan(x)
    PROVE  IInv'
<1>1. /\ outcome' = Validation(x)
      /\ target' = IF outcome' \in {"plan", "off_target"} THEN x.path ELSE None
      /\ old' = IF outcome' = "plan" THEN x.old ELSE NoSpan
      /\ pc' = IF outcome' = "plan" THEN "edit" ELSE "judge"
      /\ preferred' = {} /\ symbols' = {}
      /\ UNCHANGED <<request, history, retrieved, mounted, announced>>
  BY DEF Plan
<1>2. x.path \in Paths /\ x.old \in Span
  BY DEF Payload
<1>3. Validation(x) \in {"off_target", "refused", "plan"}
  BY DEF Validation
<1>4. TypeOK'
  BY <1>1, <1>2, <1>3 DEF IInv, TypeOK
<1>5. PlanIsFresh'
  <2> SUFFICES ASSUME pc' = "edit" PROVE PlanIsFresh'
    BY DEF PlanIsFresh
  <2>1. Validation(x) = "plan" /\ target' = x.path /\ old' = x.old
    BY <1>1
  <2>2. ~HistoryViolation(x)
    BY <2>1 DEF Validation
  <2>3. ~(/\ target' \in AttemptedPaths(history) /\ GuardHash(old') \in SpanHashes(history, target'))
    BY <2>1, <2>2 DEF HistoryViolation
  <2> QED BY <1>1, <1>2, <2>1, <2>3 DEF PlanIsFresh
<1>6. RejectedHasNoSpan' /\ PreferredIsLocal' /\ StoriesAgree'
  BY <1>1 DEF RejectedHasNoSpan, PreferredIsLocal, StoriesAgree
<1> QED BY <1>4, <1>5, <1>6 DEF IInv

LEMMA MiddleStep ==
    ASSUME IInv, NoPlan \/ Edit \/ Finish
    PROVE  IInv'
<1>1. pc' \in {"judge", "done"} /\ UNCHANGED <<request, history, retrieved, announced>>
  BY DEF NoPlan, Edit, Finish
<1>2. TypeOK'
  <2>1. CASE NoPlan
    BY <2>1 DEF IInv, TypeOK, NoPlan
  <2>2. CASE Edit
    BY <2>2 DEF IInv, TypeOK, Edit
  <2>3. CASE Finish
    BY <2>3 DEF IInv, TypeOK, PreferredIsLocal, Finish
  <2> QED BY <2>1, <2>2, <2>3
<1>3. RejectedHasNoSpan' /\ PreferredIsLocal'
  BY DEF IInv, NoPlan, Edit, Finish, RejectedHasNoSpan, PreferredIsLocal
<1>4. PlanIsFresh' /\ StoriesAgree'
  BY <1>1 DEF PlanIsFresh, StoriesAgree
<1> QED BY <1>2, <1>3, <1>4 DEF IInv

LEMMA RetryStep ==
    ASSUME IInv, Retry
    PROVE  IInv'
<1>1. PICK test \in {"none", "passed", "environment", "failed"},
           signature \in Signatures \cup {None}, partial \in BOOLEAN, touched \in Touched :
         /\ history' = Append(history, Record(test, signature, partial, touched))
         /\ announced' = [class |-> FailureClass(test, partial, Prior(history', target)),
                          labels |-> Labels(test, history')]
  BY DEF Retry
<1>2. /\ pc = "judge" /\ pc' = "select"
      /\ Len(history) + 1 < MaxAttempts
      /\ mounted' = {} /\ outcome' = "none" /\ target' = None /\ old' = NoSpan
      /\ UNCHANGED <<request, retrieved, preferred, symbols>>
  BY DEF Retry
<1> DEFINE r == Record(test, signature, partial, touched)
<1>3. /\ history \in Seq(AttemptRecord) /\ target \in Paths \cup {None}
      /\ old \in Span \cup {NoSpan} /\ mounted \in SUBSET Paths
  BY DEF IInv, TypeOK
<1>4. /\ r.target = target /\ r.partial = partial
      /\ r.class = FailureClass(test, partial, Prior(WithTarget, target))
      /\ r \in AttemptRecord
  <2>1. FailureClass(test, partial, Prior(WithTarget, target)) \in FailureClasses
    BY ClassHolds
  <2>2. touched \in SUBSET Paths
    BY HistoryAssumption
  <2> QED BY <1>3, <2>1, <2>2 DEF Record, AttemptRecord
<1> HIDE DEF r
<1>5. history' = Append(history, r)
  BY <1>1 DEF r
<1>6. /\ history' \in Seq(AttemptRecord) /\ Len(history') = Len(history) + 1
      /\ Last(history') = r /\ Front(history') = history
      /\ r = history'[Len(history')] /\ Len(history') \in DOMAIN history'
  BY <1>3, <1>4, <1>5 DEF Last, Front
<1> DEFINE known == target \in AttemptedPaths(history)
           class == FailureClass(test, partial, Prior(history', target))
           labels == Labels(test, history')
<1>7. /\ target \in AttemptedPaths(Prior(history', target)) <=> known
      /\ target \in AttemptedPaths(Prior(WithTarget, target)) <=> known
  BY <1>4, <1>5, PriorsAgree DEF IInv
<1>8. class = r.class
  BY <1>4, <1>7, ClassHolds
<1>9. known => target # None
  BY <1>3, AttemptedAreFiles, HistoryAssumption
<1>10. "same_target_retry" \in labels <=> known
  BY <1>7, <1>9, LabelsHold
<1>11. class = "repeated_target_failure" => known
  BY <1>7, ClassHolds
<1>12. class = "validation_failed" => ~known
  BY <1>7, ClassHolds
<1>13. class = "partial_progress" => "partial_assertion_progress" \in labels
  <2>1. class = "partial_progress" => partial
    BY ClassHolds
  <2>2. partial => \E i \in DOMAIN history' : history'[i].partial
    BY <1>4, <1>6
  <2> QED BY <2>1, <2>2, LabelsHold
<1>14. "target_history_override" \in labels => "old_span_repair" \notin labels
  BY <1>2, LabelsHold DEF IInv, RejectedHasNoSpan
<1>15. class \in FailureClasses /\ labels \in SUBSET LabelNames
  BY ClassHolds, LabelsHold
<1>16. announced' = [class |-> class, labels |-> labels]
  BY <1>1
<1> HIDE DEF class, labels, known
<1>17. r.target \in AttemptedPaths(history) <=> known
  BY <1>4 DEF known
<1>18. StoriesAgree'
  BY <1>6, <1>8, <1>10, <1>11, <1>12, <1>13, <1>14, <1>16, <1>17 DEF StoriesAgree
<1>19. TypeOK'
  <2>1. Len(history') < MaxAttempts
    BY <1>2, <1>6
  <2>2. preferred' \in SUBSET mounted' /\ symbols' \in SUBSET preferred'
    BY <1>2 DEF IInv, TypeOK, PreferredIsLocal
  <2> QED BY <1>2, <1>6, <1>15, <1>16, <2>1, <2>2 DEF IInv, TypeOK
<1>20. PlanIsFresh' /\ RejectedHasNoSpan' /\ PreferredIsLocal'
  BY <1>2 DEF IInv, PlanIsFresh, RejectedHasNoSpan, PreferredIsLocal
<1> QED BY <1>18, <1>19, <1>20 DEF IInv

LEMMA StepKeeps == IInv /\ [Next]_vars => IInv'
<1> SUFFICES ASSUME IInv, [Next]_vars PROVE IInv'
  OBVIOUS
<1>1. CASE UNCHANGED vars
  BY <1>1 DEF vars, IInv, TypeOK, PlanIsFresh, RejectedHasNoSpan, PreferredIsLocal, StoriesAgree
<1> QED BY <1>1, SelectStep, PlanStep, MiddleStep, RetryStep DEF Next

-----------------------------------------------------------------------------
(* Theorems *)

LEMMA Invariant == Spec => []IInv
BY InitEstablishes, StepKeeps, PTL DEF Spec

\* Preferred targets are always among the mounted files, whatever was mounted,
\* localized and refused before (select_deepagents_context), and a history never
\* has as many records as there are attempts.
THEOREM TypeCorrect == Spec => []TypeOK
<1>1. IInv => TypeOK
  BY DEF IInv
<1> QED BY <1>1, Invariant, PTL

LEMMA FreshPlanRepeatsNoBareSpan ==
    ASSUME IInv
    PROVE  BareSpanNotReused
<1> SUFFICES ASSUME NEW i \in DOMAIN history, pc = "edit", history[i].target = target,
                    ~history[i].partial, history[i].old # NoSpan, history[i].old.bare,
                    history[i].old.core = old.core
             PROVE  FALSE
  BY DEF BareSpanNotReused
<1>1. target \in Paths /\ old \in Span
  BY DEF IInv, PlanIsFresh
<1>2. history[i] \in AttemptRecord
  BY DEF IInv, TypeOK
<1>3. target \in AttemptedPaths(history)
  <2>1. target # None
    BY <1>1, HistoryAssumption
  <2> QED BY <2>1 DEF AttemptedPaths, RecordPaths
<1>4. history[i].old = GuardHash(old)
  <2>1. history[i].old = [core |-> history[i].old.core, bare |-> TRUE]
    <3>1. history[i].old \in Span
      BY <1>2 DEF AttemptRecord
    <3> QED BY <3>1 DEF Span
  <2>2. GuardHash(old) = [core |-> old.core, bare |-> TRUE]
    BY DEF GuardHash
  <2> QED BY <2>1, <2>2
<1>5. GuardHash(old) \in SpanHashes(history, target)
  BY <1>4 DEF SpanHashes
<1> QED BY <1>3, <1>5 DEF IInv, PlanIsFresh

\* No accepted plan repeats a bare span that failed at the same path, for any
\* number of attempts (_target_history_violation).
THEOREM BareSpansAreNotReused == Spec => []BareSpanNotReused
BY FreshPlanRepeatsNoBareSpan, Invariant, PTL

LEMMA FreshAnswerIsAccepted ==
    ASSUME IInv
    PROVE  NeverCornered
<1> SUFFICES ASSUME pc = "plan", mounted # {}, FreshCoreLeft
             PROVE  \E x \in Payload : Validation(x) = "plan"
  BY DEF NeverCornered
<1>1. PICK c \in Cores : \A i \in DOMAIN history : history[i].old.core # c
  BY DEF FreshCoreLeft
<1>2. mounted \subseteq Paths /\ preferred \subseteq mounted
  BY DEF IInv, TypeOK
<1>3. PICK path \in mounted : preferred = {} \/ path \in preferred
  BY <1>2
<1> DEFINE x == [path |-> path, old |-> [core |-> c, bare |-> TRUE],
                 sound |-> TRUE, focused |-> TRUE, evidence |-> TRUE]
<1>4. x \in Payload
  BY <1>2 DEF Payload, Span
<1>5. x.path = path /\ x.sound /\ x.focused /\ x.evidence /\ x.old = [core |-> c, bare |-> TRUE]
  OBVIOUS
<1> HIDE DEF x
<1>6. ~HistoryViolation(x)
  <2>1. GuardHash(x.old).core = c
    BY <1>5 DEF GuardHash
  <2>2. GuardHash(x.old) \notin SpanHashes(history, x.path)
    BY <1>1, <2>1 DEF SpanHashes
  <2> QED BY <1>5, <2>2 DEF HistoryViolation
<1>7. ~SelectionViolation(x) /\ ~SymbolViolation(x)
  BY <1>3, <1>5 DEF SelectionViolation, SymbolViolation
<1> QED BY <1>4, <1>5, <1>6, <1>7 DEF Validation

\* The rules on targets, symbols, history and mounts never contradict each other:
\* as long as some text is untried, an answer of the model is acceptable
\* (validate_deepagents_plan_result).
THEOREM NobodyIsCornered == Spec => []NeverCornered
BY FreshAnswerIsAccepted, Invariant, PTL

\* The class of a retry and its labels agree with each other, with the record of
\* the attempt and with the history before it (retry_failure_class,
\* retry_feedback_labels, feedback_attempt_record).
THEOREM StoriesAlwaysAgree == Spec => []StoriesAgree
<1>1. IInv => StoriesAgree
  BY DEF IInv
<1> QED BY <1>1, Invariant, PTL

LEMMA MergeKeepsReviewed ==
    ASSUME IInv, [Next]_vars, ~UNCHANGED vars
    PROVE  LET reviewed == (ToSet(retrieved) \cap Hinted) \ Ineffective(history)
           IN  pc = "select" /\ history # <<>> /\ Cardinality(reviewed) <= TopK + ExtraFiles =>
                  reviewed \subseteq ToSet(retrieved')
<1> SUFFICES ASSUME pc = "select", history # <<>>
             PROVE  LET reviewed == (ToSet(retrieved) \cap Hinted) \ Ineffective(history)
                    IN  Cardinality(reviewed) <= TopK + ExtraFiles =>
                           reviewed \subseteq ToSet(retrieved')
  BY Zenon
<1>1. SelectContext
  BY DEF Next, NoPlan, Edit, Retry, Finish, Plan
<1>2. PICK found \in Retrievals : retrieved' = Merge(retrieved, found, Ineffective(history))
  BY <1>1 DEF SelectContext
<1>3. found \in Seq(Paths) /\ retrieved \in Seq(Paths)
  BY HistoryAssumption DEF IInv, TypeOK
<1> QED BY <1>2, <1>3, MergeHolds

\* The merge of contexts never drops a reviewed source that is not discredited,
\* as long as there is room for these (_merge_retrieved_contexts), for retrievals
\* of any length and order.
THEOREM ReviewedSourcesSurvive == Spec => HintsSurvive
<1>1. IInv /\ [Next]_vars =>
         [LET reviewed == (ToSet(retrieved) \cap Hinted) \ Ineffective(history)
          IN  pc = "select" /\ history # <<>> /\ Cardinality(reviewed) <= TopK + ExtraFiles =>
                 reviewed \subseteq ToSet(retrieved')]_vars
  BY MergeKeepsReviewed, Zenon
<1> QED BY <1>1, Invariant, PTL DEF Spec, HintsSurvive
=============================================================================
