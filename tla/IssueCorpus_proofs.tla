------------------------- MODULE IssueCorpus_proofs -------------------------
(***************************************************************************)
(* What holds of IssueCorpus for every corpus, any number of revisions and *)
(* any reviewed specs.  A manifest describes the checkout because the row  *)
(* of its preview does; and that row does because the directory of its     *)
(* repository was last cloned into by the very clone that the issue was    *)
(* previewed in.  Both are invariants that only the corpus' being          *)
(* unambiguous keeps.                                                      *)
(***************************************************************************)
EXTENDS IssueCorpus, FiniteSetTheorems, TLAPS

\* Only what retrieval found in a clone is completed.
CompletedHasRevision ==
    preview # NoFile => \A i \in DOMAIN preview :
        preview[i].status = "completed" => preview[i].revision \in Revisions

\* A manifest is in the directory of its task.
ManifestAtHome == \A d \in Dirs : Whole(d) => d = DirOf[tasks[d].id]

\* The rows of a preview that ran to the end are those of the first issues, and
\* describe the clones.
PreviewDescribesClones ==
    chain # "broken" /\ Unambiguous(corpus) =>
        \A i \in DOMAIN preview :
            /\ i \in DOMAIN corpus /\ preview[i].id = corpus[i].id
            /\ preview[i].status = "completed" =>
                  /\ preview[i].dir = DirOf[corpus[i].repository]
                  /\ clones[preview[i].dir] = [url |-> corpus[i].url, revision |-> preview[i].revision]

\* What was materialized is there, with the revision that its clone has.
MadeIsThere ==
    chain \in {"made", "focused", "planned"} /\ Unambiguous(corpus) =>
        \A i \in DOMAIN made :
            /\ i \in DOMAIN corpus /\ made[i].id = corpus[i].id
            /\ made[i].dir = DirOf[corpus[i].id]
            /\ made[i].status = "materialized" => \E r \in Revisions :
                  /\ tasks[made[i].dir] = [id |-> corpus[i].id, repository |-> corpus[i].repository,
                                           url |-> corpus[i].url,
                                           dir |-> DirOf[corpus[i].repository], revision |-> r]
                  /\ clones[DirOf[corpus[i].repository]] = [url |-> corpus[i].url, revision |-> r]

FocusIsCurrent ==
    chain \in {"focused", "planned"} => focused = [d \in TaskDirs |-> FocusRow(d)]

\* What validation was sure of is still so.
SureIsReady ==
    \A d \in Dirs : sure[d] # "no" =>
        /\ CheckoutThere(d)
        /\ d \in DOMAIN specs /\ specs[d].command \notin Refused /\ specs[d].signals
        /\ sure[d] = "planned" =>
              /\ d \in DOMAIN plan
              /\ plan[d].status = "planned" /\ plan[d].source = "spec" /\ plan[d].dir = tasks[d].dir

IInv ==
    /\ TypeOK /\ CompletedHasRevision /\ ManifestAtHome
    /\ PreviewDescribesClones /\ MadeIsThere /\ FocusIsCurrent
    /\ OrderedPlansRun /\ SureIsReady

-----------------------------------------------------------------------------
(* First and last indexes *)

LEMMA LeastIndex ==
    ASSUME NEW T \in SUBSET Nat, T # {}
    PROVE  \E m \in T : \A n \in T : m <= n
<1>1. IsWellFoundedOn(OpToRel(<, Nat), Nat)
  BY NatLessThanWellFounded
<1>2. PICK m \in T : \A n \in T : ~(<<n, m>> \in OpToRel(<, Nat))
  BY <1>1, WFMin, Zenon
<1>3. \A n, k \in Nat : n < k => <<n, k>> \in OpToRel(<, Nat)
  BY DEF OpToRel
<1>4. \A n \in T : ~(n < m)
  BY <1>2, <1>3
<1> QED BY <1>4

LEMMA MaxHolds ==
    ASSUME NEW n \in Nat, NEW T \in SUBSET (1..n), T # {}
    PROVE  Max(T) \in T /\ \A k \in T : k <= Max(T)
<1> DEFINE D == {n - k : k \in T}
<1>1. D \in SUBSET Nat /\ D # {}
  <2>1. \A k \in T : n - k \in Nat
    OBVIOUS
  <2>2. PICK k \in T : TRUE
    OBVIOUS
  <2>3. n - k \in D
    BY <2>2
  <2>4. D \subseteq Nat
    BY <2>1
  <2> QED BY <2>3, <2>4
<1>2. PICK m \in D : \A d \in D : m <= d
  BY <1>1, LeastIndex
<1>3. PICK k \in T : m = n - k
  BY <1>2
<1>4. \A j \in T : n - k <= n - j
  BY <1>2, <1>3
<1>5. \A j \in T : j <= k
  <2> SUFFICES ASSUME NEW j \in T PROVE j <= k
    OBVIOUS
  <2>1. j \in Int /\ k \in Int /\ n - k <= n - j
    BY <1>4
  <2> QED BY <2>1
<1>6. \E x \in T : \A y \in T : x >= y
  BY <1>5
<1>7. Max(T) \in T /\ \A y \in T : Max(T) >= y
  BY <1>6 DEF Max
<1> QED BY <1>7

\* The one index that there can be is the last.
LEMMA MaxOfOne ==
    ASSUME NEW n \in Nat, NEW T \in SUBSET (1..n), NEW k \in T, \A j \in T : j = k
    PROVE  Max(T) = k
BY MaxHolds

-----------------------------------------------------------------------------
(* Previews *)

LEMMA FewOf ==
    ASSUME NEW c \in Seq(Entry), NEW few \in FirstFew(c)
    PROVE  /\ few \in Seq(Entry) /\ few # <<>> /\ Len(few) <= Len(c)
           /\ \A i \in DOMAIN few : i \in DOMAIN c /\ few[i] = c[i] /\ few[i] \in Entry
<1>1. PICK n \in 1..Len(c) : few = SubSeq(c, 1, n)
  BY DEF FirstFew
<1>2. Len(few) = n /\ \A i \in 1..n : few[i] = c[i]
  BY <1>1
<1>3. few \in Seq(Entry)
  BY <1>1
<1>4. DOMAIN few = 1..n /\ n \in 1..Len(c) /\ Len(c) \in Nat
  BY <1>2, <1>3
<1>5. few # <<>>
  BY <1>2
<1>6. \A i \in DOMAIN few : i \in DOMAIN c /\ few[i] \in Entry
  BY <1>3, <1>4
<1> QED BY <1>2, <1>3, <1>4, <1>5, <1>6

LEMMA EntryHolds ==
    ASSUME NEW e \in Entry
    PROVE  /\ e.id \in Ids /\ e.repository \in Repositories /\ e.url \in Urls
           /\ DirOf[e.id] \in Dirs /\ DirOf[e.repository] \in Dirs
BY DEF Entry, Dirs

\* A repository that an issue was previewed in was cloned for good once, by the last
\* of its clones.
LEMMA CloneHolds ==
    ASSUME NEW few \in Seq(Entry), NEW endings \in [DOMAIN few -> Endings],
           NEW i \in DOMAIN few, endings[i] = "completed"
    PROVE  LET k == CloneOf(few, endings, i)
           IN  /\ k \in Clones(few, endings)
               /\ few[k].repository = few[i].repository /\ endings[k] \notin CloneFails
               /\ \A j \in Clones(few, endings) : few[j].repository = few[i].repository => j <= k
<1> DEFINE good == {j \in 1..Len(few) : few[j].repository = few[i].repository
                                          /\ endings[j] \notin CloneFails}
<1>1. DOMAIN few = 1..Len(few) /\ Len(few) \in Nat
  OBVIOUS
<1>2. i \in good
  BY <1>1 DEF CloneFails
<1>3. good \in SUBSET Nat
  BY <1>1
<1>4. PICK m \in good : \A j \in good : m <= j
  BY <1>2, <1>3, LeastIndex
<1>5. m \in Clones(few, endings)
  <2> SUFFICES ASSUME NEW j \in 1..(m - 1), few[j].repository = few[i].repository,
                      endings[j] \notin CloneFails
               PROVE  FALSE
    BY <1>1, <1>4 DEF Clones
  <2>1. m \in 1..Len(few) /\ j \in 1..Len(few) /\ j < m
    BY <1>1, <1>4
  <2>2. j \in good
    BY <2>1
  <2> QED BY <1>4, <2>1, <2>2
<1>6. ASSUME NEW j \in Clones(few, endings), few[j].repository = few[i].repository
      PROVE  j <= m
  <2> SUFFICES ASSUME m < j PROVE FALSE
    BY <1>1, <1>4 DEF Clones
  <2>1. j \in 1..Len(few) /\ m \in 1..Len(few)
    BY <1>1, <1>4 DEF Clones
  <2>2. m \in 1..(j - 1)
    BY <1>1, <2>1
  <2>3. few[m].repository = few[j].repository
    BY <1>4, <1>6
  <2>4. endings[m] \in CloneFails
    BY <2>2, <2>3 DEF Clones
  <2> QED BY <1>4, <2>4
<1>7. CloneOf(few, endings, i) \in Clones(few, endings)
         /\ few[CloneOf(few, endings, i)].repository = few[i].repository
         /\ endings[CloneOf(few, endings, i)] \notin CloneFails
  <2>1. \E k \in Clones(few, endings) :
           few[k].repository = few[i].repository /\ endings[k] \notin CloneFails
    BY <1>4, <1>5
  <2> QED BY <2>1 DEF CloneOf
<1>8. CloneOf(few, endings, i) = m
  <2>1. CloneOf(few, endings, i) \in good
    BY <1>1, <1>7 DEF Clones
  <2>2. CloneOf(few, endings, i) <= m /\ m <= CloneOf(few, endings, i)
    BY <1>4, <1>6, <1>7, <2>1
  <2> QED BY <1>3, <2>1, <2>2
<1> QED BY <1>6, <1>7, <1>8

LEMMA PreviewIssueType ==
    ASSUME TypeOK, NEW few \in Seq(Entry), NEW endings \in [DOMAIN few -> Endings],
           NEW i \in DOMAIN few
    PROVE  /\ PreviewIssue(few, endings, i) \in PreviewRow
           /\ PreviewIssue(few, endings, i).id = few[i].id
           /\ PreviewIssue(few, endings, i).dir = DirOf[few[i].repository]
           /\ PreviewIssue(few, endings, i).status = "completed" =>
                 /\ endings[i] = "completed"
                 /\ PreviewIssue(few, endings, i).revision = heads[few[CloneOf(few, endings, i)].url]
                 /\ PreviewIssue(few, endings, i).revision \in Revisions
<1>1. few[i] \in Entry
  OBVIOUS
<1>2. few[i].id \in Ids /\ few[i].repository \in Repositories /\ DirOf[few[i].repository] \in Dirs
  BY <1>1, EntryHolds
<1>3. ASSUME endings[i] = "completed"
      PROVE  heads[few[CloneOf(few, endings, i)].url] \in Revisions
  <2>1. CloneOf(few, endings, i) \in DOMAIN few
    BY <1>3, CloneHolds DEF Clones
  <2>2. few[CloneOf(few, endings, i)] \in Entry
    BY <2>1
  <2> QED BY <2>2, EntryHolds DEF TypeOK
<1>4. CASE endings[i] = "completed"
  BY <1>2, <1>3, <1>4 DEF PreviewIssue, PreviewRow
<1>5. CASE endings[i] # "completed"
  BY <1>2, <1>5 DEF PreviewIssue, PreviewRow
<1> QED BY <1>4, <1>5

\* What is in every directory after a preview.
LEMMA ClonedType ==
    ASSUME TypeOK, NEW few \in Seq(Entry), NEW endings \in [DOMAIN few -> Endings]
    PROVE  Cloned(few, endings) \in [Dirs -> Clone \cup {NoFile}]
<1> SUFFICES ASSUME NEW d \in Dirs
             PROVE  Cloned(few, endings)[d] \in Clone \cup {NoFile}
  BY DEF Cloned
<1> DEFINE into == {i \in Clones(few, endings) : DirOf[few[i].repository] = d}
           k == Max(into)
<1>1. into \in SUBSET (1..Len(few)) /\ Len(few) \in Nat
  BY DEF Clones
<1>2. CASE into = {}
  BY <1>2 DEF Cloned, TypeOK
<1>3. CASE into # {}
  <2>1. k \in into
    BY <1>1, <1>3, MaxHolds
  <2>2. Cloned(few, endings)[d] =
           IF endings[k] = "gone" THEN NoFile
           ELSE [url |-> few[k].url,
                 revision |-> IF endings[k] = "cut" THEN 0 ELSE heads[few[k].url]]
    BY <1>3 DEF Cloned
  <2>3. few[k] \in Entry
    BY <1>1, <2>1
  <2> HIDE DEF k
  <2>4. few[k].url \in Urls /\ heads[few[k].url] \in Revisions
    BY <2>3, EntryHolds DEF TypeOK
  <2> QED BY <2>2, <2>4 DEF Clone
<1> QED BY <1>2, <1>3

\* The directory that a completed row names holds the clone that the row is of.
LEMMA ClonedHolds ==
    ASSUME TypeOK, NEW few \in Seq(Entry), NEW endings \in [DOMAIN few -> Endings],
           \A i, j \in DOMAIN few : DirOf[few[i].repository] = DirOf[few[j].repository] =>
              few[i].repository = few[j].repository /\ few[i].url = few[j].url,
           NEW i \in DOMAIN few, endings[i] = "completed"
    PROVE  Cloned(few, endings)[DirOf[few[i].repository]] =
              [url |-> few[i].url, revision |-> PreviewIssue(few, endings, i).revision]
<1> DEFINE d == DirOf[few[i].repository]
           k == CloneOf(few, endings, i)
           into == {j \in Clones(few, endings) : DirOf[few[j].repository] = d}
<1>1. into \in SUBSET (1..Len(few)) /\ Len(few) \in Nat
  BY DEF Clones
<1>2. /\ k \in Clones(few, endings)
      /\ few[k].repository = few[i].repository /\ endings[k] \notin CloneFails
      /\ \A j \in Clones(few, endings) : few[j].repository = few[i].repository => j <= k
  BY CloneHolds
<1> HIDE DEF k
<1>3. k \in into
  BY <1>2
<1>4. \A j \in into : few[j].repository = few[i].repository
  BY DEF Clones
<1>5. \A j \in into : j <= k
  BY <1>2, <1>4
<1>6. Max(into) = k
  <2>1. Max(into) \in into /\ k <= Max(into)
    BY <1>1, <1>3, MaxHolds
  <2>2. Max(into) <= k
    BY <1>5, <2>1
  <2> HIDE DEF into
  <2>3. Max(into) \in Int /\ k \in Int
    BY <1>1, <1>3, <2>1
  <2> QED BY <2>1, <2>2, <2>3
<1>7. d \in Dirs
  <2> few[i] \in Entry
    OBVIOUS
  <2> QED BY EntryHolds
<1>8. Cloned(few, endings)[d] =
         IF endings[k] = "gone" THEN NoFile
         ELSE [url |-> few[k].url, revision |-> IF endings[k] = "cut" THEN 0 ELSE heads[few[k].url]]
  BY <1>3, <1>6, <1>7 DEF Cloned
<1>9. few[k].url = few[i].url
  <2> k \in DOMAIN few
    BY <1>2 DEF Clones
  <2> QED BY <1>2
<1>10. Cloned(few, endings)[d] = [url |-> few[i].url, revision |-> heads[few[k].url]]
  BY <1>2, <1>8, <1>9 DEF CloneFails
<1>11. PreviewIssue(few, endings, i).revision = heads[few[k].url]
  BY DEF PreviewIssue, k
<1> QED BY <1>10, <1>11

-----------------------------------------------------------------------------
(* Materialized tasks *)

LEMMA PreviewOfHolds ==
    ASSUME TypeOK, preview # NoFile, NEW id, Materializes(id)
    PROVE  \E k \in DOMAIN preview :
              /\ PreviewOf(id) = preview[k] /\ preview[k].id = id
              /\ preview[k].status = "completed"
              /\ preview[k] \in PreviewRow
<1> DEFINE rows == {i \in DOMAIN preview : preview[i].id = id}
<1>1. preview \in Seq(PreviewRow)
  BY DEF TypeOK
<1>2. rows \in SUBSET (1..Len(preview)) /\ Len(preview) \in Nat
  BY <1>1
<1>3. rows # {}
  BY DEF Materializes, PreviewOf
<1>4. Max(rows) \in rows
  BY <1>2, <1>3, MaxHolds
<1>5. PreviewOf(id) = preview[Max(rows)]
  BY <1>3 DEF PreviewOf
<1>6. PreviewOf(id).status = "completed"
  BY DEF Materializes
<1> DEFINE k == Max(rows)
<1>7. k \in DOMAIN preview /\ preview[k].id = id /\ PreviewOf(id) = preview[k]
  BY <1>4, <1>5
<1> HIDE DEF k
<1>8. preview[k] \in PreviewRow
  BY <1>1, <1>7
<1>9. preview[k].status = "completed"
  BY <1>6, <1>7
<1> QED BY <1>7, <1>8, <1>9

LEMMA NewManifestType ==
    ASSUME TypeOK, CompletedHasRevision, preview # NoFile, NEW e \in Entry, Materializes(e.id), NEW old
    PROVE  /\ NewManifest(old, e) \in Manifest
           /\ NewManifest(old, e).id = e.id
<1>1. PICK k \in DOMAIN preview :
         /\ PreviewOf(e.id) = preview[k] /\ preview[k].status = "completed"
         /\ preview[k] \in PreviewRow
  BY PreviewOfHolds
<1>2. PreviewOf(e.id).dir \in Dirs /\ PreviewOf(e.id).revision \in Revisions
  BY <1>1 DEF CompletedHasRevision, PreviewRow
<1>3. e.id \in Ids /\ e.repository \in Repositories /\ e.url \in Urls
  BY EntryHolds
<1> QED BY <1>2, <1>3 DEF NewManifest, Manifest

\* A materialization replaces manifests by new ones of its entries, at home.
LEMMA MaterializedType ==
    ASSUME TypeOK, CompletedHasRevision, ManifestAtHome, preview # NoFile, NEW few \in Seq(Entry)
    PROVE  /\ Materialized(few) \in [Dirs -> Manifest \cup {NoFile, Bare}]
           /\ \A d \in Dirs : Materialized(few)[d] \notin {NoFile, Bare} =>
                 d = DirOf[Materialized(few)[d].id]
<1> SUFFICES ASSUME NEW d \in Dirs
             PROVE  /\ Materialized(few)[d] \in Manifest \cup {NoFile, Bare}
                    /\ Materialized(few)[d] \notin {NoFile, Bare} =>
                          d = DirOf[Materialized(few)[d].id]
  BY DEF Materialized
<1> DEFINE from == {i \in DOMAIN few : DirOf[few[i].id] = d /\ Materializes(few[i].id)}
           k == Max(from)
<1>1. CASE from = {}
  <2>1. Materialized(few)[d] = tasks[d]
    BY <1>1 DEF Materialized
  <2> QED BY <2>1 DEF TypeOK, ManifestAtHome, Whole
<1>2. CASE from # {}
  <2>1. from \in SUBSET (1..Len(few)) /\ Len(few) \in Nat
    OBVIOUS
  <2>2. k \in from
    BY <1>2, <2>1, MaxHolds
  <2>3. Materialized(few)[d] = NewManifest(tasks[d], few[k])
    BY <1>2 DEF Materialized
  <2>4. few[k] \in Entry /\ Materializes(few[k].id) /\ DirOf[few[k].id] = d
    BY <2>2
  <2> HIDE DEF k
  <2>5. NewManifest(tasks[d], few[k]) \in Manifest /\ NewManifest(tasks[d], few[k]).id = few[k].id
    BY <2>4, NewManifestType
  <2> QED BY <2>3, <2>4, <2>5
<1> QED BY <1>1, <1>2

\* The manifest of a task of an unambiguous corpus, after its materialization.
LEMMA MaterializedHolds ==
    ASSUME IInv, chain # "broken", Unambiguous(corpus), preview # NoFile,
           NEW few \in FirstFew(corpus), NEW i \in DOMAIN few, Materializes(few[i].id)
    PROVE  \E r \in Revisions :
              /\ Materialized(few)[DirOf[few[i].id]] =
                    [id |-> corpus[i].id, repository |-> corpus[i].repository,
                     url |-> corpus[i].url, dir |-> DirOf[corpus[i].repository], revision |-> r]
              /\ clones[DirOf[corpus[i].repository]] = [url |-> corpus[i].url, revision |-> r]
<1> DEFINE d == DirOf[few[i].id]
           from == {j \in DOMAIN few : DirOf[few[j].id] = d /\ Materializes(few[j].id)}
<1>1. corpus \in Seq(Entry)
  BY CorpusAssumption DEF IInv, TypeOK
<1>2. /\ few \in Seq(Entry)
      /\ \A j \in DOMAIN few : j \in DOMAIN corpus /\ few[j] = corpus[j] /\ few[j] \in Entry
  BY <1>1, FewOf
<1>3. d \in Dirs
  BY <1>2, EntryHolds
<1>4. \A j \in DOMAIN corpus : DirOf[corpus[j].id] = d => j = i
  BY <1>2 DEF Unambiguous
<1>5. i \in from /\ \A j \in from : j = i
  BY <1>2, <1>4
<1>6. Max(from) = i
  <2> from \in SUBSET (1..Len(few)) /\ Len(few) \in Nat
    BY <1>2
  <2> HIDE DEF from
  <2> QED BY <1>5, MaxOfOne
<1>7. Materialized(few)[d] = NewManifest(tasks[d], few[i])
  BY <1>3, <1>5, <1>6 DEF Materialized
<1>8. PICK k \in DOMAIN preview :
         /\ PreviewOf(few[i].id) = preview[k] /\ preview[k].id = few[i].id
         /\ preview[k].status = "completed" /\ preview[k] \in PreviewRow
  BY PreviewOfHolds DEF IInv
<1>9. /\ k \in DOMAIN corpus /\ preview[k].id = corpus[k].id
      /\ preview[k].dir = DirOf[corpus[k].repository]
      /\ clones[preview[k].dir] = [url |-> corpus[k].url, revision |-> preview[k].revision]
  BY <1>8 DEF IInv, PreviewDescribesClones
<1>10. k = i
  BY <1>2, <1>4, <1>8, <1>9
<1>11. preview[k].revision \in Revisions
  BY <1>8 DEF IInv, CompletedHasRevision
<1>12. NewManifest(tasks[d], few[i]) =
          [id |-> corpus[i].id, repository |-> corpus[i].repository,
           url |-> corpus[i].url, dir |-> DirOf[corpus[i].repository], revision |-> preview[k].revision]
  BY <1>2, <1>8, <1>9, <1>10 DEF NewManifest
<1> QED BY <1>7, <1>9, <1>10, <1>11, <1>12

-----------------------------------------------------------------------------
(* Focused plans and reproductions *)

LEMMA FocusHolds ==
    ASSUME TypeOK, NEW d \in Dirs
    PROVE  /\ Focus(d) \in FocusedRow
           /\ ~Whole(d) => Focus(d).id = NoFile
           /\ Whole(d) => /\ tasks[d] \in Manifest
                          /\ Focus(d).id = tasks[d].id
                          /\ Focus(d).command = IF TestFile[tasks[d].revision] = NoFile THEN "suite"
                                                ELSE TestFile[tasks[d].revision]
<1>1. CASE ~Whole(d)
  BY <1>1 DEF Focus, FocusedRow
<1>2. CASE Whole(d)
  <2> DEFINE file == TestFile[tasks[d].revision]
             command == IF file = NoFile THEN "suite" ELSE file
             blocked == \/ ~CheckoutThere(d) \/ command \in Refused
                        \/ file # NoFile /\ ~FileThere(tasks[d].dir, file)
             status == IF blocked THEN "blocked" ELSE IF file = NoFile THEN "fallback" ELSE "planned"
  <2>1. Focus(d) = [id |-> tasks[d].id, command |-> command, status |-> status]
    BY <1>2 DEF Focus
  <2>2. status \in {"planned", "fallback", "blocked"}
    OBVIOUS
  <2>3. tasks[d] \in Manifest
    BY <1>2 DEF Whole, TypeOK
  <2>4. tasks[d].id \in Ids /\ file \in Tests
    BY <2>3 DEF Manifest, Tests
  <2>5. "suite" \in Tests
    BY DEF Tests
  <2>6. command = IF TestFile[tasks[d].revision] = NoFile THEN "suite" ELSE TestFile[tasks[d].revision]
    OBVIOUS
  <2>7. command \in Tests
    BY <2>4, <2>5
  <2> HIDE DEF file, command, status
  <2> QED BY <1>2, <2>1, <2>2, <2>3, <2>4, <2>6, <2>7 DEF FocusedRow
<1> QED BY <1>1, <1>2

LEMMA FocusedOfType ==
    ASSUME TypeOK, NEW d
    PROVE  FocusedOf(d) = NoFile \/ FocusedOf(d) \in FocusedRow
<1> DEFINE named == {f \in DOMAIN focused : focused[f].id = d}
<1>1. CASE focused = NoFile \/ named = {}
  BY <1>1 DEF FocusedOf
<1>2. CASE focused # NoFile /\ named # {}
  <2>1. FocusedOf(d) = focused[CHOOSE f \in named : TRUE]
    BY <1>2 DEF FocusedOf
  <2>2. (CHOOSE f \in named : TRUE) \in named
    BY <1>2
  <2>3. focused \in [DOMAIN focused -> FocusedRow]
    BY <1>2 DEF TypeOK
  <2> HIDE DEF named
  <2>4. (CHOOSE f \in named : TRUE) \in DOMAIN focused
    BY <2>2 DEF named
  <2> QED BY <2>1, <2>3, <2>4
<1> QED BY <1>1, <1>2

LEMMA SourceHolds ==
    ASSUME NEW given, NEW d
    PROVE  /\ Source(given, d) \in {"spec", "focused", "repository", "missing"}
           /\ Source(given, d) = "spec" <=> SpecOf(given, d).command # "none"
           /\ Source(given, d) = "focused" <=>
                 /\ SpecOf(given, d).command = "none"
                 /\ FocusedOf(d) # NoFile /\ FocusedOf(d).command # NoFile
           /\ Source(given, d) = "repository" => Whole(d)
<1>1. CASE SpecOf(given, d).command # "none"
  BY <1>1 DEF Source
<1>2. CASE SpecOf(given, d).command = "none" /\ FocusedOf(d) # NoFile /\ FocusedOf(d).command # NoFile
  BY <1>2 DEF Source
<1>3. CASE SpecOf(given, d).command = "none" /\ ~(FocusedOf(d) # NoFile /\ FocusedOf(d).command # NoFile)
  <2>1. Source(given, d) = IF Whole(d) THEN "repository" ELSE "missing"
    BY <1>3 DEF Source
  <2> QED BY <1>3, <2>1
<1> QED BY <1>1, <1>2, <1>3

LEMMA CommandHolds ==
    ASSUME NEW given, NEW d
    PROVE  /\ Source(given, d) = "spec" => Command(given, d) = SpecOf(given, d).command
           /\ Source(given, d) = "focused" => Command(given, d) = FocusedOf(d).command
           /\ Source(given, d) = "repository" => Command(given, d) = "suite"
           /\ Source(given, d) = "missing" => Command(given, d) = "none"
BY DEF Command

LEMMA ReproductionHolds ==
    ASSUME NEW given, NEW d
    PROVE  LET row == Reproduction(given, d)
           IN  /\ row.status = "blocked" <=> ~CheckoutThere(d) \/ Command(given, d) \in Refused
               /\ row.status # "blocked" =>
                     row.status = IF ~SpecOf(given, d).signals \/ Source(given, d) = "repository"
                                  THEN "warning" ELSE "planned"
               /\ row.id = IF Whole(d) THEN tasks[d].id ELSE d
               /\ row.dir = IF Whole(d) THEN tasks[d].dir ELSE NoFile
               /\ row.source = Source(given, d) /\ row.command = Command(given, d)
               /\ row.signals = SpecOf(given, d).signals
BY DEF Reproduction

LEMMA ReproductionType ==
    ASSUME TypeOK, NEW given \in {specs, None}, NEW d \in Dirs
    PROVE  Reproduction(given, d) \in PlanRow
<1>1. SpecOf(given, d) \in ReviewedSpec
  <2>1. NoSpec \in ReviewedSpec
    BY DEF NoSpec, ReviewedSpec
  <2>2. d \in DOMAIN specs => specs[d] \in ReviewedSpec
    BY DEF TypeOK
  <2>3. d \notin DOMAIN None
    BY DEF None
  <2> QED BY <2>1, <2>2, <2>3 DEF SpecOf
<1>2. Command(given, d) \in Tests \cup {"given", "refused", "none"}
  <2>1. FocusedOf(d) # NoFile /\ FocusedOf(d).command # NoFile => FocusedOf(d).command \in Tests
    BY FocusedOfType DEF FocusedRow
  <2>2. "suite" \in Tests
    BY DEF Tests
  <2> QED BY <1>1, <2>1, <2>2, SourceHolds, CommandHolds DEF ReviewedSpec
<1>3. Whole(d) => tasks[d].id \in Ids /\ tasks[d].dir \in Dirs
  BY DEF Whole, TypeOK, Manifest
<1>4. Source(given, d) \in {"spec", "focused", "repository", "missing"}
  BY SourceHolds
<1>5. SpecOf(given, d).signals \in BOOLEAN
  BY <1>1 DEF ReviewedSpec
<1>6. Reproduction(given, d).status \in {"planned", "warning", "blocked"}
  BY ReproductionHolds
<1> DEFINE row == Reproduction(given, d)
<1>7. row = [id |-> row.id, dir |-> row.dir, status |-> row.status, source |-> row.source,
             command |-> row.command, signals |-> row.signals]
  BY DEF Reproduction
<1>8. /\ row.id \in Ids \cup Dirs /\ row.dir \in Dirs \cup {NoFile}
      /\ row.source = Source(given, d) /\ row.command = Command(given, d)
      /\ row.signals = SpecOf(given, d).signals
  BY <1>3, ReproductionHolds
<1> HIDE DEF row
<1>9. row.status \in {"planned", "warning", "blocked"}
  BY <1>6 DEF row
<1>10. row \in PlanRow
  BY <1>2, <1>4, <1>5, <1>7, <1>8, <1>9 DEF PlanRow
<1> QED BY <1>10 DEF row

-----------------------------------------------------------------------------
(* What is in the directories of the tasks that were made *)

LEMMA MadeHolds ==
    ASSUME IInv, chain \in {"made", "focused", "planned"}, Unambiguous(corpus),
           NEW j \in DOMAIN made, made[j].status = "materialized"
    PROVE  LET d == made[j].dir
           IN  /\ j \in DOMAIN corpus /\ made[j].id = corpus[j].id
               /\ d \in Dirs /\ Whole(d) /\ CheckoutThere(d)
               /\ tasks[d] \in Manifest /\ d = DirOf[tasks[d].id]
               /\ tasks[d].id = corpus[j].id /\ tasks[d].repository = corpus[j].repository
               /\ tasks[d].url = corpus[j].url
               /\ clones[tasks[d].dir] = [url |-> tasks[d].url, revision |-> tasks[d].revision]
<1> DEFINE d == made[j].dir
<1>1. corpus \in Seq(Entry)
  BY CorpusAssumption DEF IInv, TypeOK
<1>2. PICK r \in Revisions :
         /\ j \in DOMAIN corpus /\ made[j].id = corpus[j].id /\ d = DirOf[corpus[j].id]
         /\ tasks[d] = [id |-> corpus[j].id, repository |-> corpus[j].repository,
                        url |-> corpus[j].url,
                        dir |-> DirOf[corpus[j].repository], revision |-> r]
         /\ clones[DirOf[corpus[j].repository]] = [url |-> corpus[j].url, revision |-> r]
  BY DEF IInv, MadeIsThere
<1>3. corpus[j] \in Entry
  BY <1>1, <1>2
<1>4. /\ corpus[j].id \in Ids /\ corpus[j].repository \in Repositories /\ corpus[j].url \in Urls
      /\ d \in Dirs /\ DirOf[corpus[j].repository] \in Dirs
  BY <1>2, <1>3, EntryHolds
<1> HIDE DEF d
<1>5. tasks[d] \in Manifest
  BY <1>2, <1>4 DEF Manifest
<1>6. Whole(d)
  BY <1>5, MarkerAssumption DEF Whole
<1>7. [url |-> corpus[j].url, revision |-> r] \in Clone
  BY <1>4 DEF Clone
<1>8. clones[tasks[d].dir] = [url |-> tasks[d].url, revision |-> tasks[d].revision]
  BY <1>2
<1>9. CheckoutThere(d)
  BY <1>2, <1>6, <1>7, MarkerAssumption DEF CheckoutThere
<1> QED BY <1>2, <1>4, <1>5, <1>6, <1>8, <1>9 DEF d

\* A focused plan made after the materialization is found by the name of its task.
LEMMA FocusedOfOwn ==
    ASSUME IInv, chain \in {"focused", "planned"}, NEW d \in Dirs, Whole(d), tasks[d].id = d
    PROVE  FocusedOf(d) = Focus(d)
<1> DEFINE named == {f \in DOMAIN focused : focused[f].id = d}
<1>1. focused = [f \in TaskDirs |-> Focus(f)]
  BY DEF IInv, FocusIsCurrent, FocusRow
<1>2. TypeOK /\ ManifestAtHome
  BY DEF IInv
<1>3. \A f \in Dirs : Focus(f) \in FocusedRow
  BY <1>2, FocusHolds
<1>4. focused \in [TaskDirs -> FocusedRow] /\ TaskDirs \in SUBSET Dirs
  BY <1>1, <1>3 DEF TaskDirs
<1>5. focused # NoFile
  BY <1>4, MarkerAssumption
<1>6. d \in named
  <2>1. d \in TaskDirs
    BY DEF TaskDirs, Whole
  <2>2. Focus(d).id = d
    BY <1>2, FocusHolds
  <2> QED BY <1>1, <2>1, <2>2
<1>7. \A f \in named : f = d
  <2> SUFFICES ASSUME NEW f \in named PROVE f = d
    OBVIOUS
  <2>1. f \in Dirs /\ Focus(f).id = d
    BY <1>1, <1>4
  <2>2. Whole(f)
    BY <1>2, <2>1, FocusHolds, MarkerAssumption
  <2>3. tasks[f].id = d
    BY <1>2, <2>1, <2>2, FocusHolds
  <2> QED BY <1>2, <2>1, <2>2, <2>3 DEF ManifestAtHome
<1>8. FocusedOf(d) = focused[CHOOSE f \in named : TRUE]
  BY <1>5, <1>6 DEF FocusedOf
<1>9. (CHOOSE f \in named : TRUE) = d
  BY <1>6, <1>7
<1> HIDE DEF named
<1>10. d \in TaskDirs
  BY <1>4, <1>6 DEF named
<1> QED BY <1>1, <1>8, <1>9, <1>10

-----------------------------------------------------------------------------
(* The commands keep the invariant *)

LEMMA InitKeeps == Init => IInv
<1> SUFFICES ASSUME Init PROVE IInv
  OBVIOUS
<1>1. TypeOK
  <2>1. None \in [DOMAIN None -> ReviewedSpec]
    BY DEF None
  <2>2. [u \in Urls |-> 1] \in [Urls -> Revisions]
    BY CorpusAssumption DEF Revisions
  <2> QED BY <2>1, <2>2 DEF Init, TypeOK
<1>2. \A d \in Dirs : ~Whole(d)
  BY DEF Init, Whole
<1>3. ManifestAtHome
  BY <1>2 DEF ManifestAtHome
<1>4. CompletedHasRevision
  BY DEF Init, CompletedHasRevision
<1>5. PreviewDescribesClones /\ MadeIsThere /\ FocusIsCurrent /\ OrderedPlansRun
  BY DEF Init, PreviewDescribesClones, MadeIsThere, FocusIsCurrent, OrderedPlansRun
<1>6. SureIsReady
  BY DEF Init, SureIsReady
<1> QED BY <1>1, <1>3, <1>4, <1>5, <1>6 DEF IInv

LEMMA HappensHolds ==
    ASSUME TypeOK, NEW what \in {"kill", "review", "edit", "move"}, Happens(what)
    PROVE  events' \subseteq {"kill", "review", "edit", "move"}
BY DEF TypeOK, Happens

LEMMA PreviewKeeps == IInv /\ PreviewContext => IInv'
<1> SUFFICES ASSUME IInv, PreviewContext PROVE IInv'
  OBVIOUS
<1>1. TypeOK
  BY DEF IInv
<1>2. corpus \in Seq(Entry)
  BY <1>1, CorpusAssumption DEF TypeOK
<1>3. PICK few \in FirstFew(corpus) : \E endings \in [DOMAIN few -> Endings] :
        /\ clones' = Cloned(few, endings)
        /\ \/ /\ SavePreview([i \in DOMAIN few |-> PreviewIssue(few, endings, i)])
              /\ chain' = "previewed" /\ UNCHANGED events
           \/ Happens("kill") /\ chain' = "broken" /\ UNCHANGED preview
  BY DEF PreviewContext
<1>4. PICK endings \in [DOMAIN few -> Endings] :
        /\ clones' = Cloned(few, endings)
        /\ \/ /\ SavePreview([i \in DOMAIN few |-> PreviewIssue(few, endings, i)])
              /\ chain' = "previewed" /\ UNCHANGED events
           \/ Happens("kill") /\ chain' = "broken" /\ UNCHANGED preview
  BY <1>3
<1>5. /\ made' = NoFile /\ sure' = [d \in Dirs |-> "no"]
      /\ UNCHANGED <<corpus, heads, tasks, focused, specs, plan>>
  BY DEF PreviewContext
<1>6. /\ few \in Seq(Entry)
      /\ \A i \in DOMAIN few : i \in DOMAIN corpus /\ few[i] = corpus[i] /\ few[i] \in Entry
  BY <1>2, FewOf
<1> DEFINE rows == [i \in DOMAIN few |-> PreviewIssue(few, endings, i)]
<1>7. rows \in Seq(PreviewRow)
  <2>1. \A i \in 1..Len(few) : PreviewIssue(few, endings, i) \in PreviewRow
    BY <1>1, <1>6, PreviewIssueType
  <2>2. DOMAIN few = 1..Len(few) /\ Len(few) \in Nat
    BY <1>6
  <2> QED BY <2>1, <2>2
<1>8. CASE SavePreview(rows) /\ chain' = "previewed" /\ UNCHANGED events
  <2>1. preview' = rows
    BY <1>8 DEF SavePreview
  <2>2. clones' \in [Dirs -> Clone \cup {NoFile}]
    BY <1>1, <1>4, <1>6, ClonedType
  <2> HIDE DEF rows
  <2>3. TypeOK'
    BY <1>1, <1>5, <1>7, <1>8, <2>1, <2>2 DEF TypeOK
  <2> USE DEF rows
  <2>4. CompletedHasRevision'
    BY <1>1, <1>6, <2>1, PreviewIssueType DEF CompletedHasRevision
  <2>5. PreviewDescribesClones'
    <3> SUFFICES ASSUME Unambiguous(corpus), NEW i \in DOMAIN few
                 PROVE  /\ i \in DOMAIN corpus /\ rows[i].id = corpus[i].id
                        /\ rows[i].status = "completed" =>
                              /\ rows[i].dir = DirOf[corpus[i].repository]
                              /\ clones'[rows[i].dir] = [url |-> corpus[i].url,
                                                         revision |-> rows[i].revision]
      BY <1>5, <2>1 DEF PreviewDescribesClones, Unambiguous, EntryStatus
    <3>1. i \in DOMAIN corpus /\ few[i] = corpus[i]
      BY <1>6
    <3>2. rows[i].id = few[i].id /\ rows[i].dir = DirOf[few[i].repository]
      BY <1>1, <1>6, PreviewIssueType
    <3>3. ASSUME rows[i].status = "completed"
          PROVE  clones'[DirOf[few[i].repository]] = [url |-> few[i].url, revision |-> rows[i].revision]
      <4>1. endings[i] = "completed"
        BY <1>1, <1>6, <3>3, PreviewIssueType
      <4>2. \A m, n \in DOMAIN few : DirOf[few[m].repository] = DirOf[few[n].repository] =>
                few[m].repository = few[n].repository /\ few[m].url = few[n].url
        BY <1>6 DEF Unambiguous
      <4>3. Cloned(few, endings)[DirOf[few[i].repository]] =
               [url |-> few[i].url, revision |-> PreviewIssue(few, endings, i).revision]
        BY <1>1, <1>6, <4>1, <4>2, ClonedHolds
      <4> QED BY <1>4, <4>3
    <3> QED BY <3>1, <3>2, <3>3
  <2>6. ManifestAtHome'
    BY <1>5 DEF IInv, ManifestAtHome, Whole
  <2>7. MadeIsThere' /\ FocusIsCurrent' /\ OrderedPlansRun'
    BY <1>8 DEF MadeIsThere, FocusIsCurrent, OrderedPlansRun
  <2>8. SureIsReady'
    BY <1>5 DEF SureIsReady
  <2> QED BY <2>3, <2>4, <2>5, <2>6, <2>7, <2>8 DEF IInv
<1>9. CASE Happens("kill") /\ chain' = "broken" /\ UNCHANGED preview
  <2>1. clones' \in [Dirs -> Clone \cup {NoFile}]
    BY <1>1, <1>4, <1>6, ClonedType
  <2>2. TypeOK'
    BY <1>1, <1>5, <1>9, <2>1, HappensHolds DEF TypeOK
  <2>3. CompletedHasRevision' /\ ManifestAtHome'
    BY <1>5, <1>9 DEF IInv, CompletedHasRevision, ManifestAtHome, Whole
  <2>4. PreviewDescribesClones' /\ MadeIsThere' /\ FocusIsCurrent' /\ OrderedPlansRun'
    BY <1>9 DEF PreviewDescribesClones, MadeIsThere, FocusIsCurrent, OrderedPlansRun
  <2>5. SureIsReady'
    BY <1>5 DEF SureIsReady
  <2> QED BY <2>2, <2>3, <2>4, <2>5 DEF IInv
<1> QED BY <1>4, <1>8, <1>9

LEMMA MaterializeKeeps == IInv /\ MaterializeTasks => IInv'
<1> SUFFICES ASSUME IInv, MaterializeTasks PROVE IInv'
  OBVIOUS
<1>1. TypeOK /\ CompletedHasRevision /\ ManifestAtHome
  BY DEF IInv
<1>2. corpus \in Seq(Entry)
  BY <1>1, CorpusAssumption DEF TypeOK
<1>3. /\ preview # NoFile /\ sure' = [d \in Dirs |-> "no"]
      /\ UNCHANGED <<corpus, heads, clones, preview, focused, specs, plan>>
  BY DEF MaterializeTasks
<1>4. PICK few \in FirstFew(corpus) :
          \/ /\ tasks' = Materialized(few)
             /\ SaveMade(IF chain = "broken" THEN NoFile ELSE MadeRows(few))
             /\ chain' = IF chain = "broken" THEN chain ELSE "made"
             /\ UNCHANGED events
          \/ /\ Happens("kill")
             /\ Materializes(Last(few).id)
             /\ tasks' = [Materialized(Front(few)) EXCEPT ![DirOf[Last(few).id]] = Bare]
             /\ chain' = IF chain = "broken" THEN chain ELSE "previewed"
             /\ made' = NoFile
  BY DEF MaterializeTasks
<1>5. /\ few \in Seq(Entry) /\ few # <<>>
      /\ \A i \in DOMAIN few : i \in DOMAIN corpus /\ few[i] = corpus[i] /\ few[i] \in Entry
  BY <1>2, FewOf
<1>6. CompletedHasRevision' /\ SureIsReady'
  BY <1>1, <1>3 DEF CompletedHasRevision, SureIsReady
<1>7. PreviewDescribesClones'
  <2>1. chain' # "broken" => chain # "broken"
    BY <1>4
  <2> QED BY <1>3, <2>1 DEF IInv, PreviewDescribesClones, Unambiguous, EntryStatus
<1>8. chain' \in {"broken", "made", "previewed"}
  BY <1>4
<1>9. FocusIsCurrent' /\ OrderedPlansRun'
  BY <1>8 DEF FocusIsCurrent, OrderedPlansRun
<1>10. CASE /\ tasks' = Materialized(few)
            /\ SaveMade(IF chain = "broken" THEN NoFile ELSE MadeRows(few))
            /\ chain' = IF chain = "broken" THEN chain ELSE "made"
            /\ UNCHANGED events
  <2>1. made' = IF chain = "broken" THEN NoFile ELSE MadeRows(few)
    BY <1>10 DEF SaveMade
  <2>2. MadeRows(few) \in Seq(MadeRow)
    <3>1. \A i \in 1..Len(few) : [id |-> few[i].id, dir |-> DirOf[few[i].id],
                                  status |-> IF Materializes(few[i].id) THEN "materialized" ELSE "failed"]
                                 \in MadeRow
      <4> SUFFICES ASSUME NEW i \in 1..Len(few)
                   PROVE  few[i].id \in Ids /\ DirOf[few[i].id] \in Dirs
        BY DEF MadeRow
      <4>1. few[i] \in Entry
        BY <1>5
      <4> QED BY <4>1, EntryHolds
    <3>2. DOMAIN few = 1..Len(few) /\ Len(few) \in Nat
      BY <1>5
    <3> QED BY <3>1, <3>2 DEF MadeRows
  <2>3. tasks' \in [Dirs -> Manifest \cup {NoFile, Bare}]
        /\ \A d \in Dirs : tasks'[d] \notin {NoFile, Bare} => d = DirOf[tasks'[d].id]
    BY <1>1, <1>3, <1>5, <1>10, MaterializedType
  <2>4. TypeOK'
    BY <1>1, <1>3, <1>8, <1>10, <2>1, <2>2, <2>3 DEF TypeOK
  <2>5. ManifestAtHome'
    BY <2>3 DEF ManifestAtHome, Whole
  <2>6. MadeIsThere'
    <3> SUFFICES ASSUME chain # "broken", Unambiguous(corpus), NEW i \in DOMAIN MadeRows(few)
                 PROVE  /\ i \in DOMAIN corpus /\ MadeRows(few)[i].id = corpus[i].id
                        /\ MadeRows(few)[i].dir = DirOf[corpus[i].id]
                        /\ MadeRows(few)[i].status = "materialized" => \E r \in Revisions :
                              /\ tasks'[MadeRows(few)[i].dir] =
                                    [id |-> corpus[i].id, repository |-> corpus[i].repository,
                                     url |-> corpus[i].url,
                                     dir |-> DirOf[corpus[i].repository], revision |-> r]
                              /\ clones[DirOf[corpus[i].repository]] =
                                    [url |-> corpus[i].url, revision |-> r]
      BY <1>3, <1>10, <2>1 DEF MadeIsThere, Unambiguous, EntryStatus
    <3>1. /\ i \in DOMAIN few /\ MadeRows(few)[i].id = few[i].id
          /\ MadeRows(few)[i].dir = DirOf[few[i].id]
          /\ MadeRows(few)[i].status = "materialized" => Materializes(few[i].id)
      BY DEF MadeRows
    <3>2. i \in DOMAIN corpus /\ few[i] = corpus[i]
      BY <1>5, <3>1
    <3> QED BY <1>3, <1>10, <3>1, <3>2, MaterializedHolds
  <2> QED BY <1>6, <1>7, <1>9, <2>4, <2>5, <2>6 DEF IInv
<1>11. CASE /\ Happens("kill")
            /\ Materializes(Last(few).id)
            /\ tasks' = [Materialized(Front(few)) EXCEPT ![DirOf[Last(few).id]] = Bare]
            /\ chain' = IF chain = "broken" THEN chain ELSE "previewed"
            /\ made' = NoFile
  <2>1. Front(few) \in Seq(Entry)
    BY <1>5 DEF Front
  <2>2. Materialized(Front(few)) \in [Dirs -> Manifest \cup {NoFile, Bare}]
        /\ \A d \in Dirs : Materialized(Front(few))[d] \notin {NoFile, Bare} =>
              d = DirOf[Materialized(Front(few))[d].id]
    BY <1>1, <1>3, <2>1, MaterializedType
  <2>3. tasks' \in [Dirs -> Manifest \cup {NoFile, Bare}]
        /\ \A d \in Dirs : tasks'[d] \notin {NoFile, Bare} => d = DirOf[tasks'[d].id]
    BY <1>11, <2>2
  <2>4. TypeOK'
    BY <1>1, <1>3, <1>8, <1>11, <2>3, HappensHolds DEF TypeOK
  <2>5. ManifestAtHome'
    BY <2>3 DEF ManifestAtHome, Whole
  <2>6. MadeIsThere'
    BY <1>11 DEF MadeIsThere
  <2> QED BY <1>6, <1>7, <1>9, <2>4, <2>5, <2>6 DEF IInv
<1> QED BY <1>4, <1>10, <1>11

LEMMA FocusKeeps == IInv /\ PlanFocusedTests => IInv'
<1> SUFFICES ASSUME IInv, PlanFocusedTests PROVE IInv'
  OBVIOUS
<1>1. /\ focused' = [d \in TaskDirs |-> FocusRow(d)]
      /\ chain' = IF chain \in {"made", "focused", "planned"} THEN "focused" ELSE chain
      /\ UNCHANGED <<corpus, heads, clones, preview, tasks, made, specs, plan, sure, events>>
  BY DEF PlanFocusedTests
<1>2. focused' \in [DOMAIN focused' -> FocusedRow]
  <2>1. TaskDirs \subseteq Dirs
    BY DEF TaskDirs
  <2>2. \A d \in TaskDirs : FocusRow(d) \in FocusedRow
    BY <2>1, FocusHolds DEF IInv, FocusRow
  <2> QED BY <1>1, <2>2
<1>3. TypeOK'
  BY <1>1, <1>2 DEF IInv, TypeOK
<1>4. CompletedHasRevision' /\ ManifestAtHome'
  BY <1>1 DEF IInv, CompletedHasRevision, ManifestAtHome, Whole
<1>5. PreviewDescribesClones' /\ MadeIsThere'
  BY <1>1 DEF IInv, PreviewDescribesClones, MadeIsThere, Unambiguous, EntryStatus
<1>6. FocusIsCurrent'
  <2>1. TaskDirs' = TaskDirs /\ \A d : FocusRow(d)' = FocusRow(d)
    BY <1>1 DEF TaskDirs, FocusRow, Focus, Whole, CheckoutThere, FileThere
  <2> QED BY <1>1, <2>1 DEF FocusIsCurrent
<1>7. OrderedPlansRun'
  <2>1. chain' # "planned"
    BY <1>1
  <2> QED BY <2>1 DEF OrderedPlansRun
<1>8. SureIsReady'
  BY <1>1 DEF IInv, SureIsReady, CheckoutThere, Whole
<1> QED BY <1>3, <1>4, <1>5, <1>6, <1>7, <1>8 DEF IInv

\* What is planned for a task that was made and has a focused plan.
LEMMA PlannedHolds ==
    ASSUME IInv, chain \in {"focused", "planned"}, Unambiguous(corpus),
           NEW given \in {specs, None}, NEW d \in MadeDirs, tasks[d].id = d
    PROVE  LET row == Reproduction(given, d)
           IN  /\ d \in TaskDirs
               /\ row.source \in {"spec", "focused"}
               /\ row.status = "blocked" <=> row.command \in Refused
               /\ row.source = "focused" =>
                     row.command = "suite" \/ FileThere(tasks[d].dir, row.command)
<1>1. /\ TypeOK /\ d \in Dirs /\ Whole(d) /\ CheckoutThere(d) /\ tasks[d] \in Manifest
      /\ clones[tasks[d].dir] = [url |-> tasks[d].url, revision |-> tasks[d].revision]
  BY MadeHolds DEF MadeDirs, IInv
<1>2. d \in TaskDirs
  BY <1>1 DEF TaskDirs, Whole
<1>3. FocusedOf(d) = Focus(d)
  BY <1>1, FocusedOfOwn
<1> DEFINE file == TestFile[tasks[d].revision]
           row == Reproduction(given, d)
<1>4. /\ Focus(d) \in FocusedRow
      /\ Focus(d).command = IF file = NoFile THEN "suite" ELSE file
  BY <1>1, FocusHolds
<1>5. tasks[d].revision \in Revisions /\ tasks[d].revision # 0
  BY <1>1, CorpusAssumption DEF Manifest, Revisions
<1> HIDE DEF file
<1>6. FocusedOf(d) # NoFile /\ FocusedOf(d).command # NoFile
  BY <1>3, <1>4, MarkerAssumption
<1>7. Source(given, d) \in {"spec", "focused"}
  BY <1>6, SourceHolds
<1>8. /\ row.source = Source(given, d) /\ row.command = Command(given, d)
      /\ row.status = "blocked" <=> ~CheckoutThere(d) \/ Command(given, d) \in Refused
  BY ReproductionHolds
<1>9. row.source = "focused" => row.command = "suite" \/ FileThere(tasks[d].dir, row.command)
  <2> SUFFICES ASSUME Source(given, d) = "focused", file # NoFile
               PROVE  FileThere(tasks[d].dir, file)
    BY <1>3, <1>4, <1>8, CommandHolds
  <2>1. clones[tasks[d].dir].revision = tasks[d].revision
    BY <1>1
  <2> QED BY <1>5, <2>1 DEF FileThere, file
<1> QED BY <1>1, <1>2, <1>7, <1>8, <1>9

LEMMA PlanKeeps == IInv /\ PlanReproductions => IInv'
<1> SUFFICES ASSUME IInv, PlanReproductions PROVE IInv'
  OBVIOUS
<1>1. PICK given \in {specs, None} :
        /\ plan' = [d \in TaskDirs |-> Reproduction(given, d)]
        /\ sure' = [d \in Dirs |-> CASE sure[d] = "no" -> "no"
                                     [] OTHER -> IF given = specs THEN "planned" ELSE "ready"]
  BY DEF PlanReproductions, SavePlan
<1>2. /\ chain' = IF chain \in {"focused", "planned"} THEN "planned" ELSE chain
      /\ UNCHANGED <<corpus, heads, clones, preview, tasks, made, focused, specs, events>>
  BY DEF PlanReproductions
<1>3. TypeOK /\ TaskDirs \subseteq Dirs
  BY DEF IInv, TaskDirs
<1>4. plan' \in [DOMAIN plan' -> PlanRow]
  <2>1. \A d \in TaskDirs : Reproduction(given, d) \in PlanRow
    BY <1>3, ReproductionType
  <2> QED BY <1>1, <2>1
<1>5. sure' \in [Dirs -> {"no", "ready", "planned"}]
  BY <1>1
<1>6. TypeOK'
  BY <1>2, <1>3, <1>4, <1>5 DEF TypeOK
<1>7. CompletedHasRevision' /\ ManifestAtHome'
  BY <1>2 DEF IInv, CompletedHasRevision, ManifestAtHome, Whole
<1>8. PreviewDescribesClones' /\ MadeIsThere'
  BY <1>2 DEF IInv, PreviewDescribesClones, MadeIsThere, Unambiguous, EntryStatus
<1>9. FocusIsCurrent'
  <2>1. TaskDirs' = TaskDirs /\ \A d : FocusRow(d)' = FocusRow(d)
    BY <1>2 DEF TaskDirs, FocusRow, Focus, Whole, CheckoutThere, FileThere
  <2>2. chain' \in {"focused", "planned"} => chain \in {"focused", "planned"}
    BY <1>2
  <2> QED BY <1>2, <2>1, <2>2 DEF IInv, FocusIsCurrent
<1>10. OrderedPlansRun'
  <2> SUFFICES ASSUME chain' = "planned", Unambiguous(corpus), NEW d \in MadeDirs, tasks[d].id = d
               PROVE  /\ plan'[d].source \in {"spec", "focused"}
                      /\ plan'[d].status = "blocked" <=> plan'[d].command \in Refused
                      /\ plan'[d].source = "focused" =>
                            plan'[d].command = "suite" \/ FileThere(tasks[d].dir, plan'[d].command)
    BY <1>2 DEF OrderedPlansRun, Unambiguous, EntryStatus, MadeDirs, FileThere
  <2>1. chain \in {"focused", "planned"}
    BY <1>2, <1>3 DEF TypeOK
  <2>2. d \in TaskDirs /\ plan'[d] = Reproduction(given, d)
    BY <1>1, <2>1, PlannedHolds
  <2> QED BY <2>1, <2>2, PlannedHolds
<1>11. SureIsReady'
  <2> SUFFICES ASSUME NEW d \in Dirs, sure'[d] # "no"
               PROVE  /\ CheckoutThere(d)
                      /\ d \in DOMAIN specs /\ specs[d].command \notin Refused /\ specs[d].signals
                      /\ sure'[d] = "planned" =>
                            /\ d \in DOMAIN plan'
                            /\ plan'[d].status = "planned" /\ plan'[d].source = "spec"
                            /\ plan'[d].dir = tasks[d].dir
    BY <1>2 DEF SureIsReady, CheckoutThere, Whole
  <2>1. sure[d] # "no"
    BY <1>1
  <2>2. /\ CheckoutThere(d)
        /\ d \in DOMAIN specs /\ specs[d].command \notin Refused /\ specs[d].signals
    BY <2>1 DEF IInv, SureIsReady
  <2>3. ASSUME sure'[d] = "planned"
        PROVE  /\ d \in DOMAIN plan'
               /\ plan'[d].status = "planned" /\ plan'[d].source = "spec"
               /\ plan'[d].dir = tasks[d].dir
    <3>1. given = specs
      BY <1>1, <2>1, <2>3
    <3>2. d \in TaskDirs /\ Whole(d)
      BY <2>2 DEF CheckoutThere, Whole, TaskDirs
    <3>3. plan'[d] = Reproduction(specs, d)
      BY <1>1, <3>1, <3>2
    <3>4. SpecOf(specs, d) = specs[d]
      BY <2>2 DEF SpecOf
    <3>5. Source(specs, d) = "spec" /\ Command(specs, d) \notin Refused
      BY <2>2, <3>4, SourceHolds, CommandHolds DEF Refused
    <3>6. Reproduction(specs, d).status # "blocked"
      BY <2>2, <3>5, ReproductionHolds
    <3> QED BY <1>1, <2>2, <3>2, <3>3, <3>4, <3>5, <3>6, ReproductionHolds
  <2> QED BY <2>2, <2>3
<1> QED BY <1>6, <1>7, <1>8, <1>9, <1>10, <1>11 DEF IInv

LEMMA ReviewKeeps == IInv /\ ReviewSpecs => IInv'
<1> SUFFICES ASSUME IInv, ReviewSpecs PROVE IInv'
  OBVIOUS
<1>1. /\ Happens("review") /\ sure' = [d \in Dirs |-> "no"]
      /\ UNCHANGED <<corpus, heads, clones, preview, tasks, made, focused, plan, chain>>
  BY DEF ReviewSpecs
<1>2. specs' \in [DOMAIN specs' -> ReviewedSpec]
  <2>1. ASSUME plan # NoFile, NEW rows \in SUBSET Template,
               specs' = [id \in {row.id : row \in rows} |->
                            [command |-> (CHOOSE row \in rows : row.id = id).command, signals |-> TRUE]]
        PROVE  specs' \in [DOMAIN specs' -> ReviewedSpec]
    <3>1. \A row \in Template : row.command \in {"given", "refused", "none"}
      BY DEF Template, Given
    <3> SUFFICES ASSUME NEW id \in {row.id : row \in rows}
                 PROVE  [command |-> (CHOOSE row \in rows : row.id = id).command, signals |-> TRUE]
                        \in ReviewedSpec
      BY <2>1
    <3>2. (CHOOSE row \in rows : row.id = id) \in Template
      OBVIOUS
    <3> QED BY <3>1, <3>2 DEF ReviewedSpec
  <2>2. ASSUME NEW id \in Ids, NEW spec \in OwnSpecs,
               specs' = [n \in DOMAIN specs \cup {id} |-> IF n = id THEN spec ELSE specs[n]]
        PROVE  specs' \in [DOMAIN specs' -> ReviewedSpec]
    BY <2>2, CorpusAssumption DEF IInv, TypeOK
  <2> QED BY <2>1, <2>2 DEF ReviewSpecs
<1>3. TypeOK'
  BY <1>1, <1>2, HappensHolds DEF IInv, TypeOK
<1>4. CompletedHasRevision' /\ ManifestAtHome'
  BY <1>1 DEF IInv, CompletedHasRevision, ManifestAtHome, Whole
<1>5. PreviewDescribesClones' /\ MadeIsThere'
  BY <1>1 DEF IInv, PreviewDescribesClones, MadeIsThere, Unambiguous, EntryStatus
<1>6. FocusIsCurrent'
  <2>1. TaskDirs' = TaskDirs /\ \A d : FocusRow(d)' = FocusRow(d)
    BY <1>1 DEF TaskDirs, FocusRow, Focus, Whole, CheckoutThere, FileThere
  <2> QED BY <1>1, <2>1 DEF IInv, FocusIsCurrent
<1>7. OrderedPlansRun'
  BY <1>1 DEF IInv, OrderedPlansRun, Unambiguous, EntryStatus, MadeDirs, FileThere
<1>8. SureIsReady'
  BY <1>1 DEF SureIsReady
<1> QED BY <1>3, <1>4, <1>5, <1>6, <1>7, <1>8 DEF IInv

LEMMA ValidateKeeps == IInv /\ ValidateSpecs => IInv'
<1> SUFFICES ASSUME IInv, ValidateSpecs PROVE IInv'
  OBVIOUS
<1>1. /\ sure' = [d \in Dirs |-> IF d \in DOMAIN SpecsReport /\ SpecsReport[d] = "ready" /\ sure[d] = "no"
                                 THEN "ready" ELSE sure[d]]
      /\ UNCHANGED <<corpus, heads, clones, preview, tasks, made, focused, specs, plan, chain, events>>
  BY DEF ValidateSpecs
<1>2. sure' \in [Dirs -> {"no", "ready", "planned"}]
  <2>1. \A d \in Dirs : sure[d] \in {"no", "ready", "planned"}
    BY DEF IInv, TypeOK
  <2> QED BY <1>1, <2>1
<1>3. TypeOK'
  BY <1>1, <1>2 DEF IInv, TypeOK
<1>4. CompletedHasRevision' /\ ManifestAtHome'
  BY <1>1 DEF IInv, CompletedHasRevision, ManifestAtHome, Whole
<1>5. PreviewDescribesClones' /\ MadeIsThere'
  <2>1. UNCHANGED <<corpus, clones, preview, tasks, made, chain>>
    BY <1>1
  <2>2. Unambiguous(corpus)' <=> Unambiguous(corpus)
    BY <2>1 DEF Unambiguous, EntryStatus, Duplicates
  <2>3. PreviewDescribesClones'
    BY <2>1, <2>2 DEF IInv, PreviewDescribesClones
  <2>4. MadeIsThere'
    BY <2>1, <2>2 DEF IInv, MadeIsThere
  <2> QED BY <2>3, <2>4
<1>6. FocusIsCurrent'
  <2>1. TaskDirs' = TaskDirs /\ \A d : FocusRow(d)' = FocusRow(d)
    BY <1>1 DEF TaskDirs, FocusRow, Focus, Whole, CheckoutThere, FileThere
  <2> QED BY <1>1, <2>1 DEF IInv, FocusIsCurrent
<1>7. OrderedPlansRun'
  BY <1>1 DEF IInv, OrderedPlansRun, Unambiguous, EntryStatus, MadeDirs, FileThere
<1>8. SureIsReady'
  <2> SUFFICES ASSUME NEW d \in Dirs, sure'[d] # "no"
               PROVE  /\ CheckoutThere(d)
                      /\ d \in DOMAIN specs /\ specs[d].command \notin Refused /\ specs[d].signals
                      /\ sure'[d] = "planned" =>
                            /\ d \in DOMAIN plan
                            /\ plan[d].status = "planned" /\ plan[d].source = "spec"
                            /\ plan[d].dir = tasks[d].dir
    BY <1>1 DEF SureIsReady, CheckoutThere, Whole
  <2>1. CASE sure[d] # "no"
    <3>1. sure'[d] = sure[d]
      BY <1>1, <2>1
    <3> QED BY <2>1, <3>1 DEF IInv, SureIsReady
  <2>2. CASE sure[d] = "no"
    <3>1. d \in DOMAIN SpecsReport /\ SpecsReport[d] = "ready" /\ sure'[d] = "ready"
      BY <1>1, <2>2
    <3>2. SpecStatus(d) = "ready"
      BY <3>1 DEF SpecsReport
    <3> DEFINE row == Reproduction(specs, d)
    <3>3. ~(row.status = "blocked" \/ d \notin DOMAIN specs \/ ~row.signals)
      BY <3>2 DEF SpecStatus
    <3>4. row.status # "warning" /\ row.source = "spec"
      BY <3>2, <3>3 DEF SpecStatus
    <3> HIDE DEF row
    <3>5. row.source = Source(specs, d) /\ row.signals = SpecOf(specs, d).signals
      BY ReproductionHolds DEF row
    <3>6. CheckoutThere(d) /\ Command(specs, d) \notin Refused
      BY <3>3, ReproductionHolds DEF row
    <3>7. SpecOf(specs, d) = specs[d]
      BY <3>3 DEF SpecOf
    <3>8. Command(specs, d) = specs[d].command
      BY <3>4, <3>5, <3>7, CommandHolds
    <3> QED BY <3>1, <3>3, <3>5, <3>6, <3>7, <3>8
  <2> QED BY <2>1, <2>2
<1> QED BY <1>3, <1>4, <1>5, <1>6, <1>7, <1>8 DEF IInv

\* An edited corpus breaks the chain, and a repository that moves changes no file.
LEMMA OutsideKeeps == IInv /\ (EditCorpus \/ RepositoryMoves \/ UNCHANGED vars) => IInv'
<1> SUFFICES ASSUME IInv, EditCorpus \/ RepositoryMoves \/ UNCHANGED vars PROVE IInv'
  OBVIOUS
<1>1. UNCHANGED <<clones, preview, tasks, focused, specs, plan, sure>>
  BY DEF EditCorpus, RepositoryMoves, vars
<1>2. TypeOK'
  <2>1. CASE EditCorpus
    BY <1>1, <2>1, HappensHolds DEF IInv, TypeOK, EditCorpus
  <2>2. CASE RepositoryMoves
    <3>1. heads' \in [Urls -> Revisions]
      BY <2>2 DEF IInv, TypeOK, RepositoryMoves
    <3> QED BY <1>1, <2>2, <3>1, HappensHolds DEF IInv, TypeOK, RepositoryMoves
  <2>3. CASE UNCHANGED vars
    BY <2>3 DEF IInv, TypeOK, vars
  <2> QED BY <2>1, <2>2, <2>3
<1>3. CompletedHasRevision' /\ ManifestAtHome' /\ SureIsReady'
  BY <1>1 DEF IInv, CompletedHasRevision, ManifestAtHome, SureIsReady, CheckoutThere, Whole
<1>4. CASE EditCorpus
  <2>1. chain' = "broken"
    BY <1>4 DEF EditCorpus
  <2>2. PreviewDescribesClones' /\ MadeIsThere' /\ FocusIsCurrent' /\ OrderedPlansRun'
    BY <2>1 DEF PreviewDescribesClones, MadeIsThere, FocusIsCurrent, OrderedPlansRun
  <2> QED BY <1>2, <1>3, <2>2 DEF IInv
<1>5. CASE RepositoryMoves \/ UNCHANGED vars
  <2>1. UNCHANGED <<corpus, made, chain>>
    BY <1>5 DEF RepositoryMoves, vars
  <2>2. Unambiguous(corpus)' <=> Unambiguous(corpus)
    BY <2>1 DEF Unambiguous, EntryStatus, Duplicates
  <2>3. PreviewDescribesClones'
    BY <1>1, <2>1, <2>2 DEF IInv, PreviewDescribesClones
  <2>4. MadeIsThere'
    BY <1>1, <2>1, <2>2 DEF IInv, MadeIsThere
  <2>5. TaskDirs' = TaskDirs /\ \A d : FocusRow(d)' = FocusRow(d)
    BY <1>1 DEF TaskDirs, FocusRow, Focus, Whole, CheckoutThere, FileThere
  <2>6. FocusIsCurrent'
    BY <1>1, <2>1, <2>5 DEF IInv, FocusIsCurrent
  <2>7. OrderedPlansRun'
    BY <1>1, <2>1 DEF IInv, OrderedPlansRun, Unambiguous, EntryStatus, MadeDirs, FileThere
  <2> QED BY <1>2, <1>3, <2>3, <2>4, <2>6, <2>7 DEF IInv
<1> QED BY <1>4, <1>5

LEMMA Invariance == Spec => []IInv
<1>1. IInv /\ [Next]_vars => IInv'
  BY PreviewKeeps, MaterializeKeeps, FocusKeeps, PlanKeeps, ReviewKeeps, ValidateKeeps,
     OutsideKeeps DEF Next
<1> QED BY InitKeeps, <1>1, PTL DEF Spec

-----------------------------------------------------------------------------

\* Every file that the commands of issue_corpus write has the rows that its readers
\* expect, through every order of commands, edits and killed runs.
THEOREM TypeCorrect == Spec => []TypeOK
<1>1. IInv => TypeOK
  BY DEF IInv
<1> QED BY <1>1, Invariance, PTL

\* materialize-issue-corpus-tasks, run after the preview of an unambiguous corpus:
\* each manifest that it says it wrote names the revision that its checkout holds,
\* and is invalid only where retrieval found nothing.
THEOREM ManifestsDescribe == Spec => []ManifestsDescribeCheckouts
<1>1. ASSUME IInv PROVE ManifestsDescribeCheckouts
  <2> SUFFICES ASSUME chain \in {"made", "focused", "planned"}, Unambiguous(corpus),
                      NEW j \in DOMAIN made, made[j].status = "materialized"
               PROVE  /\ TasksReport[made[j].dir] = "valid" <=>
                            tasks[made[j].dir].revision \in Retrieved
                      /\ ReadinessReport[made[j].dir] = "ready"
                      /\ HostsReport[tasks[made[j].dir].repository] = tasks[made[j].dir].url
                      /\ clones[tasks[made[j].dir].dir] =
                            [url |-> tasks[made[j].dir].url, revision |-> tasks[made[j].dir].revision]
                      /\ tasks[made[j].dir].id = made[j].id
    BY DEF ManifestsDescribeCheckouts, MadeDirs
  <2> DEFINE d == made[j].dir
  <2>1. /\ j \in DOMAIN corpus /\ made[j].id = corpus[j].id
        /\ d \in Dirs /\ Whole(d) /\ CheckoutThere(d)
        /\ tasks[d].id = corpus[j].id /\ tasks[d].repository = corpus[j].repository
        /\ tasks[d].url = corpus[j].url
        /\ clones[tasks[d].dir] = [url |-> tasks[d].url, revision |-> tasks[d].revision]
    BY <1>1, MadeHolds
  <2>2. corpus \in Seq(Entry)
    BY <1>1, CorpusAssumption DEF IInv, TypeOK
  <2> HIDE DEF d
  <2>3. d \in TaskDirs
    BY <2>1 DEF TaskDirs, Whole
  <2>4. /\ TasksReport[d] = "valid" <=> tasks[d].revision \in Retrieved
        /\ ReadinessReport[d] = "ready"
    BY <2>1, <2>3 DEF TasksReport, ReadinessReport, TaskStatus, RunReadiness
  <2>5. HostsReport[corpus[j].repository] = corpus[j].url
    <3> DEFINE r == corpus[j].repository
               of == {i \in DOMAIN corpus : corpus[i].repository = r}
    <3>1. of \in SUBSET (1..Len(corpus)) /\ Len(corpus) \in Nat /\ j \in of
      BY <2>1, <2>2
    <3>2. Max(of) \in of
      <4> HIDE DEF of
      <4> QED BY <3>1, MaxHolds
    <3>3. r \in {e.repository : e \in ToSet(corpus)}
      <4>1. corpus[j] \in ToSet(corpus)
        BY <2>1 DEF ToSet
      <4> QED BY <4>1
    <3>4. HostsReport[r] = corpus[Max(of)].url
      BY <3>3 DEF HostsReport, PreflightUrl
    <3> DEFINE k == Max(of)
    <3>5. k \in DOMAIN corpus /\ corpus[k].repository = r
      BY <3>2
    <3> HIDE DEF k
    <3>6. corpus[k].url = corpus[j].url
      BY <2>1, <3>5 DEF Unambiguous
    <3> QED BY <3>4, <3>6 DEF k
  <2> QED BY <2>1, <2>4, <2>5 DEF d
<1> QED BY <1>1, Invariance, PTL

\* plan-public-issue-reproductions, run after the commands before it: every task has
\* its reviewed command or a focused one that its checkout can run, and is blocked
\* exactly when the command policy refuses that.
THEOREM PlansRun == Spec => []OrderedPlansRun
<1>1. IInv => OrderedPlansRun
  BY DEF IInv
<1> QED BY <1>1, Invariance, PTL

\* validate-public-issue-specs says ready of no task that plans and discovery with
\* the same specs would not run.
THEOREM ReadySpecsAreRun == Spec => []ReadySpecsRun
<1>1. ASSUME IInv PROVE ReadySpecsRun
  <2> SUFFICES ASSUME NEW d \in Dirs, sure[d] = "planned"
               PROVE  /\ plan[d].status = "planned" /\ plan[d].source = "spec"
                      /\ \A dry \in BOOLEAN : Discovery(dry)[d] # "blocked"
    BY DEF ReadySpecsRun
  <2>1. /\ CheckoutThere(d) /\ d \in DOMAIN plan
        /\ plan[d].status = "planned" /\ plan[d].source = "spec" /\ plan[d].dir = tasks[d].dir
    BY <1>1 DEF IInv, SureIsReady
  <2>2. Whole(d) /\ clones[tasks[d].dir] # NoFile
    BY <2>1 DEF CheckoutThere
  <2>3. tasks[d] \in Manifest
    BY <1>1, <2>2 DEF IInv, TypeOK, Whole
  <2>4. tasks[d].dir # NoFile
    BY <2>3, MarkerAssumption DEF Manifest
  <2>5. \A dry \in BOOLEAN : Found(plan[d], dry) # "blocked"
    BY <2>1, <2>2, <2>4 DEF Found
  <2> QED BY <2>1, <2>5 DEF Discovery
<1> QED BY <1>1, Invariance, PTL
=============================================================================
