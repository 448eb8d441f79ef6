------------------------------ MODULE EditGuard ------------------------------
(***************************************************************************)
(* The single write of a repair attempt: patching.py, the Python checks of *)
(* python_patch_safety.py and their caller _apply_plan in runtime/core.py. *)
(*                                                                         *)
(* A source file is a sequence of lines, a line its indentation, what it   *)
(* is and the name it is about.  The guard works, as the code does, on the *)
(* statements these lines make up and on line spans; what an edit does to  *)
(* the program is defined by its executions, which the guard does not see. *)
(***************************************************************************)
EXTENDS Integers, Sequences, FiniteSets, SequencesExt, FiniteSetsExt

CONSTANT Sources    \* files with the texts a planner knows for each

VARIABLES
    clean,          \* the target file of the run's baseline
    texts,          \* texts a planner may give for it, besides its own lines
    file,           \* the target file in the checkout
    edit            \* what became of the attempt's edit

vars == <<clean, texts, file, edit>>

-----------------------------------------------------------------------------
(* Lines and statements.                                                   *)

\* A line is one of these headers, or an import, a bind or a use of a name, a
\* pass, a note or blank.
Clause == {"else", "except"}
Header == {"def", "if", "try"} \cup Clause

Line(in, is, name) == [in |-> in, is |-> is, name |-> name]
Indent(l, by) == [l EXCEPT !.in = @ + by]

\* The lines that are code, and those that begin a statement.
Code(f) == {i \in DOMAIN f : f[i].is \notin {"note", "blank"}}
Statements(f) == {i \in Code(f) : f[i].is \notin Clause}

Deeper(f, i) ==
    {j \in Code(f) : j > i /\ \A k \in Code(f) \cap (i + 1)..j : f[k].in > f[i].in}
Suite(f, i) == {j \in Deeper(f, i) \cap Statements(f) : f[j].in = f[Min(Deeper(f, i))].in}

\* The clause after the block of i, 0 if there is none, and the header a
\* clause belongs to.
ClauseOf(f, i) ==
    LET after == {j \in Code(f) : j > i /\ j \notin Deeper(f, i)} IN
    IF after # {} /\ f[Min(after)].in = f[i].in /\ f[Min(after)].is \in Clause
    THEN Min(after) ELSE 0
OwnerOf(f, j) == CHOOSE i \in Statements(f) : ClauseOf(f, i) = j

Extent(f, i) ==
    {i} \cup Deeper(f, i)
        \cup IF f[i].is \in {"if", "try"} /\ ClauseOf(f, i) # 0
             THEN {ClauseOf(f, i)} \cup Deeper(f, ClauseOf(f, i)) ELSE {}

Top(f) == {i \in Statements(f) : f[i].in = 0}

Compiles(f) ==
    /\ \A i \in Code(f) :
          LET before == {j \in Code(f) : j < i} IN
          IF before = {} THEN f[i].in = 0
          ELSE LET p == f[Max(before)] IN
               IF p.is \in Header THEN f[i].in > p.in
               ELSE \E j \in before : /\ f[j].in = f[i].in
                                      /\ \A k \in before : k > j => f[k].in >= f[i].in
    /\ Code(f) # {} => f[Max(Code(f))].is \notin Header
    /\ \A j \in Code(f) : f[j].is \in Clause =>
          \E i \in Statements(f) :
             ClauseOf(f, i) = j /\ f[i].is = IF f[j].is = "else" THEN "if" ELSE "try"
    /\ \A i \in Code(f) : f[i].is = "try" => ClauseOf(f, i) # 0
-----------------------------------------------------------------------------
(* The names the guard sees.                                               *)

NamesAt(f, lines, kinds) == {f[i].name : i \in {j \in lines : f[j].is \in kinds}}
Loads(f, lines) == NamesAt(f, lines, {"use"})
Stores(f, lines) == NamesAt(f, lines, {"bind"})

\* Stores anywhere below a node; a def or an import adds its own name.
NodeNames(f, i) ==
    Stores(f, Extent(f, i)) \cup NamesAt(f, {i}, {"def", "import"})

\* Mutant: a name bound in one branch counts as bound.
BindsSomewhere(f) == [i \in DOMAIN f |-> NodeNames(f, i)]

\* What a statement binds: an if only what both branches bind, any other
\* compound statement all that is stored in it.
Binds(f) ==
    LET B[i \in DOMAIN f] ==
            LET suite(h) == UNION {B[j] : j \in Suite(f, h)} IN
            CASE f[i].is \in {"def", "import"} -> {f[i].name}
              [] f[i].is = "if" -> IF ClauseOf(f, i) = 0 THEN {}
                                   ELSE suite(i) \cap suite(ClauseOf(f, i))
              [] OTHER -> Stores(f, Extent(f, i))
    IN  B

ModuleNames(f) == UNION {Binds(f)[i] : i \in Top(f)}

Span(from, lines) == [from |-> from, to |-> from + lines]
Overlaps(f, i, span) == i <= span.to /\ Max(Extent(f, i)) >= span.from
Within(f, span) == {i \in DOMAIN f : i \in span.from..span.to}

\* Mutant: what a function bound before the replacement is not available.
ModuleOnly(f, span) == ModuleNames(f)

\* Names visible at the replacement: those of the module, and those that the
\* functions around it bind above it.
Available(f, span) ==
    ModuleNames(f) \cup
    UNION {UNION {Binds(f)[j] : j \in {k \in Suite(f, d) : k < span.from}} :
              d \in {i \in Statements(f) : /\ f[i].is = "def"
                                           /\ span.from \in i..Max(Extent(f, i))}}

BoundInReplacement(f, span) ==
    UNION {NodeNames(f, i) : i \in {j \in Statements(f) : Overlaps(f, j, span)}}

Introduced(after, span) ==
    (Loads(after, Within(after, span)) \ Available(after, span))
        \ BoundInReplacement(after, span)

\* Imports and other module names the removed span bound, that nothing binds
\* any more and something still loads.
Removed(before, after, span) ==
    UNION {Binds(before)[i] : i \in {j \in Top(before) : Overlaps(before, j, span)}}
        \cap (Loads(after, DOMAIN after) \ ModuleNames(after))

TopImports(f, span, overlapping) ==
    {f[i].name : i \in {j \in Top(f) : /\ f[j].is = "import"
                                       /\ Overlaps(f, j, span) = overlapping}}
Duplicated(before, removed, after, added) ==
    (TopImports(after, added, TRUE) \ TopImports(before, removed, TRUE))
        \cap TopImports(after, added, FALSE)

-----------------------------------------------------------------------------
(* Lines kept by a diff.                                                    *)

Alignments(old, new) ==
    {m \in SUBSET {p \in (DOMAIN old) \X (DOMAIN new) : old[p[1]] = new[p[2]]} :
        \A p, q \in m : p # q => (p[1] < q[1] <=> p[2] < q[2]) /\ p[1] # q[1] /\ p[2] # q[2]}
Aligned(old, new) ==
    CHOOSE m \in Alignments(old, new) :
        \A n \in Alignments(old, new) : Cardinality(n) <= Cardinality(m)
Lines(s, at) == [k \in 1..Cardinality(at) |->
                    s[CHOOSE i \in at : Cardinality({j \in at : j <= i}) = k]]

DiffRemoved(old, new) == Lines(old, DOMAIN old \ {p[1] : p \in Aligned(old, new)})
DiffAdded(old, new) == Lines(new, DOMAIN new \ {p[2] : p \in Aligned(old, new)})

-----------------------------------------------------------------------------
(* The edit.                                                               *)

\* A plan's old text matches at a when its first line is the end of line a,
\* as the text may leave out indentation, and its other lines are equal.
MatchesAt(f, old, a) ==
    /\ a + Len(old) - 1 <= Len(f)
    /\ f[a].in >= old[1].in /\ Indent(old[1], f[a].in - old[1].in) = f[a]
    /\ \A k \in 2..Len(old) : f[a + k - 1] = old[k]
Matches(f, old) == {a \in DOMAIN f : MatchesAt(f, old, a)}

\* Where a plan's old text is replaced, and whether what it replaces ends
\* with the end of a line: at its first occurrence, or instead of the lines
\* of a window that is similar.
Exact(f, plan) ==
    {[at |-> Min(Matches(f, plan.old)), lines |-> Len(plan.old), tail |-> plan.tail,
      by |-> f[Min(Matches(f, plan.old))].in - plan.old[1].in]}
Nearest(f, plan) ==
    {[at |-> a, lines |-> n, tail |-> FALSE, by |-> 0] :
        a \in DOMAIN f, n \in (Len(plan.old) - 2)..(Len(plan.old) + 2)}
Places(f, plan) ==
    IF Matches(f, plan.old) # {} THEN Exact(f, plan)
    ELSE {p \in Nearest(f, plan) : p.lines >= 1 /\ p.at + p.lines - 1 <= Len(f)}

Blank == Line(0, "blank", "")
\* Where the end of the last line stays, an empty line is left by a deletion and
\* by a text with a line end of its own.
Inserted(plan, place) ==
    LET text == IF plan.new = <<>> THEN <<>>
                ELSE <<Indent(plan.new[1], place.by)>> \o Tail(plan.new)
    IN  text \o IF ~place.tail /\ (plan.new = <<>> \/ plan.tail) THEN <<Blank>> ELSE <<>>
Result(f, plan, place) ==
    SubSeq(f, 1, place.at - 1) \o Inserted(plan, place)
        \o SubSeq(f, place.at + place.lines, Len(f))

RemovedSpan(place) ==
    Span(place.at, place.lines - 1 + IF place.tail THEN 1 ELSE 0)
AddedSpan(plan, place) ==
    Span(place.at, Len(plan.new) - 1 + IF plan.tail THEN 1 ELSE 0)

ImportOnly(plan) ==
    LET changed == ToSet(DiffRemoved(plan.old, plan.new)) \cup ToSet(DiffAdded(plan.old, plan.new))
        telling == {l \in changed : l.is # "blank"}
    IN  telling # {} /\ \A l \in telling : l.is = "import"

\* The tokens of a file, in which neither comments nor indentation count (the
\* code compares none of a file that has no tokens, which does not compile).
Tokens(f) == [k \in DOMAIN Lines(f, Code(f)) |->
                [Lines(f, Code(f))[k] EXCEPT !.in = 0]]
Cosmetic(before, after) == before = after \/ Tokens(before) = Tokens(after)

\* The old text ends on a header whose body it leaves behind, and the new
\* text does not.
Dangling(plan) ==
    LET telling(s) == {i \in DOMAIN s : s[i].is # "blank"} IN
    /\ telling(plan.new) # {}
    /\ plan.old[Max(telling(plan.old))].is \in Header
    /\ plan.new[Max(telling(plan.new))].is \notin Header

Missing(f, plan, place) ==
    LET after == Result(f, plan, place) IN
    Removed(f, after, RemovedSpan(place)) \cup
    IF plan.new = <<>> THEN {} ELSE Introduced(after, AddedSpan(plan, place))

Verdict(f, plan, place) ==
    LET after == Result(f, plan, place) IN
    IF Cosmetic(f, after) THEN "cosmetic"
    ELSE IF Dangling(plan) THEN "dangling"
    ELSE IF ~Compiles(after) THEN "syntax"
    ELSE IF Missing(f, plan, place) # {} THEN "unbound"
    ELSE IF plan.new # <<>> /\ Duplicated(f, RemovedSpan(place), after, AddedSpan(plan, place)) # {}
         THEN "duplicate"
    ELSE "applied"

-----------------------------------------------------------------------------
(* What a planner may ask for: a replacement of some lines it was shown,   *)
(* with or without the indentation of the first and the end of the last,   *)
(* or of lines that are not there.                                         *)

Outdented(s) == {<<Indent(s[1], -by)>> \o Tail(s) : by \in 0..s[1].in}
Shown(f) ==
    UNION {Outdented(SubSeq(f, a, b)) : <<a, b>> \in
              {p \in (DOMAIN f) \X (DOMAIN f) : p[1] <= p[2] /\ p[2] < p[1] + 3}}
Plans ==
    {p \in [old : Shown(clean) \cup texts, new : texts \cup {<<>>}, tail : BOOLEAN] :
        (\E i \in DOMAIN p.old : p.old[i].is # "blank") /\ p.new # p.old}

NoEdit == [verdict |-> "none"]

\* One attempt: _apply_plan on the clean file, its refusals in their order.
\* The result is kept even where it was refused.
Attempt ==
    /\ edit = NoEdit
    /\ \E plan \in Plans, importFailure \in BOOLEAN :
          \/ /\ ImportOnly(plan) /\ ~importFailure
             /\ edit' = [verdict |-> "import_only"]
             /\ UNCHANGED file
          \/ /\ ImportOnly(plan) => importFailure
             /\ Matches(clean, plan.old) = {}
             /\ edit' = [verdict |-> "not_found"]
             /\ UNCHANGED file
          \/ /\ ImportOnly(plan) => importFailure
             /\ \E place \in Places(clean, plan) :
                   /\ edit' = [verdict |-> Verdict(clean, plan, place),
                               result |-> Result(clean, plan, place),
                               missing |-> Missing(clean, plan, place),
                               span |-> AddedSpan(plan, place)]
                   /\ file' = IF edit'.verdict = "applied" THEN edit'.result ELSE clean
    /\ UNCHANGED <<clean, texts>>

\* The next attempt starts from the baseline again.
Restore ==
    /\ edit # NoEdit
    /\ file' = clean
    /\ edit' = NoEdit
    /\ UNCHANGED <<clean, texts>>

Init ==
    /\ \E s \in Sources : clean = s.file /\ texts = s.texts
    /\ file = clean
    /\ edit = NoEdit

Next == Attempt \/ Restore
Spec == Init /\ [][Next]_vars

-----------------------------------------------------------------------------
(* What an execution of the program does, whatever the guard thinks of it. *)
(* A choice says for every if whether it is taken and for every try        *)
(* whether its body runs to its end; the clause runs otherwise.            *)

Branchings(f) == [{i \in Statements(f) : f[i].is \in {"if", "try"}} -> BOOLEAN]
Above(f, i) == {h \in Code(f) : i \in Deeper(f, h)}
ScopeOf(f, i) == LET ds == {d \in Above(f, i) : f[d].is = "def"}
                 IN  IF ds = {} THEN 0 ELSE Max(ds)
Runs(f, c, i) ==
    \A h \in Above(f, i) :
       CASE f[h].is \in {"if", "try"} -> c[h]
         [] f[h].is \in Clause -> ~c[OwnerOf(f, h)]
         [] OTHER -> TRUE

Binders(f, name, scope) ==
    {i \in Code(f) : /\ f[i].is \in {"import", "bind", "def"} /\ f[i].name = name
                     /\ ScopeOf(f, i) = scope}

\* A load finds a binding of its own scope that ran before it, or, when its
\* scope binds no such name, whatever the scopes around it ever bind.
Finds(f, c, i) ==
    LET scope == ScopeOf(f, i)
        around == {0} \cup {d \in Above(f, i) : f[d].is = "def"}
        binding == {d \in around : Binders(f, f[i].name, d) # {}}
    IN  IF binding = {} THEN FALSE
        ELSE \E j \in Binders(f, f[i].name, Max(binding)) :
                Runs(f, c, j) /\ (Max(binding) = scope => j < i)

Dangles(f) ==
    {i \in Code(f) : /\ f[i].is = "use"
                     /\ \E c \in Branchings(f) : Runs(f, c, i) /\ ~Finds(f, c, i)}
Sound(f) == Compiles(f) /\ Dangles(f) = {}

-----------------------------------------------------------------------------
(* Properties.                                                             *)

Bindings(f) == {i \in Code(f) : f[i].is \in {"import", "bind", "def"}}

\* A name that a function binds for itself, or that a try may not bind.
Private(f, name) ==
    \E i \in Bindings(f) :
       f[i].name = name /\ (ScopeOf(f, i) # 0 \/ \E h \in Above(f, i) : f[h].is = "try")

\* Names a module binds whichever way it is executed.
AlwaysBound(f) ==
    {n \in {f[i].name : i \in Bindings(f)} :
        \A c \in Branchings(f) : \E i \in Binders(f, n, 0) : Runs(f, c, i)}

\* Names a module binds when it is executed in some ways, but not in all.
PartlyBound(f) == {n \in {f[i].name : i \in Bindings(f)} : Binders(f, n, 0) # {}} \ AlwaysBound(f)

\* An accepted edit of a sound file leaves no function loading a name that
\* some execution of the module does not bind (_raise_for_python_unbound_names).
\* Left out is what the check does not look at: the order of module code, names
\* that functions bind for themselves, a try that ends early, names that a
\* statement next to the replacement binds on some path only, and loads outside
\* of the replacement of a name that the file bound on some path only before.
AcceptedKeepsBound ==
    edit.verdict = "applied" /\ Sound(clean) =>
       \A i \in Dangles(file) :
          \/ ScopeOf(file, i) = 0
          \/ Private(clean, file[i].name) \/ Private(file, file[i].name)
          \/ file[i].name \in BoundInReplacement(file, edit.span)
          \/ file[i].name \in PartlyBound(clean) /\ i \notin Within(file, edit.span)

\* Imports and functions that the check does not see from a replacement: those
\* below an if or a try, and those further down in the functions around it.
Unseen(f, span) ==
    {i \in Code(f) :
        /\ f[i].is \in {"import", "def"}
        /\ \/ \E h \in Above(f, i) : h > ScopeOf(f, i)
           \/ ScopeOf(f, i) # 0 /\ i > span.to}

\* A correct edit is not refused for unbound names, unless it makes a name that
\* every execution bound one that only some do, or uses a name that is imported or
\* defined where the check, which looks for assignments there, does not see it.
CorrectEditsPass ==
    edit.verdict = "unbound" /\ Sound(clean) /\ Sound(edit.result) =>
       \A name \in edit.missing :
          \/ name \in AlwaysBound(clean) \ AlwaysBound(edit.result)
          \/ \E i \in Unseen(edit.result, edit.span) : edit.result[i].name = name
=============================================================================
