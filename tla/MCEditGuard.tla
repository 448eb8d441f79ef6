----------------------------- MODULE MCEditGuard -----------------------------
EXTENDS EditGuard

L(in, is) == Line(in, is, IF is \in {"import", "bind", "use"} THEN "x" ELSE "")
Fn(in, name) == Line(in, "def", name)
Ones(kinds) == {<<L(in, is)>> : in \in 0..1, is \in kinds}

\* Files of up to three pieces.
Files(pieces) ==
    {f \in {a \o b \o c : <<a, b, c>> \in pieces \X (pieces \cup {<<>>}) \X (pieces \cup {<<>>})} :
        Len(f) <= 5 /\ Sound(f)}
Family(pieces, words) == [file : Files(pieces), texts : {words}]

Functions ==
    Family({<<L(0, "import")>>, <<L(0, "use")>>, <<Fn(0, "x"), L(1, "pass")>>,
            <<Fn(0, "f"), L(1, "use")>>, <<Fn(0, "f"), L(1, "import"), L(1, "pass")>>},
           Ones({"import", "bind", "use", "pass"})
              \cup {<<Fn(0, "x"), L(1, "pass")>>, <<Fn(0, "f"), L(1, "use")>>,
                    <<L(0, "import"), L(0, "import")>>})
Branches ==
    Family({<<L(0, "bind")>>, <<Fn(0, "f"), L(1, "use")>>,
            <<L(0, "if"), L(1, "bind"), L(0, "else"), L(1, "bind")>>,
            <<L(0, "if"), L(1, "bind")>>,
            <<L(0, "try"), L(1, "import"), L(0, "except"), L(1, "bind")>>},
           Ones({"bind", "use", "pass"})
              \cup {<<L(0, "if"), L(1, "bind")>>, <<L(0, "else"), L(1, "bind")>>,
                    <<L(0, "if"), Fn(1, "f"), L(2, "use")>>})
Notes ==
    [file : {<<L(0, "bind"), Fn(0, "f"), L(1, "note"), L(1, "use")>>,
             <<L(0, "note"), L(0, "import"), Fn(0, "f"), L(1, "use"), L(0, "blank")>>},
     texts : {Ones({"bind", "use", "note", "blank"})}]
\* Imports and functions below an if or a try, and after the use of a function.
Nested ==
    Family({<<L(0, "if"), L(1, "import"), L(1, "pass")>>,
            <<L(0, "if"), Fn(1, "x"), L(2, "pass"), L(1, "pass")>>,
            <<L(0, "try"), L(1, "import"), L(1, "pass"), L(0, "except"), L(1, "import")>>,
            <<Fn(0, "f"), L(1, "if"), L(2, "import"), L(2, "pass")>>,
            <<Fn(0, "f"), Fn(1, "g"), L(2, "pass"), L(1, "import")>>,
            <<L(0, "pass")>>},
           Ones({"use", "pass", "import"}))
MCSources == Functions \cup Branches \cup Nested \cup Notes
=============================================================================
