---------------------------- MODULE MCIssueCorpus ----------------------------
(* A small instance of IssueCorpus for TLC. *)
EXTENDS IssueCorpus, TLC

Issue(id, repository, url) == [id |-> id, repository |-> repository, url |-> url, sound |-> TRUE]

\* An issue, and the same issue in another repository next to a second one.
SomeCorpora ==
    {<<Issue("a", "o/r", "u")>>,
     <<Issue("a", "o/s", "v"), Issue("b_c", "o/s", "v")>>}

SomeDirs == "a" :> "a" @@ "b_c" :> "b_c" @@ "o/r" :> "o_r" @@ "o/s" :> "o_s"

SomeSpecs == {[command |-> "refused", signals |-> TRUE]}

\* A revision with a test file, one whose test file the policy refuses, and one in
\* which retrieval finds nothing.
SomeTestFiles == <<"tests/test_one.py", "tests/test_docker.py", NoFile>>
=============================================================================
