---------------------------- MODULE MCIssueRepair ----------------------------
(* A small instance of IssueRepair for TLC: two tasks of a corpus. *)
EXTENDS IssueRepair, TLC

CONSTANTS t1, t2, c1, c2

\* The second task is not ready: no spec, and a setup with a warning.
SomeReviewed == {(t1 :> c1 @@ t2 :> NoSpec)}
SomeBegun == {(t1 :> "clean" @@ t2 :> "warning")}

SomePrefixes == {{t1}, {t1, t2}}

Batch(tasks, repeats, retries, stop, capped, dry, accept) ==
    [tasks |-> tasks, repeats |-> repeats, retries |-> retries, stop |-> stop,
     capped |-> capped, dry |-> dry, accept |-> accept]

\* One careful batch, one dear one that may not fit the cap, one of everything
\* that stops at the first success, and a dry run.
SomeBatches ==
    {Batch({t1, t2}, 1, 0, FALSE, FALSE, FALSE, FALSE),
     Batch({t1, t2}, 2, 1, TRUE, TRUE, FALSE, TRUE),
     Batch({t1}, 2, 1, FALSE, TRUE, FALSE, TRUE),
     Batch({t1, t2}, 1, 0, FALSE, FALSE, TRUE, TRUE)}
=============================================================================
