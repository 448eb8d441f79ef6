------------------------- MODULE MCEvidenceRefresh --------------------------
\* EvidenceRefresh for TLC, around a machine where everything is in order.
EXTENDS EvidenceRefresh

Good == [docker |-> "works", tests |-> TRUE, clean |-> TRUE,
         kinds |-> {"retrieval", "repair", "patch_search"}, agents |-> TRUE,
         failures |-> TRUE, live |-> "configured", issues |-> "ready", focus |-> "ready"]

\* In order, and with one thing amiss.
SomeWorlds == {Good} \cup {[Good EXCEPT !.docker = "broken"],
                           [Good EXCEPT !.tests = FALSE],
                           [Good EXCEPT !.clean = FALSE],
                           [Good EXCEPT !.kinds = @ \ {"retrieval"}, !.agents = FALSE],
                           [Good EXCEPT !.live = "none"],
                           [Good EXCEPT !.live = "runs"],
                           [Good EXCEPT !.failures = FALSE],
                           [Good EXCEPT !.issues = "none", !.focus = "none"],
                           [Good EXCEPT !.focus = "none"],
                           [Good EXCEPT !.focus = "blocked"],
                           [Good EXCEPT !.focus = "warning"],
                           [Good EXCEPT !.issues = "blocked"],
                           [Good EXCEPT !.issues = "warning"]}

\* A day passes here over executed reproductions and executed attempts.
InOrder == {Good}
=============================================================================
