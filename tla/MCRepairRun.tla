---------------------------- MODULE MCRepairRun -----------------------------
(***************************************************************************)
(* RepairRun for TLC: up to two retries on any repository with a cap that  *)
(* leaves nothing to spend or none, and one retry under caps it may reach, *)
(* in units of the reserve.                                                *)
(***************************************************************************)
EXTENDS RepairRun

AllRepos == {"plain", "git", "dirty"}
SomeCaps == {NoCap, 0, 3}

SomeRequests ==
    {r \in Request :
        \/ \A c \in Resource : r.cap[c] # 3
        \/ /\ \A c \in Resource : r.cap[c] # 0
           /\ r.deepagents /\ r.command /\ ~r.docker
           /\ r.repo = "git" /\ r.max_retries = 1}
=============================================================================
