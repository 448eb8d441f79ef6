---------------------------- MODULE MCIssueSetup -----------------------------
(* The instance of IssueSetup for TLC: one task, all options. *)
EXTENDS IssueSetup
=============================================================================
