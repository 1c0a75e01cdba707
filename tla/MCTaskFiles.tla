----------------------------- MODULE MCTaskFiles ----------------------------
(***************************************************************************)
(* A small instance of TaskFiles: one task between two tool calls, between *)
(* a call, the checks and a crash, and between two chains of checks.       *)
(***************************************************************************)
EXTENDS TaskFiles

CONSTANTS t1, c1, c2

OneTask == {t1}
TwoCalls == {c1, c2}
TwoChains == {1, 2}
AllOps == {"update", "complete", "cancel", "approve", "block", "resume", "pick", "delegate"}
MCScenarios ==
  {[ops |-> AllOps, calls |-> 2, chains |-> 0, crashes |-> 0, found |-> {"none"}],
   [ops |-> AllOps \ {"update"}, calls |-> 1, chains |-> 1, crashes |-> 1, found |-> {"none"}],
   [ops |-> {}, calls |-> 0, chains |-> 2, crashes |-> 0, found |-> {"blocked"}]}

=============================================================================
