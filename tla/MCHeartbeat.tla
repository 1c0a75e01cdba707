----------------------------- MODULE MCHeartbeat -----------------------------
(***************************************************************************)
(* A small instance of the heartbeat runners: two agents, wakes for every  *)
(* agent and for one of them.                                              *)
(***************************************************************************)
EXTENDS HeartbeatRunner

TwoAgents == <<"main", "ops">>
BothTargets == {"all", "main", "ops"}
SomeWishes == {<<"all", ActionReason>>, <<"main", DefaultReason>>}
===============================================================================
