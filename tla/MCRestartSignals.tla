-------------------------- MODULE MCRestartSignals --------------------------
(***************************************************************************)
(* A small instance of RestartSignals with one in-process restart: an idle *)
(* gateway with a scheduled restart and two changes of the configuration,  *)
(* or one with work, a scheduled restart and one change.                   *)
(***************************************************************************)
EXTENDS RestartSignals

CONSTANTS session, t1

MCLanes == {session}
OneTask == {t1}
MCLaneOf == [t \in Tasks |-> session]
InProcess == {"disabled"}
IdleOrBusy ==
  [mode : {"hybrid", "restart", "hot", "off"}, work : {FALSE}, requests : {1}, edits : {2}]
  \cup [mode : {"hybrid"}, work : {TRUE}, requests : {1}, edits : {1}]

=============================================================================
