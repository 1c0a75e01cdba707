-------------------------- MODULE MCGatewayRunLoop --------------------------
(***************************************************************************)
(* Small instance of GatewayRunLoop: one session lane with two entries, up *)
(* to three signals and two in-process restarts.                           *)
(***************************************************************************)
EXTENDS GatewayRunLoop

CONSTANTS session, t1, t2

MCLanes == {session}
MCTasks == {t1, t2}
MCLaneOf == [t \in MCTasks |-> session]
AllModes == {"spawned", "disabled"}
NoRespawn == {"disabled"}

=============================================================================
