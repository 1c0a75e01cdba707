--------------------------- MODULE MCCommandQueue ---------------------------
(***************************************************************************)
(* A small instance of CommandQueue: a global lane "main" with three       *)
(* entries, whose limit changes, beside a session lane that stays idle.    *)
(***************************************************************************)
EXTENDS CommandQueue

CONSTANTS main, session, t1, t2, t3

MCLanes == {main, session}
MCTasks == {t1, t2, t3}
MCLaneOf == [t \in MCTasks |-> main]
MCRequests == {0, 1, 2}

=============================================================================
