-------------------------- MODULE MCDeliveryQueue ---------------------------
(***************************************************************************)
(* A small instance of DeliveryQueue: one message with all the options a   *)
(* call may have, and two recoveries at once.                              *)
(***************************************************************************)
EXTENDS DeliveryQueue

CONSTANTS d1, r1, r2

First == {d1}
TwoRecoveries == {r1, r2}

=============================================================================
