-------------------------- MODULE MCFollowupQueue ---------------------------
(***************************************************************************)
(* A small instance of FollowupQueue: four messages, two of them the same  *)
(* provider message delivered twice, of two origins and of none; a queue   *)
(* of at most one or two messages.                                         *)
(***************************************************************************)
EXTENDS FollowupQueue, TLC

CONSTANTS m1, m2, m3, m4, idA, idB, none, here, there, nowhere

MCMsgs == {m1, m2, m3, m4}
MCMessageId == (m1 :> idA) @@ (m2 :> idB) @@ (m3 :> idB) @@ (m4 :> none)
MCRoute == (m1 :> nowhere) @@ (m2 :> here) @@ (m3 :> here) @@ (m4 :> there)
Cross == {there}

With(m, c, d) == [mode |-> m, cap |-> c, drop |-> d]
EachPolicy == {With("followup", 1, "new"), With("collect", 2, "old"),
               With("followup", 2, "summarize"), With("collect", 2, "summarize")}
Two == {1, 2}

=============================================================================
