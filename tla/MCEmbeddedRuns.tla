--------------------------- MODULE MCEmbeddedRuns ----------------------------
(***************************************************************************)
(* Small instances of EmbeddedRuns: two turns and a compaction of one      *)
(* session, or a turn and a compaction there and a compaction of another   *)
(* session, all in one global lane.                                        *)
(***************************************************************************)
EXTENDS EmbeddedRuns, TLC

CONSTANTS s1, s2, turn1, turn2, compaction, other, main, none

MCRuns == {turn1, turn2, compaction, other}
MCCompactions == {compaction, other}
MCSessions == {s1, s2}
MCSessionOf == [r \in MCRuns |-> IF r = other THEN s2 ELSE s1]
InMain == [r \in MCRuns |-> main]
OneOrTwoSessions == {{turn1, turn2, compaction}, {turn1, compaction, other}}
First == {s1}

TwoTurns == {turn1, turn2}
BothTurns == {TwoTurns}
OneSession == {s1}
AllInS1 == [r \in TwoTurns |-> s1]
None == {}

=============================================================================
