----------------------------- MODULE MCHistory -----------------------------
(* Two versions; the first was released inside a period of two commits, the *)
(* second in a period of its own.                                           *)
EXTENDS History

TwoVersions == {1, 2}
BornAt == <<1, 3>>
LacksOne == {{}, {1}}
TwoPeriods == << <<1, 2>>, <<3, 3>> >>
=============================================================================
