---------------------------- MODULE MCSortedSet ----------------------------
(***************************************************************************)
(* SortedSet for TLC: a few members under two or three scores, with towers *)
(* of up to two or three levels.                                           *)
(***************************************************************************)
EXTENDS SortedSet

ThreeMembers == 1 .. 3
TwoScores    == {0, 1}
=============================================================================
