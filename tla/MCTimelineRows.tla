-------------------------- MODULE MCTimelineRows ---------------------------
(* Model-checking instance of TimelineRows.                                 *)
EXTENDS TimelineRows

Clock == 0..3
SomeHeights == {0, 2}
=============================================================================
