------------------------------ MODULE LogCursorMC --------------------------
(* The shared log cursor with interchangeable viewers.                       *)
EXTENDS LogCursor, TLC

Same == Permutations(Viewers)
=============================================================================
