--------------------------- MODULE MCStreakLedger ---------------------------
(***************************************************************************)
(* TLC instances of StreakLedger. The constants' values are in the .cfg    *)
(* files; the sets that a .cfg cannot write are defined here.              *)
(***************************************************************************)
EXTENDS StreakLedger

HomeOffsets == {0}
\* East to west crosses one midnight or two (the real extreme is 25 hours).
TravelOffsets == {0, 3}
NoOutages == {}
TwoOutages == {1, 2}

=============================================================================
