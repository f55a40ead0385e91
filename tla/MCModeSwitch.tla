--------------------------- MODULE MCModeSwitch ---------------------------
(***************************************************************************)
(* The timer (0), the last primary line (7), the first secondary line (8)  *)
(* and the last one (15), the two of them that can also come out spurious. *)
(***************************************************************************)
EXTENDS ModeSwitch

MCIrq == {0, 7, 8, 15}
MCGlitchy == {7, 15}
\* pic.cpp:37 and 39: the masks B8h and 8Fh that the BIOS leaves.
MCBiosMask == {3, 4, 5, 7} \cup {8, 9, 10, 11, 15}
\* Vectors that acknowledge everything they get, and vectors that do nothing.
MCIvtEoi == {0..15, {}}
=============================================================================
