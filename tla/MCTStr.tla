------------------------------- MODULE MCTStr -------------------------------
(***************************************************************************)
(* A buffer of five characters with old contents, and behind it the       *)
(* strings "", "aB", "Ab", "[" and one of a character above 127, which is  *)
(* a negative char.  An int has 256 values.                                *)
(***************************************************************************)
EXTENDS TStr

MCRoom == 5

MCText == [k \in 1..MCRoom |-> 63] \o <<0, 97, 66, 0, 65, 98, 0, 91, 0, -23, 0>>

MCMemory  == [a \in 0..Len(MCText)-1 |-> MCText[a + 1]]
MCSources == {5, 6, 9, 12, 14}
MCCounts  == {0, 1, 255}
MCNumbers == {0, 7, 35, -5}
MCWidths  == {0, 3}
MCRadixes == {1, 8, 10, 36}
=============================================================================
