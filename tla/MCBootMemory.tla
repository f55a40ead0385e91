--------------------------- MODULE MCBootMemory ---------------------------
(***************************************************************************)
(* The image of the sample log, larger ones at the same place up to the    *)
(* IDT and past it, and images at and above the place const.inc gives a    *)
(* kernel of 32k or more.                                                  *)
(***************************************************************************)
EXTENDS BootMemory

MCImages == {[addr |-> \h8000, size |-> n] : n \in {\h5900, \h7800, \h8000, \h18000}}
       \cup {[addr |-> \h10000, size |-> \h9000], [addr |-> \h20000, size |-> \h9000]}

MCStackDepths == {\h10, \h60}

MCHllBase == \h200000
MCHllSize == \h10000
MCKernelDepth == \h1000
MCRecordSize == \h1A0
MCDebugBuffer == \h480

ASSUME MCPlacesAssumption == PlacedAsDesigned
=============================================================================
