---------------------------- MODULE MCRelocate ----------------------------
(***************************************************************************)
(* Images of one to three sections, aligned to eight bytes in memory and   *)
(* four in the file, the later ones possibly without data in the file.     *)
(***************************************************************************)
EXTENDS Relocate, SequencesExt

CONSTANT MCEntries

MCBase == 32
MCHeader == 4

\* The file data of a section follow those of the sections before it.
MCSections(raw) ==
    [n \in DOMAIN raw |->
        [address   |-> 8 * n,
         rawSize   |-> raw[n],
         rawOffset |-> IF raw[n] = 0 THEN 0
                       ELSE MCHeader + FoldLeft(+, 0, SubSeq(raw, 1, n - 1))]]

MCRaw == {raw \in UNION {[1..n -> {0, 4, 8}] : n \in 1..3} : raw[1] # 0}

MCImages ==
    {[mz |-> mz, pe |-> pe, optional |-> optional, base |-> MCBase, size |-> 8 * (Len(raw) + 1),
      entry |-> entry, sections |-> MCSections(raw)] :
        mz \in BOOLEAN, pe \in BOOLEAN, optional \in BOOLEAN, raw \in MCRaw, entry \in MCEntries}

MCGarbage == {[address |-> 8, rawSize |-> 0, rawOffset |-> 0]}
MCSmallEntries == {8, 12}

\* The images of the run are ones the proofs are about.
ASSUME MCImagesAssumption == LaidOut
=============================================================================
