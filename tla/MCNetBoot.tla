----------------------------- MODULE MCNetBoot -----------------------------
(***************************************************************************)
(* Three blocks of four bytes and words of four bits: the loader stores   *)
(* through registers that could wrap, and requests, replies and debug      *)
(* packets overlap on the line.  In the last run the image is one block    *)
(* larger than a word can say.                                             *)
(***************************************************************************)
EXTENDS NetBoot, TLC

MCMaxResets == (TRUE :> 2) @@ (FALSE :> 0)
MCNoResets == [t \in BOOLEAN |-> 0]
=============================================================================
