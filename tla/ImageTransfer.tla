--------------------------- MODULE ImageTransfer ---------------------------
(***************************************************************************)
(* What loading over the serial line promises: the image arrives in memory *)
(* byte by byte, in order and complete, and only then is it entered.  The  *)
(* machine may be reset on the way: then it all starts over.               *)
(***************************************************************************)
EXTENDS Naturals, Sequences

CONSTANT Size       \* bytes of the image

VARIABLES got,      \* the image bytes in memory, by their index in the image
          entered   \* whether the processor has jumped into the image

vars == <<got, entered>>

Init == got = <<>> /\ entered = FALSE

Deliver ==
    /\ ~entered
    /\ Len(got) < Size
    /\ got' = Append(got, Len(got))
    /\ UNCHANGED entered

Enter ==
    /\ Len(got) = Size
    /\ entered' = TRUE
    /\ UNCHANGED got

StartOver ==
    /\ ~entered
    /\ got' = <<>>
    /\ UNCHANGED entered

Next == Deliver \/ Enter \/ StartOver

Spec == Init /\ [][Next]_vars
=============================================================================
