--------------------------- MODULE MessageChannel ---------------------------
(***************************************************************************)
(* What the debug packets promise: a channel that shows the messages begun *)
(* in their order, each as it was and each once, and that is never more    *)
(* than a few messages behind.                                             *)
(***************************************************************************)
EXTENDS Naturals, Sequences

CONSTANTS Messages,     \* what may be said
          Room          \* messages begun and not yet shown, at most

VARIABLES sent,         \* messages begun
          shown         \* messages shown

vars == <<sent, shown>>

Init == sent = <<>> /\ shown = <<>>

Begin(m) ==
    /\ Len(sent) < Len(shown) + Room
    /\ sent' = Append(sent, m)
    /\ UNCHANGED shown

Show ==
    /\ Len(shown) < Len(sent)
    /\ shown' = Append(shown, sent[Len(shown) + 1])
    /\ UNCHANGED sent

Next == (\E m \in Messages : Begin(m)) \/ Show

Spec == Init /\ [][Next]_vars
=============================================================================
