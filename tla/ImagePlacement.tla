--------------------------- MODULE ImagePlacement ---------------------------
(***************************************************************************)
(* What relocation promises: a byte of memory is what it was or what the   *)
(* image's headers put there, and the image is entered when every byte is  *)
(* what they say and every other one what it was.  In which order the      *)
(* bytes come, and how many at a time, is left open.                       *)
(***************************************************************************)

CONSTANTS Images,
          Accepted,     \* the images to be entered; the others are refused
          Loaded,       \* memory before
          Placed        \* memory after, by image

VARIABLES image, memory,
          outcome       \* "open", "refused", "entered"

vars == <<image, memory, outcome>>

Init == image \in Images /\ memory = Loaded /\ outcome = "open"

Refuse ==
    /\ outcome = "open" /\ outcome' = "refused"
    /\ image \notin Accepted /\ memory = Loaded
    /\ UNCHANGED <<image, memory>>

\* Some bytes come to their place; none that is there leaves it.
Place ==
    /\ outcome = "open" /\ image \in Accepted
    /\ memory' = [a \in DOMAIN Loaded |-> memory'[a]]
    /\ \A a \in DOMAIN Loaded : memory'[a] \in {memory[a], Placed[image][a]}
    /\ UNCHANGED <<image, outcome>>

Enter ==
    /\ outcome = "open" /\ outcome' = "entered"
    /\ image \in Accepted /\ memory = Placed[image]
    /\ UNCHANGED <<image, memory>>

Next == Refuse \/ Place \/ Enter

Spec == Init /\ [][Next]_vars
=============================================================================
