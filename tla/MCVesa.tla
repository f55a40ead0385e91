------------------------------ MODULE MCVesa ------------------------------
(***************************************************************************)
(* Seven modes, of which three will do; sizes scaled by 64, so that a byte *)
(* has four values.  Lists of up to three modes in any order.              *)
(***************************************************************************)
EXTENDS Vesa, TLC

Mode(x, y, linear, bits, lfb, pitch) ==
    [resolutionX |-> x, resolutionY |-> y, linear |-> linear, bitsPerPixel |-> bits,
     linearFrameBuffer |-> lfb, pitch |-> pitch]

MCInfo ==
    ("800x600"       :> Mode(13, 10, TRUE, 32, 1, 13)) @@
    ("1024x768"      :> Mode(16, 12, TRUE, 32, 2, 16)) @@
    ("padded"        :> Mode(15, 12, TRUE, 32, 3, 16)) @@
    ("windowed"      :> Mode(13, 10, FALSE, 32, 0, 13)) @@
    ("24 bits"       :> Mode(16, 12, TRUE, 24, 4, 16)) @@
    ("flat"          :> Mode(13, 6, TRUE, 32, 5, 13)) @@
    ("large"         :> Mode(25, 18, TRUE, 32, 6, 25))

MCModes == DOMAIN MCInfo

MCLists == {s \in UNION {[1..n -> MCModes] : n \in 0..3} : IsInjective(s)}

\* Cleared memory, and a block an earlier program left there.
MCLeftovers == {Mode(0, 0, FALSE, 0, 0, 0), Mode(14, 11, TRUE, 32, 9, 14)}
=============================================================================
