------------------------------ MODULE Pic8259 ------------------------------
(***************************************************************************)
(* The pair of 8259 interrupt controllers as vkern/pic.cpp programs it:    *)
(* edge triggered, cascaded through pin 2 of the master, normal (not       *)
(* automatic) end of interrupt, not in special fully nested mode.          *)
(*                                                                         *)
(* Requests are numbered 0..15; 0..7 belong to the primary chip and 8..15  *)
(* to the secondary one, whose output is pin 2 of the primary.  The chip's *)
(* own behaviour is external to the repository; the sequence of port       *)
(* writes and reads of kPicInit and kPicClearBoth is not.                  *)
(***************************************************************************)
EXTENDS Integers, FiniteSets

CONSTANTS Irq,      \* the request lines that have a device behind them
          Glitchy,  \* the lines a device may drop before they are acknowledged
          BiosMask  \* the interrupt mask the BIOS left in the two chips

ASSUME IrqAssumption ==
    /\ Irq \subseteq (0..15) \ {2}
    /\ Glitchy \subseteq Irq
    /\ BiosMask \subseteq 0..15

VARIABLES irr,    \* IRR: latched requests of the devices
          isr,    \* ISR: requests being serviced, the cascade bit 2 included
          imr,    \* IMR: masked pins
          base    \* ICW2: the vector base of each chip

picVars == <<irr, isr, imr, base>>

Primary   == 0..7
Secondary == 8..15
Cascade   == 2

\* Vector bases: the BIOS programs 08h/70h, setupIdt moves them to 20h/28h.
BiosBase   == [primary |-> 8, secondary |-> 112]
KernelBase == [primary |-> 32, secondary |-> 40]

PicTypeOK ==
    /\ irr \subseteq Irq
    /\ isr \subseteq 0..15
    /\ imr \subseteq 0..15
    /\ base \in {BiosBase, KernelBase}

PicInitial ==
    /\ irr = {}
    /\ isr = {}
    /\ imr = BiosMask
    /\ base = BiosBase

-----------------------------------------------------------------------------
(* Priority resolution: pin 0 first; a bit in service blocks its own level *)
(* and every lower one of the same chip (fully nested mode).               *)

Top(S) == {i \in S : \A j \in S : i <= j}

Wants(requests) ==
    {i \in requests \ imr :
        \A j \in isr : (i \in Primary <=> j \in Primary) => i < j}

SecondaryWants == Wants(irr \cap Secondary)

PrimaryWants ==
    Wants((irr \cap Primary) \cup IF SecondaryWants = {} THEN {} ELSE {Cascade})

\* The INT pin of the primary chip, which is the processor's INTR.
Intr == PrimaryWants # {}

Vector(i) ==
    IF i \in Primary THEN base.primary + i ELSE base.secondary + (i - 8)

-----------------------------------------------------------------------------
(* Devices *)

Raise(i) ==
    /\ i \notin irr
    /\ irr' = irr \cup {i}
    /\ UNCHANGED <<isr, imr, base>>

Withdraw(i) ==
    /\ i \in irr \cap Glitchy
    /\ irr' = irr \ {i}
    /\ UNCHANGED <<isr, imr, base>>

-----------------------------------------------------------------------------
(* The two pulses of an interrupt acknowledge.  When the request is gone   *)
(* the chip answers with its level 7 and sets no bit: IRQ7 or IRQ15 comes  *)
(* out spurious, the latter with the cascade bit set in the primary chip.  *)

AcknowledgePrimary(i) ==
    /\ IF PrimaryWants = {} THEN i = 7 /\ UNCHANGED isr
                            ELSE i \in Top(PrimaryWants) /\ isr' = isr \cup {i}
    /\ irr' = irr \ (isr' \ isr)
    /\ UNCHANGED <<imr, base>>

AcknowledgeSecondary(i) ==
    /\ IF SecondaryWants = {} THEN i = 15 /\ UNCHANGED isr
                              ELSE i \in Top(SecondaryWants) /\ isr' = isr \cup {i}
    /\ irr' = irr \ (isr' \ isr)
    /\ UNCHANGED <<imr, base>>

\* OCW2 20h: the non-specific end of interrupt clears the highest bit in service.
EndOfInterrupt(chip) ==
    /\ isr' = isr \ Top(isr \cap chip)
    /\ UNCHANGED <<irr, imr, base>>

\* MUTANT of kPicInit: the two bases change places.
kPicInitSwapped(primaryBaseVector, secondaryBaseVector) ==
    /\ irr' = {} /\ isr' = {} /\ imr' = {}
    /\ base' = [primary |-> secondaryBaseVector, secondary |-> primaryBaseVector]

\* kPicInit: ICW1 forgets latched edges, in-service bits and the mask of both
\* chips, ICW2 takes the vector bases with the low three bits dropped.
kPicInit(primaryBaseVector, secondaryBaseVector) ==
    /\ irr' = {}
    /\ isr' = {}
    /\ imr' = {}
    /\ base' = [primary   |-> primaryBaseVector - (primaryBaseVector % 8),
                secondary |-> secondaryBaseVector - (secondaryBaseVector % 8)]
=============================================================================
