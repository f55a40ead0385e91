----------------------------- MODULE ModeSwitch -----------------------------
(***************************************************************************)
(* The processor between real and protected mode, from the first           *)
(* instruction of the loader (bootldr/bl_loader.asm) through setupGdt and  *)
(* setupIdt (vkern/vkern.cpp) to the kernel's calls of BIOS services       *)
(* through kIntCall, with the devices interrupting it whenever the flags   *)
(* let them.                                                               *)
(*                                                                         *)
(* One thread of control (pc) is interrupted by at most one handler (hs):  *)
(* interrupt gates and the INT instruction clear IF, and no handler of     *)
(* this code sets it.  pc takes the names of the code's own labels where   *)
(* it has them.                                                            *)
(***************************************************************************)
EXTENDS Pic8259

CONSTANTS KernelEsp,    \* the stack pointers at which kIntCall may be called
          IvtEoi        \* what the real-mode vectors 20h..2Fh may be: the sets of
                        \* requests whose vector sends an end of interrupt

ASSUME ModeAssumption == /\ KernelEsp # {}
                         /\ IvtEoi \subseteq SUBSET (0..15)
                         /\ {"boot", "created"} \cap KernelEsp = {}

VARIABLES
    pc,         \* where the interrupted program is
    mode,       \* CR0.PE: "real" or "prot"
    ifl,        \* EFLAGS.IF
    gdtr,       \* the table GDTR names: the BIOS's, the loader's or the kernel's
    idtr,       \* the table IDTR names: the BIOS's IVT or the kernel's IDT
    segs,       \* what DS and ES, FS and GS, and SS hold
    esp,        \* which stack is in use, and where
    gates,      \* whether setupIdt has filled the table at MEM_IDT_BASE
    bt,         \* BTDATA: the saved table registers and segments
    created,    \* CR0 and ESP as kIntCall left them on the created stack
    caller,     \* history: the context of the last call of kIntCall
    hs,         \* the interrupt being acknowledged or handled, and (history)
                \* the bits it found in service and those it set itself
    ivtEoi      \* which of IvtEoi the BIOS's table is, for good

vars == <<irr, isr, imr, base, pc, mode, ifl, gdtr, idtr, segs, esp, gates,
          bt, created, caller, hs, ivtEoi>>

cpu == <<mode, gdtr, idtr, segs, esp>>

Gdts == {"bios", "loader", "kernel"}
Idts == {"ivt", "kernel"}

\* Segments of real mode, and selectors: 0010h (256 MB), 0018h (4 GB), 0020h (the
\* stack's, 256 MB) and 0038h (64 KB).
Selectors == {"bios", "kern_seg", "zero", "stk_seg", "args",
              "data", "extra", "stack", "data64k"}
Segs == [data : Selectors, extra : Selectors, stack : Selectors]
SameSegs(s) == [data |-> s, extra |-> s, stack |-> s]
Modes == {"real", "prot"}
Esp  == KernelEsp \cup {"boot", "created"}

Labels == {"start", "banner", "cli", "pentry", "setupGdt", "setupIdt", "picInit",
           "switchIdtr", "enable", "kernel", "halt", "limit64k", "realmode",
           "service", "intreturn", "pemode", "hangloop", "reset"}

HandlerSteps == {"none", "ack1", "ack2", "vector", "ivt",
                 "isr0", "isr1", "eoi1", "eoi0", "iret"}

Context == [mode : Modes, gdtr : Gdts, idtr : Idts, segs : Segs, esp : Esp]

\* BTDATA's images of the table registers, and its segments for either mode.
BootData == [gdt16 : Gdts, gdt32 : Gdts, idt16 : Idts, idt32 : Idts,
             seg16 : Segs, seg32 : Segs]

SavedState == [cr0 : Modes, esp : Esp]

HandlerState == [step : HandlerSteps, irq : 0..15,
                 found : SUBSET (0..15), own : SUBSET (0..15)]

NoContext == [mode |-> "real", gdtr |-> "bios", idtr |-> "ivt",
              segs |-> SameSegs("bios"), esp |-> "boot"]

\* The type of every variable.
TypeOK ==
    /\ PicTypeOK
    /\ pc \in Labels
    /\ mode \in Modes /\ ifl \in BOOLEAN
    /\ gdtr \in Gdts /\ idtr \in Idts /\ segs \in Segs /\ esp \in Esp
    /\ gates \in BOOLEAN
    /\ bt \in BootData
    /\ created \in SavedState
    /\ caller \in Context
    /\ hs \in HandlerState
    /\ ivtEoi \in IvtEoi

Init ==
    /\ PicInitial
    /\ pc = "start" /\ mode = "real" /\ ifl = TRUE
    /\ gdtr = "bios" /\ idtr = "ivt" /\ segs = SameSegs("bios") /\ esp = "boot"
    /\ gates = FALSE
    /\ bt = [gdt16 |-> "bios", gdt32 |-> "bios", idt16 |-> "ivt", idt32 |-> "ivt",
             seg16 |-> SameSegs("bios"), seg32 |-> SameSegs("bios")]
    /\ created = [cr0 |-> "real", esp |-> "boot"]
    /\ caller = NoContext
    /\ hs = [step |-> "none", irq |-> 0, found |-> {}, own |-> {}]
    /\ ivtEoi \in IvtEoi

\* The program runs its next block unless an interrupt is in progress.
Runs(from, to) ==
    /\ pc = from
    /\ hs.step = "none"
    /\ pc' = to
    /\ UNCHANGED hs

-----------------------------------------------------------------------------
(* The loader: real mode, then protected mode with interrupts off. *)

\* cli, segment registers and stack, sti, both modes' segments saved, sgdt/sidt of
\* the BIOS's tables.
LoaderStart ==
    /\ Runs("start", "banner")
    /\ ifl' = TRUE
    /\ esp' = "boot"
    /\ segs' = [data |-> "kern_seg", extra |-> "zero", stack |-> "stk_seg"]
    /\ bt' = [bt EXCEPT !.gdt16 = gdtr, !.idt16 = idtr, !.seg16 = segs',
                        !.seg32 = [data |-> "data", extra |-> "extra", stack |-> "stack"]]
    /\ UNCHANGED <<picVars, mode, gdtr, idtr, gates, created, caller, ivtEoi>>

\* Messages with interrupts on, and the 32-bit GDT pseudo-descriptor rebased.
LoaderBanner ==
    /\ Runs("banner", "cli")
    /\ bt' = [bt EXCEPT !.gdt32 = "loader"]
    /\ UNCHANGED <<picVars, cpu, ifl, gates, created, caller, ivtEoi>>

\* cli, A20, lgdt, PE, segment registers, far jump.
LoaderProtect ==
    /\ Runs("cli", "pentry")
    /\ ifl' = FALSE
    /\ gdtr' = bt.gdt32
    /\ mode' = "prot"
    /\ segs' = bt.seg32
    /\ UNCHANGED <<picVars, idtr, esp, gates, bt, created, caller, ivtEoi>>

\* pentry: an image that passes the check is relocated and entered on its own stack.
EnterHLLM ==
    /\ Runs("pentry", "setupGdt")
    /\ esp' \in KernelEsp
    /\ UNCHANGED <<picVars, mode, ifl, gdtr, idtr, segs, gates, bt, created, caller, ivtEoi>>

\* One that fails it is not entered: pentry hangs, with interrupts off.
Hangloop ==
    /\ Runs("pentry", "hangloop")
    /\ UNCHANGED <<picVars, cpu, ifl, gates, bt, created, caller, ivtEoi>>

-----------------------------------------------------------------------------
(* The kernel's own tables. *)

\* MUTANT of setupGdt: the data selector to be loaded stays the 256 MB one.
setupGdtKeepsSelector ==
    /\ Runs("setupGdt", "setupIdt")
    /\ bt' = [bt EXCEPT !.gdt16 = gdtr, !.gdt32 = "kernel"]
    /\ gdtr' = "kernel"
    /\ UNCHANGED <<picVars, mode, ifl, idtr, segs, esp, gates, created, caller, ivtEoi>>

\* The data selector of BTDATA becomes the 4 GB one, DS and ES stay as they are;
\* hwSwitchGdtr stores the GDTR in force, the loader's, over the saved 16-bit one.
setupGdt ==
    /\ Runs("setupGdt", "setupIdt")
    /\ bt' = [bt EXCEPT !.seg32.data = bt.seg32.extra, !.gdt16 = gdtr, !.gdt32 = "kernel"]
    /\ gdtr' = "kernel"
    /\ UNCHANGED <<picVars, mode, ifl, idtr, segs, esp, gates, created, caller, ivtEoi>>

setupIdtGates ==
    /\ Runs("setupIdt", "picInit")
    /\ gates' = TRUE
    /\ UNCHANGED <<picVars, cpu, ifl, bt, created, caller, ivtEoi>>

\* MUTANT of setupIdtPic: the controllers keep the BIOS's vectors.
setupIdtPicSkipped ==
    /\ Runs("picInit", "switchIdtr")
    /\ UNCHANGED <<picVars, cpu, ifl, gates, bt, created, caller, ivtEoi>>

setupIdtPic ==
    /\ Runs("picInit", "switchIdtr")
    /\ kPicInit(32, 40)
    /\ UNCHANGED <<cpu, ifl, gates, bt, created, caller, ivtEoi>>

\* hwSwitchIdtr: sidt of the IVT pseudo-descriptor, lidt of the kernel's.
setupIdtSwitch ==
    /\ Runs("switchIdtr", "enable")
    /\ bt' = [bt EXCEPT !.idt16 = idtr, !.idt32 = "kernel"]
    /\ idtr' = "kernel"
    /\ UNCHANGED <<picVars, mode, ifl, gdtr, segs, esp, gates, created, caller, ivtEoi>>

setupIdtEnable ==
    /\ Runs("enable", "kernel")
    /\ ifl' = TRUE
    /\ UNCHANGED <<picVars, cpu, gates, bt, created, caller, ivtEoi>>

\* kMain returned: hwProcessorHalt spins, with interrupts enabled.
Halt ==
    /\ Runs("kernel", "halt")
    /\ UNCHANGED <<picVars, cpu, ifl, gates, bt, created, caller, ivtEoi>>

-----------------------------------------------------------------------------
(* kIntCall, called by initVesa any number of times.  Each block runs with  *)
(* IF clear from its first instruction, so it is one step.                  *)

\* cli, registers pushed, ESP and CR0 left on the created stack, 64k segments.
\* The loader is taken to lie below 10000h, where those segments reach limit64k;
\* BootMemory has the images that do not.
IntCallEnter ==
    /\ Runs("kernel", "limit64k")
    /\ \E k \in KernelEsp :
        /\ created' = [cr0 |-> mode, esp |-> k]
        /\ caller' = [mode |-> mode, gdtr |-> gdtr, idtr |-> idtr,
                      segs |-> segs, esp |-> k]
    /\ ifl' = FALSE
    /\ segs' = SameSegs("data64k")
    /\ esp' = "created"
    /\ UNCHANGED <<picVars, mode, gdtr, idtr, gates, bt, ivtEoi>>

\* MUTANT of IntCallReal: lidt is forgotten.
IntCallRealKeepsIdtr ==
    /\ Runs("limit64k", "realmode")
    /\ bt' = [bt EXCEPT !.gdt32 = gdtr, !.idt32 = idtr]
    /\ gdtr' = bt.gdt16
    /\ mode' = "real" /\ segs' = bt.seg16
    /\ UNCHANGED <<picVars, idtr, ifl, esp, gates, created, caller, ivtEoi>>

\* The table registers change places with the 16-bit ones, PE and PG are reset.
IntCallReal ==
    /\ Runs("limit64k", "realmode")
    /\ bt' = [bt EXCEPT !.gdt32 = gdtr, !.idt32 = idtr]
    /\ gdtr' = bt.gdt16
    /\ idtr' = bt.idt16
    /\ mode' = "real"
    /\ segs' = bt.seg16
    /\ UNCHANGED <<picVars, ifl, esp, gates, created, caller, ivtEoi>>

\* DS and ES from the call's arguments, sti, INT n: nothing is taken in the shadow of
\* sti, and INT clears IF.
IntCallInt ==
    /\ Runs("realmode", "service")
    /\ ifl' = FALSE
    /\ segs' = [segs EXCEPT !.data = "args"]
    /\ UNCHANGED <<picVars, mode, gdtr, idtr, esp, gates, bt, created, caller, ivtEoi>>

\* The BIOS service may enable interrupts, and disable them again.
ServiceFlag ==
    /\ Runs("service", "service")
    /\ ifl' = ~ifl
    /\ UNCHANGED <<picVars, cpu, gates, bt, created, caller, ivtEoi>>

\* Its IRET restores the IF that kIntCall's sti had set.
ServiceReturn ==
    /\ Runs("service", "intreturn")
    /\ ifl' = TRUE
    /\ UNCHANGED <<picVars, cpu, gates, bt, created, caller, ivtEoi>>

\* cli, results saved, tables changed back, CR0 and ESP popped, and the
\* segments BTDATA now has for protected mode.
IntCallProtect ==
    /\ Runs("intreturn", "pemode")
    /\ ifl' = FALSE
    /\ bt' = [bt EXCEPT !.gdt16 = gdtr, !.idt16 = idtr]
    /\ gdtr' = bt.gdt32
    /\ idtr' = bt.idt32
    /\ mode' = created.cr0
    /\ esp' = created.esp
    /\ segs' = bt.seg32
    /\ UNCHANGED <<picVars, gates, created, caller, ivtEoi>>

\* Registers popped, sti, return.
IntCallReturn ==
    /\ Runs("pemode", "kernel")
    /\ ifl' = TRUE
    /\ UNCHANGED <<picVars, cpu, gates, bt, created, caller, ivtEoi>>

-----------------------------------------------------------------------------
(* Interrupts *)

DeviceRaise ==
    /\ \E i \in Irq : Raise(i)
    /\ UNCHANGED <<pc, cpu, ifl, gates, bt, created, caller, hs, ivtEoi>>

DeviceWithdraw ==
    /\ \E i \in Irq : Withdraw(i)
    /\ UNCHANGED <<pc, cpu, ifl, gates, bt, created, caller, hs, ivtEoi>>

\* The processor samples INTR at an instruction boundary.
Recognise ==
    /\ hs.step = "none" /\ ifl /\ Intr
    /\ hs' = [step |-> "ack1", irq |-> hs.irq, found |-> isr, own |-> {}]
    /\ UNCHANGED <<picVars, pc, cpu, ifl, gates, bt, created, caller, ivtEoi>>

AckPrimary ==
    /\ hs.step = "ack1"
    /\ \E i \in Primary :
        /\ AcknowledgePrimary(i)
        /\ hs' = [step |-> IF i = Cascade THEN "ack2" ELSE "vector",
                  irq |-> i, found |-> hs.found, own |-> isr' \ isr]
    /\ UNCHANGED <<pc, cpu, ifl, gates, bt, created, caller, ivtEoi>>

AckSecondary ==
    /\ hs.step = "ack2"
    /\ \E i \in Secondary :
        /\ AcknowledgeSecondary(i)
        /\ hs' = [step |-> "vector", irq |-> i, found |-> hs.found,
                  own |-> hs.own \cup (isr' \ isr)]
    /\ UNCHANGED <<pc, cpu, ifl, gates, bt, created, caller, ivtEoi>>

\* The gates of setupIdt: 00..1F not present, 20..2F IntHandlerExt, the rest
\* IntHandlerNoError, a bare iretd.
Gate(v) ==
    IF v < 32 THEN "fault" ELSE IF v < 48 THEN "isr0" ELSE "iret"

\* Where vector v takes the processor; a table of the other mode is no table.
Target(v) ==
    IF mode = "real"
    THEN IF idtr = "ivt" THEN "ivt" ELSE "fault"
    ELSE IF idtr = "kernel" /\ gates THEN Gate(v) ELSE "fault"

\* A fault here is a fault in delivering it too: the processor resets.
Dispatch ==
    /\ hs.step = "vector"
    /\ LET to == Target(Vector(hs.irq)) IN
        IF to = "fault"
        THEN /\ pc' = "reset"
             /\ hs' = [hs EXCEPT !.step = "none"]
        ELSE /\ pc' = pc
             /\ hs' = [hs EXCEPT !.step = to]
    /\ ifl' = FALSE
    /\ UNCHANGED <<picVars, cpu, gates, bt, created, caller, ivtEoi>>

\* A real-mode handler: the BIOS's own acknowledges what it serves; what the
\* IVT holds at 20h..2Fh, vectors meant for software, acknowledges ivtEoi only.
IvtHandler ==
    /\ hs.step = "ivt"
    /\ isr' = IF base = BiosBase \/ hs.irq \in ivtEoi
              THEN isr \ ({hs.irq} \cup IF hs.irq \in Secondary THEN {Cascade} ELSE {})
              ELSE isr
    /\ hs' = [hs EXCEPT !.step = "none"]
    /\ ifl' = TRUE
    /\ UNCHANGED <<irr, imr, base, pc, cpu, gates, bt, created, caller, ivtEoi>>

\* MUTANT of ClearReadPrimary: no end of interrupt at all.
ClearReadPrimaryNoEoi ==
    /\ hs.step = "isr0"
    /\ hs' = [hs EXCEPT !.step = "iret"]
    /\ UNCHANGED <<picVars, pc, cpu, ifl, gates, bt, created, caller, ivtEoi>>

\* IntHandlerExt calls kPicClearBoth: a read of each ISR that decides the EOIs.
ClearReadPrimary ==
    /\ hs.step = "isr0"
    /\ hs' = [hs EXCEPT !.step = IF isr \cap Primary = {} THEN "iret" ELSE "isr1"]
    /\ UNCHANGED <<picVars, pc, cpu, ifl, gates, bt, created, caller, ivtEoi>>

\* MUTANT of ClearReadSecondary: the secondary chip is forgotten.
ClearReadSecondaryPrimaryOnly ==
    /\ hs.step = "isr1"
    /\ hs' = [hs EXCEPT !.step = "eoi0"]
    /\ UNCHANGED <<picVars, pc, cpu, ifl, gates, bt, created, caller, ivtEoi>>

\* MUTANT of ClearReadSecondary: a spurious request leaves the cascade bit set.
ClearReadSecondaryOnlyBoth ==
    /\ hs.step = "isr1"
    /\ hs' = [hs EXCEPT !.step = IF isr \cap Secondary = {} THEN "iret" ELSE "eoi1"]
    /\ UNCHANGED <<picVars, pc, cpu, ifl, gates, bt, created, caller, ivtEoi>>

ClearReadSecondary ==
    /\ hs.step = "isr1"
    /\ hs' = [hs EXCEPT !.step = IF isr \cap Secondary = {} THEN "eoi0" ELSE "eoi1"]
    /\ UNCHANGED <<picVars, pc, cpu, ifl, gates, bt, created, caller, ivtEoi>>

ClearSecondary ==
    /\ hs.step = "eoi1"
    /\ EndOfInterrupt(Secondary)
    /\ hs' = [hs EXCEPT !.step = "eoi0"]
    /\ UNCHANGED <<pc, cpu, ifl, gates, bt, created, caller, ivtEoi>>

ClearPrimary ==
    /\ hs.step = "eoi0"
    /\ EndOfInterrupt(Primary)
    /\ hs' = [hs EXCEPT !.step = "iret"]
    /\ UNCHANGED <<pc, cpu, ifl, gates, bt, created, caller, ivtEoi>>

\* iretd restores the IF = 1 of the interrupted program.
HandlerIret ==
    /\ hs.step = "iret"
    /\ hs' = [hs EXCEPT !.step = "none"]
    /\ ifl' = TRUE
    /\ UNCHANGED <<picVars, pc, cpu, gates, bt, created, caller, ivtEoi>>

-----------------------------------------------------------------------------
Loader == LoaderStart \/ LoaderBanner \/ LoaderProtect \/ EnterHLLM \/ Hangloop

Setup == setupGdt \/ setupIdtGates \/ setupIdtPic \/ setupIdtSwitch \/ setupIdtEnable

IntCall == \/ IntCallEnter \/ IntCallReal \/ IntCallInt
           \/ ServiceReturn \/ IntCallProtect \/ IntCallReturn

Handler == \/ AckPrimary \/ AckSecondary \/ Dispatch \/ IvtHandler
           \/ ClearReadPrimary \/ ClearReadSecondary
           \/ ClearSecondary \/ ClearPrimary \/ HandlerIret

Next == \/ Loader \/ Setup \/ IntCall \/ Halt \/ ServiceFlag
        \/ DeviceRaise \/ DeviceWithdraw \/ Recognise \/ Handler

Spec == Init /\ [][Next]_vars

\* A handler runs to its end and the program goes on between interrupts; the
\* processor samples INTR at every boundary, so a request that keeps meeting
\* enabled interrupts is taken.  Devices and the kernel's wish to call owe nothing.
Fairness ==
    /\ WF_vars(Handler)
    /\ SF_vars(Recognise)
    /\ SF_vars(Loader \/ Setup)
    /\ SF_vars(IntCallReal) /\ SF_vars(IntCallInt) /\ SF_vars(ServiceReturn)
    /\ SF_vars(IntCallProtect) /\ SF_vars(IntCallReturn)

FairSpec == Spec /\ Fairness

-----------------------------------------------------------------------------
(* Properties *)

\* Whenever the processor would take an interrupt, IDTR names a table of the
\* processor's present mode, and in protected mode one whose gates are filled and
\* to which the controllers' vectors have been moved: the cli/sti brackets of
\* the loader, of setupIdt and of kIntCall cover every mixture of the two.
TablesMatchMode ==
    ifl => \/ mode = "real" /\ idtr = "ivt"
           \/ mode = "prot" /\ idtr = "kernel" /\ gates /\ base = KernelBase

\* The processor never resets: no interrupt, spurious ones included, reaches a
\* not-present gate or the table of the other mode.
NeverResets == pc # "reset"

\* Back in the kernel after a service, ESP, CR0, both table registers and the
\* segments FS, GS and SS are those of the caller, whatever interrupted the service.
\* DS and ES reach all of memory: setupGdt changes the selector that kIntCall loads,
\* so the first call widens the caller's, as drawing above 256 MB needs, and no
\* later one narrows them.
IntCallRestores ==
    pc \in {"pemode", "kernel", "halt"} /\ caller # NoContext
        => /\ mode = caller.mode /\ gdtr = caller.gdtr /\ idtr = caller.idtr
           /\ esp = caller.esp
           /\ segs = [caller.segs EXCEPT !.data = "extra"]

\* If the real-mode vectors acknowledge all they get, nothing is left in service
\* whenever no interrupt is in progress, so no line is blocked behind an end of
\* interrupt that was never sent.
NothingLeftInService == ivtEoi = 0..15 /\ hs.step = "none" => isr = {}

\* kPicClearBoth, which cannot tell whose the bits are that it reads, has ended the
\* interrupt it was called for and no other on every chip where that interrupt set a
\* bit.  On a chip where it set none, which a spurious request does not and one of
\* the primary chip does not on the secondary, it has ended at most one request:
\* the highest of those that real mode had left in service.
HandlerEndsItsOwn ==
    hs.step = "iret" =>
        \A chip \in {Primary, Secondary} :
            LET found == hs.found \cap chip IN
            IF hs.own \cap chip # {}
            THEN isr \cap chip = found
            ELSE isr \cap chip \in {found, found \ Top(found)}

\* With such vectors a timer tick that is latched is taken (or forgotten by
\* kPicInit's ICW1), unless the image was refused: no other path of the program
\* blocks the line for ever.
TimerIsServed ==
    (ivtEoi = 0..15 /\ 0 \in irr) ~> (0 \notin irr \/ pc = "hangloop")

\* Every call of kIntCall comes back to the kernel.
IntCallReturns == (pc = "limit64k") ~> (pc = "kernel")
=============================================================================
