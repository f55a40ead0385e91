-------------------------- MODULE ModeSwitchProofs --------------------------
(***************************************************************************)
(* Proofs about ModeSwitch, for every set of request lines, every BIOS     *)
(* mask, every set of stack pointers and every behaviour of the real-mode  *)
(* handlers at vectors 20h..2Fh.                                           *)
(***************************************************************************)
EXTENDS ModeSwitch, TLAPS

-----------------------------------------------------------------------------
(* The inductive invariant.  Where the program is determines the processor *)
(* mode, both table registers and, between interrupts, the interrupt flag. *)

RealLabels == {"start", "banner", "cli", "realmode", "service", "intreturn"}

\* Blocks that start with interrupts enabled.
OpenLabels == {"start", "banner", "cli", "kernel", "halt", "intreturn"}

\* Labels at which IDTR holds the kernel's table.
IdtLabels == {"enable", "kernel", "halt", "limit64k", "pemode"}

\* Labels between IntCallReal and IntCallProtect.
InService == {"realmode", "service", "intreturn"}

FlagInv ==
    /\ hs.step = "none" /\ pc # "service" => (ifl <=> pc \in OpenLabels)
    /\ hs.step # "none" => pc \in OpenLabels \cup {"service"}
    /\ hs.step \in {"ack1", "ack2", "vector"} => ifl
    /\ hs.step \notin {"none", "ack1", "ack2", "vector"} => ~ifl

ControlInv ==
    /\ pc # "reset"
    /\ mode = "real" <=> pc \in RealLabels
    /\ idtr = "kernel" <=> pc \in IdtLabels
    /\ pc \in {"picInit", "switchIdtr"} \cup IdtLabels \cup InService => gates
    /\ pc \in {"switchIdtr"} \cup IdtLabels \cup InService => base = KernelBase
    /\ bt.idt16 = "ivt"
    /\ pc \in IdtLabels \cup {"setupIdt", "picInit", "switchIdtr"} =>
          gdtr = "kernel"
    /\ pc # "start" =>
          /\ bt.seg32.extra = "extra" /\ bt.seg32.stack = "stack"
          /\ pc \in {"pemode"} \cup InService \cup {"limit64k", "setupIdt", "picInit",
                   "switchIdtr", "enable", "kernel", "halt"} => bt.seg32.data = "extra"
    /\ pc \in IdtLabels \ {"limit64k"} => segs.extra = "extra" /\ segs.stack = "stack"
    /\ pc \in {"pentry", "hangloop", "setupGdt", "setupIdt", "picInit", "switchIdtr"} =>
          segs.extra = "extra" /\ segs.stack = "stack"

CallInv ==
    /\ caller # NoContext =>
          /\ caller.mode = "prot" /\ caller.gdtr = "kernel"
          /\ caller.idtr = "kernel"
          /\ caller.segs.extra = "extra" /\ caller.segs.stack = "stack"
    /\ pc \in InService \cup {"limit64k"} =>
          /\ caller # NoContext
          /\ created.cr0 = "prot" /\ created.esp = caller.esp
    /\ pc \in InService => bt.gdt32 = "kernel" /\ bt.idt32 = "kernel"
    /\ pc \in {"pemode", "kernel", "halt"} /\ caller # NoContext =>
          esp = caller.esp /\ segs.data = "extra"
    /\ pc \in {"start", "banner", "cli", "pentry", "hangloop", "setupGdt", "setupIdt",
               "picInit", "switchIdtr", "enable"} => caller = NoContext

ModeInv == TypeOK /\ FlagInv /\ ControlInv /\ CallInv

\* The bits of a chip before its end of interrupt: those found and, in front of
\* them, the interrupt's own.
Pending(chip) ==
    /\ isr \cap chip = (hs.found \cup hs.own) \cap chip
    /\ hs.own \cap chip # {} => Top(isr \cap chip) = hs.own \cap chip

\* And after it, or where none was called for.
Ended(chip) ==
    LET found == hs.found \cap chip IN
    IF hs.own \cap chip # {}
    THEN isr \cap chip = found
    ELSE isr \cap chip \in {found, found \ Top(found)}

\* A non-specific end of interrupt clears the highest bit of its chip, which is the
\* interrupt's own if it set one there.
LeakInv ==
    /\ hs.step # "none" => hs.own \cap hs.found = {}
    /\ hs.step = "ack1" => isr = hs.found /\ hs.own = {}
    /\ hs.step = "ack2" => /\ isr = hs.found \cup {Cascade} /\ hs.own = {Cascade}
                           /\ \A j \in hs.found \cap Primary : Cascade < j
    /\ hs.step \in {"vector", "isr0"} /\ hs.own \cap Primary = {} => hs.own = {}
    /\ hs.step \in {"vector", "isr0", "isr1", "eoi1", "eoi0"} => Pending(Primary)
    /\ hs.step \in {"vector", "isr0", "isr1", "eoi1"} => Pending(Secondary)
    /\ hs.step = "iret" => Ended(Primary)
    /\ hs.step \in {"eoi0", "iret"} => Ended(Secondary)

-----------------------------------------------------------------------------
USE DEF picVars, vars, cpu, Loader, Setup, IntCall, Handler

\* Every variable keeps its type.
LEMMA TypeCorrect == Spec => []TypeOK
<1> USE IrqAssumption, ModeAssumption
    DEF TypeOK, PicTypeOK, Labels, Modes, Gdts, Idts, Esp
<1>1. ASSUME Init PROVE TypeOK
  <2>1. PicTypeOK
    BY <1>1 DEF Init, PicInitial
  <2>2. caller \in Context /\ bt \in BootData /\ created \in SavedState /\ segs \in Segs
    BY <1>1 DEF Init, NoContext, Context, BootData, SavedState, SameSegs, Segs, Selectors
  <2>3. hs \in HandlerState
    BY <1>1 DEF Init, HandlerState, HandlerSteps
  <2>. QED BY <1>1, <2>1, <2>2, <2>3 DEF Init
<1>2. ASSUME TypeOK, [Next]_vars PROVE TypeOK'
  <2>1. CASE LoaderBanner \/ setupGdt \/ setupIdtSwitch
    <3>1. bt.seg32 \in Segs /\ [bt.seg32 EXCEPT !.data = bt.seg32.extra] \in Segs
      BY <1>2 DEF BootData, Segs
    <3>2. bt' \in BootData
      BY <1>2, <2>1, <3>1 DEF LoaderBanner, setupGdt, setupIdtSwitch, BootData
    <3>. QED BY <1>2, <2>1, <3>2 DEF LoaderBanner, setupGdt, setupIdtSwitch, Runs
  <2>14. CASE LoaderStart
    <3>1. segs' \in Segs
      BY <2>14 DEF LoaderStart, Segs, Selectors
    <3>2. [data |-> "data", extra |-> "extra", stack |-> "stack"] \in Segs
      BY DEF Segs, Selectors
    <3>3. bt' \in BootData
      BY <1>2, <2>14, <3>1, <3>2 DEF LoaderStart, BootData
    <3>. QED BY <1>2, <2>14, <3>1, <3>3 DEF LoaderStart, Runs
  <2>2. CASE LoaderProtect
    BY <1>2, <2>2 DEF LoaderProtect, Runs, BootData
  <2>3. CASE EnterHLLM \/ Hangloop \/ setupIdtGates \/ setupIdtEnable \/ Halt
             \/ ServiceFlag \/ ServiceReturn \/ IntCallReturn
    BY ZenonT(40), <1>2, <2>3 DEF EnterHLLM, Hangloop, setupIdtGates, setupIdtEnable, Halt,
       ServiceFlag, ServiceReturn, IntCallReturn, Runs
  <2>4. CASE setupIdtPic
    <3>1. base' = KernelBase
      BY <2>4 DEF setupIdtPic, kPicInit, KernelBase
    <3>. QED BY <1>2, <2>4, <3>1 DEF setupIdtPic, kPicInit, Runs
  <2>5. CASE IntCallEnter
    <3>. created' \in SavedState /\ caller' \in Context /\ segs' \in Segs
      BY <1>2, <2>5 DEF IntCallEnter, SavedState, Context, SameSegs, Segs, Selectors
    <3>. QED BY <1>2, <2>5 DEF IntCallEnter, Runs
  <2>6. CASE IntCallReal \/ IntCallProtect
    <3>1. bt' \in BootData /\ gdtr' \in Gdts /\ idtr' \in Idts
      BY <1>2, <2>6 DEF IntCallReal, IntCallProtect, BootData
    <3>2. mode' \in Modes /\ esp' \in Esp /\ segs' \in Segs
      BY <1>2, <2>6 DEF IntCallReal, IntCallProtect, SavedState, BootData
    <3>. QED BY <1>2, <2>6, <3>1, <3>2 DEF IntCallReal, IntCallProtect, Runs
  <2>13. CASE IntCallInt
    <3>. segs' \in Segs
      BY <1>2, <2>13 DEF IntCallInt, Segs, Selectors
    <3>. QED BY <1>2, <2>13 DEF IntCallInt, Runs
  <2>7. CASE DeviceRaise \/ DeviceWithdraw
    <3>. PicTypeOK'
      BY <1>2, <2>7 DEF DeviceRaise, DeviceWithdraw, Raise, Withdraw
    <3>. QED BY <1>2, <2>7 DEF DeviceRaise, DeviceWithdraw
  <2>8. CASE AckPrimary
    <3>1. PICK i \in Primary : /\ AcknowledgePrimary(i)
                               /\ hs' = [step |-> IF i = Cascade THEN "ack2" ELSE "vector",
                                         irq |-> i, found |-> hs.found,
                                         own |-> isr' \ isr]
      BY <2>8 DEF AckPrimary
    <3>2. PicTypeOK'
      BY <1>2, <3>1 DEF AcknowledgePrimary, Primary
    <3>3. hs' \in HandlerState
      BY <1>2, <3>1, <3>2 DEF HandlerState, HandlerSteps, Primary
    <3>. QED BY <1>2, <2>8, <3>2, <3>3 DEF AckPrimary
  <2>12. CASE AckSecondary
    <3>1. PICK i \in Secondary : /\ AcknowledgeSecondary(i)
                                 /\ hs' = [step |-> "vector", irq |-> i,
                                           found |-> hs.found,
                                           own |-> hs.own \cup (isr' \ isr)]
      BY <2>12 DEF AckSecondary
    <3>2. PicTypeOK'
      BY <1>2, <3>1 DEF AcknowledgeSecondary, Secondary
    <3>3. hs' \in HandlerState
      <4>1. isr' \ isr \in SUBSET (0..15)
        BY <3>2
      <4>2. i \in 0..15
        BY DEF Secondary
      <4>. QED BY <1>2, <3>1, <4>1, <4>2 DEF HandlerState, HandlerSteps
    <3>. QED BY <1>2, <2>12, <3>2, <3>3 DEF AckSecondary
  <2>9. CASE Dispatch
    <3>1. Target(Vector(hs.irq)) \in HandlerSteps \cup {"fault"}
      BY DEF Target, Gate, HandlerSteps
    <3>2. hs' \in HandlerState
      BY <1>2, <2>9, <3>1 DEF Dispatch, HandlerState, HandlerSteps
    <3>. QED BY ZenonT(40), <1>2, <2>9, <3>2 DEF Dispatch
  <2>10. CASE Recognise \/ IvtHandler \/ ClearReadPrimary \/ ClearReadSecondary
              \/ ClearSecondary \/ ClearPrimary \/ HandlerIret
    <3>1. hs' \in HandlerState
      BY <1>2, <2>10 DEF Recognise, IvtHandler, ClearReadPrimary, ClearReadSecondary,
         ClearSecondary, ClearPrimary, HandlerIret, HandlerState, HandlerSteps
    <3>2. PicTypeOK'
      BY <1>2, <2>10 DEF Recognise, IvtHandler, ClearReadPrimary, ClearReadSecondary,
         ClearSecondary, ClearPrimary, HandlerIret, EndOfInterrupt
    <3>3. /\ pc' = pc /\ ifl' \in BOOLEAN /\ ivtEoi' = ivtEoi
          /\ UNCHANGED <<cpu, gates, bt, created, caller>>
      BY <1>2, <2>10 DEF Recognise, IvtHandler, ClearReadPrimary, ClearReadSecondary,
         ClearSecondary, ClearPrimary, HandlerIret
    <3>. QED BY <1>2, <3>1, <3>2, <3>3
  <2>11. CASE UNCHANGED vars
    BY <1>2, <2>11
  <2>. QED BY <1>2, <2>1, <2>2, <2>3, <2>4, <2>5, <2>6, <2>7, <2>8, <2>9, <2>10,
          <2>11, <2>12, <2>13, <2>14 DEF Next
<1>. QED BY <1>1, <1>2, PTL DEF Spec

-----------------------------------------------------------------------------
\* Under the invariant every vector, spurious or not, reaches a real-mode handler
\* or IntHandlerExt.
LEMMA DispatchTarget ==
    ASSUME ModeInv, hs.step = "vector"
    PROVE  Target(Vector(hs.irq)) \in {"ivt", "isr0"}
<1> USE DEF ModeInv, FlagInv, ControlInv
<1>1. CASE mode = "real"
  BY <1>1 DEF Target, TypeOK, Idts, RealLabels, IdtLabels
<1>2. CASE mode # "real"
  <2>1. idtr = "kernel" /\ gates /\ base = KernelBase
    BY <1>2 DEF TypeOK, Modes, OpenLabels, RealLabels, IdtLabels, InService
  <2>2. Vector(hs.irq) \in 32..47
    BY <2>1 DEF Vector, KernelBase, Primary, TypeOK, HandlerState
  <2>. QED BY <1>2, <2>1, <2>2 DEF Target, Gate
<1>. QED BY <1>1, <1>2

(* The control invariant. *)

\* Where the program is determines mode, tables, flag and saved context; one step
\* per block of the program.
LEMMA ModeInvHolds == Spec => []ModeInv
<1>1. ASSUME Init, TypeOK PROVE ModeInv
  BY <1>1 DEF Init, ModeInv, FlagInv, ControlInv, CallInv, RealLabels, OpenLabels,
     IdtLabels, InService
<1>2. ASSUME ModeInv, TypeOK', [Next]_vars PROVE ModeInv'
  <2> USE <1>2 DEF ModeInv, FlagInv, ControlInv, CallInv, Labels, RealLabels,
          OpenLabels, IdtLabels, InService, Runs
  <2> pc \in Labels
    BY DEF TypeOK
  <2>1. CASE LoaderStart
    BY <2>1 DEF LoaderStart, TypeOK, Idts
  <2>2. CASE LoaderBanner
    BY <2>2 DEF LoaderBanner
  <2>3. CASE LoaderProtect
    BY <2>3 DEF LoaderProtect
  <2>4. CASE EnterHLLM \/ Hangloop
    BY <2>4 DEF EnterHLLM, Hangloop
  <2>5. CASE setupGdt
    <3>1. /\ bt'.seg32.extra = bt.seg32.extra /\ bt'.seg32.stack = bt.seg32.stack
          /\ bt'.seg32.data = bt.seg32.extra /\ bt'.idt16 = bt.idt16
      BY <2>5 DEF setupGdt, TypeOK, BootData, Segs
    <3>. QED BY <2>5, <3>1 DEF setupGdt
  <2>6. CASE setupIdtGates
    BY <2>6 DEF setupIdtGates
  <2>7. CASE setupIdtPic
    BY <2>7 DEF setupIdtPic, kPicInit, KernelBase
  <2>8. CASE setupIdtSwitch
    BY <2>8 DEF setupIdtSwitch, TypeOK, Idts
  <2>9. CASE setupIdtEnable
    BY <2>9 DEF setupIdtEnable
  <2>10. CASE Halt
    BY <2>10 DEF Halt
  <2>11. CASE IntCallEnter
    BY <2>11 DEF IntCallEnter, NoContext, TypeOK, Modes
  <2>12. CASE IntCallReal
    BY <2>12 DEF IntCallReal, TypeOK, Idts
  <2>13. CASE IntCallInt
    BY <2>13 DEF IntCallInt
  <2>14. CASE ServiceFlag
    BY <2>14 DEF ServiceFlag
  <2>15. CASE ServiceReturn
    BY <2>15 DEF ServiceReturn
  <2>16. CASE IntCallProtect
    BY <2>16 DEF IntCallProtect, TypeOK, Idts
  <2>17. CASE IntCallReturn
    BY <2>17 DEF IntCallReturn
  <2>18. CASE DeviceRaise \/ DeviceWithdraw
    BY <2>18 DEF DeviceRaise, DeviceWithdraw, Raise, Withdraw
  <2>19. CASE Recognise
    BY <2>19 DEF Recognise
  <2>20. CASE AckPrimary \/ AckSecondary
    BY <2>20 DEF AckPrimary, AckSecondary, AcknowledgePrimary, AcknowledgeSecondary
  <2>21. CASE Dispatch
    <3>1. Target(Vector(hs.irq)) \in {"ivt", "isr0"}
      BY <2>21, DispatchTarget DEF Dispatch
    <3>. QED BY <2>21, <3>1 DEF Dispatch, TypeOK, HandlerState
  <2>22. CASE IvtHandler
    BY <2>22 DEF IvtHandler, TypeOK, HandlerState
  <2>23. CASE ClearReadPrimary \/ ClearReadSecondary
    BY <2>23 DEF ClearReadPrimary, ClearReadSecondary, TypeOK, HandlerState
  <2>24. CASE ClearSecondary \/ ClearPrimary \/ HandlerIret
    BY <2>24 DEF ClearSecondary, ClearPrimary, HandlerIret, EndOfInterrupt, TypeOK,
       HandlerState
  <2>25. CASE UNCHANGED vars
    BY <2>25
  <2>. QED BY <1>2, <2>1, <2>2, <2>3, <2>4, <2>5, <2>6, <2>7, <2>8, <2>9, <2>10, <2>11,
          <2>12, <2>13, <2>14, <2>15, <2>16, <2>17, <2>18, <2>19, <2>20, <2>21, <2>22,
          <2>23, <2>24, <2>25 DEF Next
<1>. QED BY <1>1, <1>2, TypeCorrect, PTL DEF Spec

\* The processor never takes an interrupt through the table of the other mode.
THEOREM TablesAlwaysMatch == Spec => []TablesMatchMode
<1>1. ModeInv => TablesMatchMode
  BY DEF ModeInv, FlagInv, ControlInv, TablesMatchMode, OpenLabels, RealLabels,
     IdtLabels, InService, TypeOK, Labels, Modes, Idts
<1>. QED BY <1>1, ModeInvHolds, PTL

\* No interrupt, spurious ones included, resets the processor.
THEOREM ProcessorNeverResets == Spec => []NeverResets
<1>1. ModeInv => NeverResets
  BY DEF ModeInv, ControlInv, NeverResets
<1>. QED BY <1>1, ModeInvHolds, PTL

\* kIntCall gives its caller back the context it took, DS and ES widened to 4 GB.
THEOREM IntCallRoundTrip == Spec => []IntCallRestores
<1>1. ASSUME ModeInv, pc \in {"pemode", "kernel", "halt"}, caller # NoContext
      PROVE  /\ mode = caller.mode /\ gdtr = caller.gdtr /\ idtr = caller.idtr
             /\ esp = caller.esp
             /\ segs = [caller.segs EXCEPT !.data = "extra"]
  <2> USE <1>1 DEF ModeInv, ControlInv, CallInv, RealLabels, IdtLabels
  <2>1. mode = caller.mode /\ gdtr = caller.gdtr /\ idtr = caller.idtr /\ esp = caller.esp
    BY DEF TypeOK, Modes, Idts
  <2>2. /\ segs.data = "extra" /\ segs.extra = caller.segs.extra
        /\ segs.stack = caller.segs.stack
    OBVIOUS
  <2>3. segs \in Segs /\ caller.segs \in Segs
    BY DEF TypeOK, Context
  <2>4. segs = [caller.segs EXCEPT !.data = "extra"]
    BY <2>2, <2>3 DEF Segs
  <2>. QED BY <2>1, <2>4
<1>2. ModeInv => IntCallRestores
  BY <1>1 DEF IntCallRestores
<1>. QED BY <1>2, ModeInvHolds, PTL

-----------------------------------------------------------------------------
(* What a handler leaves in service. *)

\* A request numbered below all of S (so of higher priority) is the top of S with it.
LEMMA TopOfUnion ==
    ASSUME NEW S \in SUBSET (0..15), NEW i \in 0..15, \A j \in S : i < j
    PROVE  Top(S \cup {i}) = {i}
<1>1. i \in Top(S \cup {i})
  BY DEF Top
<1>2. ASSUME NEW k \in Top(S \cup {i}) PROVE k = i
  <2>1. k \in S \cup {i} /\ k <= i
    BY DEF Top
  <2>. QED BY <2>1
<1>. QED BY <1>1, <1>2

\* A non-specific end of interrupt ends what is pending on its chip.
LEMMA EoiEnds ==
    ASSUME NEW chip, Pending(chip), hs.own \cap hs.found = {}, EndOfInterrupt(chip),
           hs'.found = hs.found, hs'.own = hs.own
    PROVE  Ended(chip)'
<1>1. isr' \cap chip = (isr \cap chip) \ Top(isr \cap chip)
  BY DEF EndOfInterrupt
<1>2. CASE hs.own \cap chip # {}
  <2>1. isr' \cap chip = hs.found \cap chip
    BY <1>1, <1>2 DEF Pending
  <2>. QED BY <1>2, <2>1 DEF Ended
<1>3. CASE hs.own \cap chip = {}
  <2>1. isr \cap chip = hs.found \cap chip
    BY <1>3 DEF Pending
  <2>. QED BY <1>1, <1>3, <2>1 DEF Ended
<1>. QED BY <1>2, <1>3

\* From its acknowledge to iretd an interrupt adds its own bits in front of those it
\* found, and its handler ends them.
LEMMA LeakInvHolds == Spec => [](ModeInv /\ LeakInv)
<1>1. ASSUME Init PROVE LeakInv
  BY <1>1 DEF Init, LeakInv
<1>2. ASSUME ModeInv, LeakInv, [Next]_vars PROVE LeakInv'
  <2> USE <1>2
  <2> /\ isr \in SUBSET (0..15) /\ irr \in SUBSET (0..15) /\ hs \in HandlerState
    BY IrqAssumption DEF ModeInv, TypeOK, PicTypeOK
  <2>1. CASE Loader \/ Setup \/ IntCall \/ Halt \/ ServiceFlag
    BY <2>1 DEF Runs, LoaderStart, LoaderBanner, LoaderProtect, EnterHLLM, Hangloop, setupGdt,
       setupIdtGates, setupIdtPic, setupIdtSwitch, setupIdtEnable, IntCallEnter,
       IntCallReal, IntCallInt, ServiceReturn, IntCallProtect, IntCallReturn, Halt,
       ServiceFlag, LeakInv
  <2>2. CASE DeviceRaise \/ DeviceWithdraw
    BY <2>2 DEF DeviceRaise, DeviceWithdraw, Raise, Withdraw, LeakInv, Pending, Ended
  <2>3. CASE Recognise
    BY <2>3 DEF Recognise, LeakInv
  <2>4. CASE AckPrimary
    <3>1. PICK i \in Primary : /\ AcknowledgePrimary(i)
                               /\ hs' = [step |-> IF i = Cascade THEN "ack2" ELSE "vector",
                                         irq |-> i, found |-> hs.found,
                                         own |-> isr' \ isr]
      BY <2>4 DEF AckPrimary
    <3>2. isr = hs.found
      BY <2>4 DEF AckPrimary, LeakInv
    <3>3. CASE PrimaryWants = {}
      BY <3>1, <3>2, <3>3 DEF AcknowledgePrimary, Cascade, LeakInv, Pending
    <3>4. CASE PrimaryWants # {}
      <4>1. /\ isr' = hs.found \cup {i} /\ hs'.found = hs.found
            /\ hs'.step \in {"ack2", "vector"} /\ (hs'.step = "ack2" => i = Cascade)
        BY <3>1, <3>2, <3>4 DEF AcknowledgePrimary
      <4>2. \A j \in hs.found \cap Primary : i < j
        BY <3>1, <3>2, <3>4 DEF AcknowledgePrimary, PrimaryWants, Wants, Top
      <4>3. i \notin hs.found /\ hs'.own = {i}
        BY <3>1, <3>2, <4>1, <4>2 DEF Primary
      <4>4. isr' \cap Primary = (hs.found \cap Primary) \cup {i}
        BY <4>1 DEF Primary
      <4>5. Top(isr' \cap Primary) = {i}
        <5>. hs.found \cap Primary \in SUBSET (0..15) /\ i \in 0..15
          BY DEF Primary
        <5>. QED BY <4>2, <4>4, TopOfUnion, Zenon
      <4>6. Pending(Primary)' /\ Pending(Secondary)'
        BY <4>1, <4>3, <4>4, <4>5 DEF Pending, Primary, Secondary
      <4>. QED BY <4>1, <4>2, <4>3, <4>6 DEF LeakInv, Primary
    <3>. QED BY <3>3, <3>4
  <2>5. CASE AckSecondary
    <3>1. PICK i \in Secondary : /\ AcknowledgeSecondary(i)
                                 /\ hs' = [step |-> "vector", irq |-> i,
                                           found |-> hs.found,
                                           own |-> hs.own \cup (isr' \ isr)]
      BY <2>5 DEF AckSecondary
    <3>2. /\ isr = hs.found \cup {Cascade} /\ \A j \in hs.found \cap Primary : Cascade < j
          /\ hs.own = {Cascade} /\ Cascade \notin hs.found
      BY <2>5 DEF AckSecondary, LeakInv
    <3>3. isr' \cap Primary = (hs.found \cap Primary) \cup {Cascade}
      BY <3>1, <3>2 DEF AcknowledgeSecondary, Top, SecondaryWants, Wants, Primary,
         Secondary, Cascade
    <3>4. Top(isr' \cap Primary) = {Cascade}
      <4>. hs.found \cap Primary \in SUBSET (0..15) /\ Cascade \in 0..15
        BY DEF Primary, Cascade
      <4>. \A j \in hs.found \cap Primary : Cascade < j
        BY <3>2
      <4>. QED BY <3>3, TopOfUnion, ZenonT(40)
    <3>5. CASE SecondaryWants = {}
      <4>1. isr' = isr /\ hs'.own = {Cascade} /\ hs'.found = hs.found
        BY <3>1, <3>2, <3>5 DEF AcknowledgeSecondary
      <4>2. Pending(Primary)' /\ Pending(Secondary)'
        BY <3>2, <3>3, <3>4, <4>1 DEF Pending, Primary, Secondary, Cascade
      <4>. QED BY <3>1, <3>2, <4>1, <4>2 DEF LeakInv, Primary, Cascade
    <3>6. CASE SecondaryWants # {}
      <4>1. isr' = isr \cup {i} /\ \A j \in isr \cap Secondary : i < j
        BY <3>1, <3>6 DEF AcknowledgeSecondary, SecondaryWants, Wants, Top, Primary,
           Secondary
      <4>2. isr' \cap Secondary = (isr \cap Secondary) \cup {i}
        BY <4>1 DEF Secondary
      <4>3. Top(isr' \cap Secondary) = {i}
        <5>. isr \cap Secondary \in SUBSET (0..15) /\ i \in 0..15
          BY DEF Secondary
        <5>. QED BY <4>1, <4>2, TopOfUnion, ZenonT(40)
      <4>4. i \notin isr /\ hs'.own = {Cascade, i} /\ hs'.found = hs.found
        BY <3>1, <3>2, <4>1 DEF Secondary
      <4>5. Pending(Primary)' /\ Pending(Secondary)'
        BY <3>2, <3>3, <3>4, <4>2, <4>3, <4>4 DEF Pending, Primary, Secondary, Cascade
      <4>. QED BY <3>1, <3>2, <4>4, <4>5 DEF LeakInv, Primary, Cascade
    <3>. QED BY <3>5, <3>6
  <2>6. CASE Dispatch
    <3>1. Target(Vector(hs.irq)) \in {"ivt", "isr0"}
      BY <2>6, DispatchTarget DEF Dispatch
    <3>. QED BY <2>6, <3>1 DEF Dispatch, HandlerState, LeakInv, Pending
  <2>7. CASE IvtHandler \/ HandlerIret
    BY <2>7 DEF IvtHandler, HandlerIret, HandlerState, LeakInv
  <2>8. CASE ClearReadPrimary
    <3>1. isr' = isr /\ hs'.found = hs.found /\ hs'.own = hs.own
      BY <2>8 DEF ClearReadPrimary, HandlerState
    <3>2. CASE isr \cap Primary = {}
      <4>1. hs.own = {} /\ hs.found \cap Primary = {}
        BY <2>8, <3>2 DEF ClearReadPrimary, LeakInv, Pending
      <4>2. Ended(Primary)' /\ Ended(Secondary)'
        BY <2>8, <3>1, <3>2, <4>1 DEF ClearReadPrimary, LeakInv, Pending, Ended
      <4>. QED BY <2>8, <3>1, <3>2, <4>1, <4>2 DEF ClearReadPrimary, LeakInv, HandlerState
    <3>3. CASE isr \cap Primary # {}
      BY <2>8, <3>1, <3>3 DEF ClearReadPrimary, LeakInv, Pending, HandlerState
    <3>. QED BY <3>2, <3>3
  <2>9. CASE ClearReadSecondary
    <3>1. isr' = isr /\ hs'.found = hs.found /\ hs'.own = hs.own
      BY <2>9 DEF ClearReadSecondary, HandlerState
    <3>2. isr \cap Secondary = {} => Ended(Secondary)'
      BY <2>9, <3>1 DEF ClearReadSecondary, LeakInv, Pending, Ended
    <3>. QED BY <2>9, <3>1, <3>2 DEF ClearReadSecondary, LeakInv, Pending, HandlerState
  <2>10. CASE ClearSecondary
    <3>1. /\ hs'.found = hs.found /\ hs'.own = hs.own /\ hs'.step = "eoi0"
          /\ EndOfInterrupt(Secondary)
      BY <2>10 DEF ClearSecondary, HandlerState
    <3>2. isr' \cap Primary = isr \cap Primary
      BY <3>1 DEF EndOfInterrupt, Primary, Secondary, Top
    <3>3. /\ Pending(Primary) /\ Pending(Secondary)
          /\ hs.own \cap hs.found = {}
      BY <2>10 DEF ClearSecondary, LeakInv
    <3>4. Ended(Secondary)'
      BY <3>1, <3>3, EoiEnds
    <3>5. Pending(Primary)'
      BY <3>1, <3>2, <3>3 DEF Pending
    <3>. QED BY <3>1, <3>3, <3>4, <3>5 DEF LeakInv
  <2>11. CASE ClearPrimary
    <3>1. /\ hs'.found = hs.found /\ hs'.own = hs.own /\ hs'.step = "iret"
          /\ EndOfInterrupt(Primary)
      BY <2>11 DEF ClearPrimary, HandlerState
    <3>2. isr' \cap Secondary = isr \cap Secondary
      BY <3>1 DEF EndOfInterrupt, Primary, Secondary, Top
    <3>3. /\ Pending(Primary) /\ Ended(Secondary)
          /\ hs.own \cap hs.found = {}
      BY <2>11 DEF ClearPrimary, LeakInv
    <3>4. Ended(Primary)'
      BY <3>1, <3>3, EoiEnds
    <3>5. Ended(Secondary)'
      BY <3>1, <3>2, <3>3 DEF Ended
    <3>. QED BY <3>1, <3>3, <3>4, <3>5 DEF LeakInv
  <2>12. CASE UNCHANGED vars
    BY <2>12 DEF LeakInv, Pending, Ended
  <2>. QED BY <1>2, <2>1, <2>2, <2>3, <2>4, <2>5, <2>6, <2>7, <2>8, <2>9, <2>10, <2>11,
          <2>12 DEF Next
<1>. QED BY <1>1, <1>2, ModeInvHolds, PTL DEF Spec

\* A protected-mode handler ends its own interrupt, and at most the highest of those
\* the real mode left on a chip where it has none of its own.
THEOREM HandlersEndTheirOwn == Spec => []HandlerEndsItsOwn
<1>1. LeakInv => HandlerEndsItsOwn
  BY DEF LeakInv, Ended, HandlerEndsItsOwn
<1>. QED BY <1>1, LeakInvHolds, PTL

-----------------------------------------------------------------------------
(* When every real-mode handler acknowledges what it serves. *)

QuietInv ==
    ivtEoi = 0..15 =>
    /\ hs.step = "none" => isr = {}
    /\ hs.step # "none" => hs.found = {}
    /\ hs.step \in {"vector", "ivt"} =>
          isr \subseteq {hs.irq} \cup IF hs.irq \in Secondary THEN {Cascade} ELSE {}

\* Between interrupts no line is blocked behind a missing end of interrupt, if the
\* real-mode vectors acknowledge.
THEOREM QuietBetweenInterrupts == Spec => []NothingLeftInService
<1>1. ASSUME Init PROVE QuietInv
  BY <1>1 DEF Init, PicInitial, QuietInv
<1>2. ASSUME ModeInv, LeakInv, LeakInv', QuietInv, [Next]_vars PROVE QuietInv'
  <2> USE <1>2 DEF QuietInv
  <2> hs \in HandlerState
    BY DEF ModeInv, TypeOK
  <2>1. CASE Loader \/ Setup \/ IntCall \/ Halt \/ ServiceFlag
    BY <2>1 DEF Runs, LoaderStart, LoaderBanner, LoaderProtect, EnterHLLM, Hangloop, setupGdt,
       setupIdtGates, setupIdtPic, setupIdtSwitch, setupIdtEnable, IntCallEnter,
       IntCallReal, IntCallInt, ServiceReturn, IntCallProtect, IntCallReturn, Halt,
       ServiceFlag, kPicInit
  <2>2. CASE DeviceRaise \/ DeviceWithdraw \/ Recognise
    BY <2>2 DEF DeviceRaise, DeviceWithdraw, Raise, Withdraw, Recognise
  <2>3. CASE AckPrimary
    BY <2>3 DEF AckPrimary, AcknowledgePrimary, LeakInv
  <2>4. CASE AckSecondary
    BY <2>4 DEF AckSecondary, AcknowledgeSecondary, LeakInv
  <2>5. CASE Dispatch
    <3>1. Target(Vector(hs.irq)) \in {"ivt", "isr0"}
      BY <2>5, DispatchTarget DEF Dispatch
    <3>. QED BY <2>5, <3>1 DEF Dispatch, HandlerState
  <2>6. CASE IvtHandler
    BY <2>6 DEF IvtHandler, HandlerState
  <2>7. CASE ClearReadPrimary \/ ClearReadSecondary \/ ClearSecondary \/ ClearPrimary
    BY <2>7 DEF ClearReadPrimary, ClearReadSecondary, ClearSecondary, ClearPrimary,
       EndOfInterrupt, HandlerState
  <2>8. CASE HandlerIret
    <3>1. isr \in SUBSET (0..15) /\ hs'.step = "none" /\ isr' = isr /\ ivtEoi' = ivtEoi
      BY <2>8, IrqAssumption DEF HandlerIret, HandlerState, ModeInv, TypeOK, PicTypeOK
    <3>2. hs.found = {} => isr \cap Primary = {} /\ isr \cap Secondary = {}
      BY <2>8 DEF HandlerIret, LeakInv, Ended
    <3>. QED BY <2>8, <3>1, <3>2 DEF HandlerIret, Primary, Secondary
  <2>9. CASE UNCHANGED vars
    BY <2>9
  <2>. QED BY <1>2, <2>1, <2>2, <2>3, <2>4, <2>5, <2>6, <2>7, <2>8, <2>9 DEF Next
<1>3. QuietInv => NothingLeftInService
  BY DEF QuietInv, NothingLeftInService
<1>. QED BY <1>1, <1>2, <1>3, LeakInvHolds, PTL DEF Spec
=============================================================================
