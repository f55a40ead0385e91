# Verification of bootldr

TLA+ models of the two-stage boot loader (`src/bootldr`, NASM) and of the small
kernel it starts (`src/vkern`, C and C++), the TLC configurations that check
them, and TLAPS proofs about all of them but the string functions.

    tlc -workers 2 -config MCModeSwitch.cfg MCModeSwitch     # any run
    tlapm ModeSwitchProofs.tla                               # any *Proofs module

Line numbers below are those of the files under `src/`.

## 1. Inventory

| Component | Source | State it keeps | Operations | Module |
|---|---|---|---|---|
| Stage 1 loader | `bl_boot.asm`, `const.inc`, `btdata.inc` | boot data, image in memory, registers BX, CL, DI | `start`, `kLoadImage` | `NetBoot` |
| 16-bit serial port | `serial.inc` | UART receiver and transmitter | send, receive, both polled | `NetBoot`, `DebugFraming` |
| Stage 2 loader | `bl_loader.asm` 49-257 | CR0.PE, GDTR, IDTR, IF, segments, stack | `start`, `pentry` | `ModeSwitch` |
| Image check and relocation | `bl_loader.asm` 272-467 | image in memory, stack of copy tasks | `kCheckImage`, `kRelocateImage`, `kEnterHLLM` | `Relocate` |
| Real-mode calls | `bl_loader.asm` 508-650 | boot data, a fixed real-mode stack, everything above | `kIntCall` | `ModeSwitch` |
| Descriptor tables and gates | `vkern.cpp` 217-451, `hw.c` | GDT, IDT, table images in boot data | `setupGdt`, `setupIdt`, `hw*` | `ModeSwitch` |
| Interrupt controllers | `pic.cpp` | IRR, ISR, IMR and vector base of both chips | `kPicInit`, `kPicClearBoth` | `Pic8259` |
| Real-time clock | `rtc.cpp` | the clock's registers, bytes read so far | `kRtcGetDateTime` | `Rtc` |
| Debug packets | `debug.inc`, `debug32.inc`, `serial32.inc`, `serial.cpp`, `vkern.cpp` 56-119 | packet buffers, transmitter | `kDbg*`, `kDbg*32`, `kdSend*` | `DebugFraming` |
| Formatted output | `tprintf.cpp` | string buffer, format state machine | `kSprintf`, `printInt` | `Sprintf` |
| Memory map | `const.inc`, `debug32.inc`, `ps2.inc`, `vkern.cpp` 186-212 | which object lies where at which stage, A20 | every write of the components above | `BootMemory` |
| Video modes | `vkern.cpp` 587-900 | VBE blocks, chosen mode, frame buffer | `initVesa`, `draw32quad` | `Vesa` |
| Strings | `tstrp.h`, `tstr.h`, `tstr.cpp`, `tunic.h` | the caller's buffer | `tsz*`, `asz*`, `wsz*` | `TStr` |
| ACPI tables | `acpi.cpp`, `acpi.h` | none (tables are read and printed) | `initAcpi`, which nothing calls | not modelled |

How they interact. Stage 1 asks the debug host for the image over the serial
line and jumps into it. Stage 2 is the front of that image: it enters protected
mode, relocates the PE kernel behind itself and jumps into it, and leaves
`kIntCall` and the boot data (BTDATA) behind for the kernel. The kernel replaces
GDT and IDT, moves the interrupt controllers' vectors, enables interrupts, and
from then on calls the BIOS through `kIntCall`, which goes to real mode and back
and exchanges table registers with images in BTDATA. All of them speak to the
debug host in packets; the kernel formats its text with `kSprintf`.

What is hard in it:

* *Interleaving.* Interrupts come between any two instructions with IF set, and
  during a BIOS call they are delivered through the real-mode table while the
  controllers still use the protected-mode vectors.
* *Mixtures of two modes.* CR0.PE, IDTR, GDTR, segments and vector bases change
  one by one; in between, an interrupt would be fatal.
* *Hardware that answers twice or not at all.* Spurious IRQ7 and IRQ15, a clock
  that updates under the reader, a UART without a FIFO, a host that may send at
  any speed, machine resets in the middle of a transfer.
* *16-bit arithmetic and unsigned remains* in the loader's counters and the
  formatter's lengths.
* *Two loops that must agree* on a count: pushed and popped copy tasks, packet
  writers and the reader.

What makes each component correct is stated in sections 3 and 4; the hazards,
one by one with their lines, are the `hazards` of `PROJECT.json`.

## 2. Plan

Written, in this order: `Pic8259` and `ModeSwitch` (everything else depends on
interrupts being survivable), `NetBoot` with its abstract `ImageTransfer`, `Rtc`,
`Relocate` with its abstract `ImagePlacement`, `DebugFraming` with its abstract
`MessageChannel`, `Sprintf`, `Vesa`, `BootMemory`, `TStr`; and a module of
proofs for each of the detailed ones but `TStr`. `ModeSwitch` extends `Pic8259`;
`NetBoot`, `Relocate` and `DebugFraming` instantiate what they implement. `BootMemory` runs over the same stages as `NetBoot`,
`Relocate`, `ModeSwitch` and `Vesa` and is about the one thing they share,
memory; the other modules each take their memory as their own.

Left: the general registers `kIntCall` carries, and theorems about `TStr`, whose
numbers would first have to be written without `RECURSIVE` operators.

## 3. Modules

### Pic8259

The cascaded pair. `irr`, `isr`, `imr`, `base` are IRR, ISR, IMR and ICW2 of both
chips, lines numbered 0..15. `kPicInit` is the whole ICW1..ICW4 sequence (it
clears requests, services and masks); `EndOfInterrupt` is the non-specific end
of interrupt `kPicClearBoth` writes. Priorities, acknowledge cycles and the
spurious vector (request gone before the acknowledge) are external: the chip's
data sheet, not the sources. Handlers in `ModeSwitch` read and write the chips
one access at a time.

### ModeSwitch, ModeSwitchProofs

State: `pc` (a block of the program that runs without an interruptible point
inside, or between two of them), `mode` (CR0.PE), `gdtr`, `idtr`, `segs` (what DS
and ES, FS and GS, and SS hold: a real-mode segment or a selector), `esp`,
`ifl` (IF), `gates` (whether the IDT is filled), `bt` (BTDATA's four table images and
the segments of either mode), `created`/`caller` (what `kIntCall` saved, and what it
was called with), `hs` (the interrupt handler in progress, its step and, as history,
the bits it found in service and those it set itself). `ivtEoi`, chosen once, is the
set of lines whose real-mode handler at 20h..2Fh acknowledges: the code leaves
the controllers at those vectors during a BIOS call, so it is the BIOS that
decides, and the properties that need an acknowledgement say so.

Actions follow the code's blocks: `LoaderStart` .. `LoaderProtect`
(`bl_loader.asm` 49-183), `EnterHLLM` or, for an image that fails the check, `Hangloop`
(254-261), `setupGdt`, which changes the data selector in `bt` but not in DS and ES, the four parts of `setupIdt`,
`Halt`, and `kIntCall` cut where it changes mode: `IntCallEnter` (508-549),
`IntCallReal` (550-580), `IntCallInt` (581-599), the external service with
interrupts on or off as it likes, `IntCallProtect` (600-637), `IntCallReturn`
(638-650). The kernel's handler `IntHandlerExt` is `ClearReadPrimary`,
`ClearReadSecondary`, `ClearSecondary`, `ClearPrimary`, `HandlerIret`: one action
per port read or pair of writes of `kPicClearBoth`. An interrupt with no gate, or
through the other mode's table, is the state `reset`.

Not in it: the general registers `kIntCall` carries, descriptor bit layouts,
A20 (see `BootMemory`), exceptions. The loader is taken to lie below 10000h: with one
at or above it `kIntCall` faults on its way to real mode (`BootMemory`), and what is
said here of calls, resets and interrupts is not said of it.

### ImageTransfer, NetBoot, NetBootProofs

`NetBoot` is `kLoadImage` against the host: reply, six header bytes echoed one by
one, blocks requested one at a time. `bx`, `cl`, `di` are the registers, with
their width (`WordSize`). Bytes are what they are (reply, k-th header byte, k-th
image byte); an image byte may equal the reply type (`ReplyBytes`). `rx` is the
UART (one byte, no FIFO), `down` and `up` the line in both directions,
`throttled` says whether the line waits for the UART. `Reset` restarts the
machine at any moment, with host and line left as they are; `MaxResets` bounds
it for each kind of line. The host is external. `ImageTransfer!StartOver` is what a
reset is to the abstract transfer.
`ImageTransfer` is the promise: bytes arrive in order, the image is entered once
it is whole; `NetBoot!Transfer` maps the loader onto it.

### Rtc, RtcProofs

`kRtcGetDateTime` one port access at a time against an external clock. Time is
counted in the reader's steps: `Lead` fit between UIP and the update, `Idle`
between two updates. During an update registers read as anything (`Garbage`). All
four data formats; `Convert` is the BCD/12-hour conversion with its PM bit.

### ImagePlacement, Relocate, RelocateProofs

`kCheckImage`, `kRelocateImage`, the jump. Memory maps an address to the file
offset of the byte it holds, so "in place" is a statement about every byte.
`FindSections` keeps the upper half of EAX, as the code does; `PushSection`,
`PushHeader` build the task stack, `LoadTask`, `MoveDword` (one turn of
`rep movsd`), `NextTask` execute it, `Ret` takes whatever lies on top. Section
headers are addressed by index; the 28h-byte stride is left out.
`ImagePlacement` is the promise, in terms of the file alone: a file is refused, memory as
it was, or its bytes come to the places its headers give them, in any order and any
number at a time, and it is entered when they all are there and every other byte of
memory is what it was. `Relocate!Placement` maps the program onto it: `memory` is
`memory`, `outcome` is read off `pc`, and `Mapped` is the finished memory. Each dword moved
is a placement step; walk and stack are stutters.

### MessageChannel, DebugFraming, DebugFramingProofs

Senders byte by byte, with the packet buffers' stale contents, the least length
and the zero at which `kSerialPortTransferBuffer` stops, and the transmitter's
single register. The host is external and takes packets apart as the comments
`debug.inc:5-10` and `vkern.cpp:56-64` define them.
`MessageChannel` is the promise: what is begun is shown, as it was, in order and once, and
at most `Room` messages are on their way. `DebugFraming!Channel` maps a message sent to
what of it is to be seen (`Shown`: text ends at its terminator), the messages shown to
`seen`, and `Room` to 2: a sender may go on to the next message while the last byte of
the one before is in the transmitter. With 1 TLC finds a counterexample.

### Sprintf, SprintfProofs

One action per turn of `kSprintf`'s loop. `CharType` and `NextStates` are the
code's two tables. `printInt` gives the text written and the length returned,
which differ when the buffer is short; `strRemain` wraps at `DwordSize`. `args` are
the arguments a conversion may find, of right and wrong types. Characters of
memory are letters, what the formatter has of its own, the terminator, or `"old"` for
one nobody wrote. `pbySrc` is kept
because a wide string's NULL test reads it; while it was never set the test goes
either way. What the comment at `tprintf.cpp:46-124` says is written
independently (`Documented`), from the text of the specification: the width pads
every value, numbers with blanks or zeroes, all others with blanks. Calls with a
NULL or empty buffer, which return at once, are left out.

### Vesa, VesaProofs

`initVesa` and `draw32quad`. `list` is the BIOS's list without its end mark, `iMode` the
entry looked at, `block` the mode information block at `MEM_VBEMODE_BASE`, which a
failing call leaves as it was, `display` the `DISPLAYBUFFER`, `card` the mode the
adapter really is in. `GetControllerInfo`, `GetModeInfo`, `JudgeMode`, `EndOfList`
and `SetMode` are the steps between the BIOS calls; of the calls only the first
has its result looked at. `DrawRow` is one turn of the outer loop, `painted` the
pixels written so far by their distance from the start of the buffer. `answered`
is a history variable: the modes the BIOS described. `display` starts as
`NoBuffer`: its fields but `bValid` are uninitialized in the code, and never read
before a mode is chosen.

### BootMemory, BootMemoryProofs

An object is what somebody puts at a place and somebody reads later: the
interrupt vectors, the BIOS data area, the boot record, each stack, boot data, the
loader and the module's file behind it, the packet being put together, the module
in place and its stack, what `kIntCall` saves, GDT, IDT and the two VBE blocks.
`laid` is where each lies as memory sees it (without A20 an odd megabyte is
seen as the one below, `Seen`), `intact` the ones nobody else wrote over, `misread` those
read when no longer intact. Each action is one stage: it reads some objects and
lays down others, with stacks as deep as `StackDepths` lets them be. `setupGdt`
is two of them, `ClearGdt` and `CopyGdt`, for it reads between two writes. `kIntCall`
is cut where it jumps through a code descriptor of 64 KB to the address of `limit64k`
(538-549): `IntCallReal` gets there with a loader below 10000h, `IntCallFault` is the
processor's reset with one above, for `setupIdt` has no gate for exceptions.

### TStr

`mem` is memory, one character code per address; `ptr` the caller's pointer. The
functions are operators: a loop of the code is the first address at which its
exit condition holds. `Copy` and `Number` write at the pointer and move it by what is
returned, the way the commented-out listing of `vkern.cpp:453-475` does; `Catenate` is
a call of `tszcat` or `tszncat` on the buffer, as nothing in the repository makes it, so
that what it returns is left alone and the pointer stays where it is, in the midst of
the text. The calls come in any order, with any arguments. `said` is the text the
comments of the functions promise to be in the buffer, `told` the characters they say
were copied at the pointer; the properties compare them with memory, and the searching,
comparing and reading functions with reference definitions on it. The wide and
the byte versions are one text compiled twice (`tstr.cpp`); a code below zero
stands for the signed `char` of the latter. The module declares `RECURSIVE`
operators, so nothing is proved about it.

## 4. Runs

| Run | Instance | Shows |
|---|---|---|
| `mode_switch` | lines 0, 7, 8, 15; real-mode vectors that acknowledge all lines or none | `TablesMatchMode`, `NeverResets`: interrupts are only ever enabled when mode, IDTR, gates and vector bases agree. `IntCallRestores`: a call gives back the caller's context, but for DS and ES, which hold the selector `setupGdt` chose. `HandlerEndsItsOwn`: on each chip the kernel's handler ends the interrupt it was called for, and no other; where that one set no bit, at most one, the highest, of those real mode left in service. `NothingLeftInService`, `TimerIsServed`: no line blocked for ever, where the real-mode vectors acknowledge. `IntCallReturns`. |
| `net_boot` | 3 blocks of 4 bytes, words of 16 values, both kinds of line, two resets on the one that waits, image bytes that look like a reply | `TransferSpec`, `Boots` on a throttled line; `EntersOnlyWholeImage` with overruns, and after resets, if the last request went out with nothing of an earlier answer on the line; `HostStaysInFile`. |
| `net_boot_large` | an image one block over a word | violation (finding 1). |
| `rtc` | five instants over the end of 1999 and noon | `ReturnsOneInstant`: the fields belong to one second; `LoopEnds`. |
| `relocate` | 1..3 sections of 0, 4, 8 file bytes | `PlacesImage`: an implementation of `ImagePlacement`, so that what is entered is the whole image. `StaysInImage`, `TasksBalance`, `Enters`. |
| `debug_framing` | three messages of every kind | `IsChannel`: an implementation of `MessageChannel`. `InStep`, `EachIsShown`. |
| `sprintf` | up to three pieces, buffers of 1, 2, 5 and 30; strings with a width they fill and with one they do not | `NeverOverruns`, `Terminated`, `PrintsAsDocumented` (`Agreed` keeps the latter strings out). |
| `sprintf_overrun` | a three-digit number in two or three characters | violation (finding 2). |
| `display` | lists of up to three of seven modes in any order: three that will do, one of them with padded lines, a windowed one, ones of the wrong depth or size | `DescribesItsMode`: buffer, size and mode belong together. `ChoosesTheLastSuitable`. `StaysInFrame`: no pixel outside the buffer, even if every call failed. `PictureAsDrawn`: the picture of the comment at 838, without a jump from pixel to pixel. `Ends`. |
| `boot_memory` | images of 5900h to 18000h bytes at 8000h, of 9000h at 10000h and 20000h | `ReadsWhatWasPut`: every stage finds what was left for it, but for a loader placed where `setupGdt` clears memory; at 20000h up to the first `kIntCall`, which resets the processor. |
| `boot_memory_bios` | the same | violation (finding 3). |
| `strings` | a buffer of five characters, five sources, radixes 1, 8, 10, 36 | `TextAsSaid`, `ReadsBack`, `FindsAndCompares`. |

Bounds, and why they are enough:

* Lines 0 and 7 are the primary's first and last, 8 and 15 the secondary's; 7 and
  15 may come out spurious. That gives every case `kPicClearBoth` distinguishes,
  nesting by priority within a chip and across the cascade. The theorems cover
  every other set of lines.
* Two stack pointers tell a restored one from one left over.
* Three blocks of four bytes: a first, a middle and a last block; words of 16
  values make the registers' width matter at 64k's place. `LineDepth` 4 is above
  what the loader ever has unanswered.
* `Lead = 2` and `Idle = 16` are tight: with `Lead` 1 the model returns mixed
  seconds, with `Idle` 15 the loop need not end. In real time the hardware
  promises 244 us for two port accesses, and 16 accesses fit in a second. The
  clock starts anywhere in its cycle. `OneInstantReturned` covers every `Lead` from 2
  on and every `Idle`, `FewPasses` every `Idle` from 16 on and every `Lead`.
* Three sections make a first, a middle and a last one; sizes 0, 4 and 8 a
  section without file data, one shorter than its memory, one that fills it. The
  first section always has file data, as in every image the linker makes: its
  file offset is taken for the size of the headers. File sizes are whole dwords,
  as file alignment has it; entry offsets fit in a word (see hazard
  `bl_loader.asm:377`). Images with no section at all are left out: the code
  would push tasks for 2^32 of them.
* Three messages let any packet follow any other with stale bytes in between.
  Strings are not empty where the code cannot send an empty one
  (`kDbgStr`, `kdSendKString`).
* `Vesa` scales 256 to 4 (`Side`): the picture is 8 by 8 in frames of 13 to 20 by 10 to
  12, which stand for 800..1280 by 600..768. What matters of the sizes is
  that twice `Side` fits in the least frame (`VesaAssumption`), and that a frame may be
  wider and higher than the picture. `VesaProofs` covers every size.
* `BootMemory` uses the real addresses. The depth of the BIOS's stacks (10h, 60h), the
  size of the boot record's code (1A0h) and the offset of `dbgbuf32` (480h, counted
  by hand through `bl_loader.asm`) are assumptions: what matters of them is that record
  and stack fit in 200h bytes and that the offset is past the vectors (400h) and below
  800h, the size of the loader. The theorems cover every image, depth and offset of the kind.
* `TStr`: five characters hold an empty string, one cut short, and three calls one
  behind the other; the sources differ in case only, in a character next to
  the letters, and in one above 127. An int has 256 values, so that numbers wrap.
  The last radix has letters, the first is none.
* Buffers of 1, 2 and 5 are shorter than, equal to and longer than each of
  the conversions; numbers have one digit there, because a longer one breaks
  `NeverOverruns` (finding 2). DWORDs have 256 values and QWORDs 65536; the proofs need DWORDs
  of a multiple of 16 values, so that cutting a number to one keeps its last
  hexadecimal digit.

Deadlock is checked everywhere but in `net_boot`, where a line that loses bytes
really leaves the loader polling for ever. Where a program has ended (`Done`,
`Finished`) the state repeats; in `mode_switch` the devices go on after a hang or halt.

Fairness. `ModeSwitch`: a handler, once dispatched, runs on (weak); the program's
blocks get their turn between interrupts, and a request that keeps finding IF set
is taken at an instruction boundary (strong, for both are interrupted again and
again but never shut out by the processor). Devices and the kernel's wish to call
the BIOS owe nothing. `NetBoot`: the loader polls, the line delivers, the host
reads. `Rtc`: clock and reader both go on. `Relocate`: one processor with
interrupts off. `DebugFraming`: a packet that was begun is sent on, the
line takes each byte. `Vesa`: the one processor goes on (weak fairness of `Next`), a
BIOS call returns; that it succeeds is not assumed. In each case it is the fairness of a running processor or
device, none of it of a choice the code makes.

## 5. Proofs

Each module of proofs states its inductive invariant first, then lemmas, one step
per action, and the theorems last. The invariants were model-checked on the
instances of section 4 before they were proved. Assumptions are the named ones of
the modules. Six hypotheses ask more of the constants, each a
definition of its module: `SizeFits` (`NetBoot`), `LaidOut` (`Relocate`),
`WarnsInTime` and `EnoughIdle` (`RtcProofs`), `MessagesSound` (`DebugFraming`) and `PlacedAsDesigned`
(`BootMemory`). They are hypotheses and not assumptions of the modules because a
violation of some of them is worth running (`net_boot_large`). `LaidOut`,
`MessagesSound` and `PlacedAsDesigned` are ASSUMEd in the MC modules, where TLC
evaluates them; the other three are visible in `MCNetBoot.cfg` and `MCRtc.cfg`.

### ModeSwitchProofs

For every set of request lines without the cascade pin, every set of glitchy
lines, every mask the BIOS may have left and every set of stack pointers:

| Theorem | Says |
|---|---|
| `TypeCorrect` | `Spec => []TypeOK` |
| `TablesAlwaysMatch` | `Spec => []TablesMatchMode` |
| `ProcessorNeverResets` | `Spec => []NeverResets` |
| `IntCallRoundTrip` | `Spec => []IntCallRestores` |
| `HandlersEndTheirOwn` | `Spec => []HandlerEndsItsOwn` |
| `QuietBetweenInterrupts` | `Spec => []NothingLeftInService`, a property of the real-mode vectors 20h..2Fh that acknowledge (`ivtEoi = 0..15`) |

None of the properties is inductive. `TablesMatchMode` speaks of states with IF
set only; to know that `sti` or `iret` leads into such a state, one has to know
what the tables are at every label before it. `ModeInv` says so: `FlagInv` ties
IF to the label and to the handler's step, `ControlInv` ties mode, IDTR, GDTR,
gates and vector bases to the label, `CallInv` ties the context saved at the
real-mode stack to the caller's. It is proved with one step per block of the
program; an interrupt touches none of it but IF. `NeverResets` follows through
`DispatchTarget`: under the invariant each vector, spurious ones included, has a
handler. `LeakInv` follows the acknowledged bits through the reads and writes of
`kPicClearBoth`, chip by chip: those found, those the interrupt set itself, those still
set. Its one arithmetic fact is `TopOfUnion`, that the request just
acknowledged is the one a non-specific end of interrupt clears. `kPicClearBoth` sends one
to every chip that has any bit set, whosever it is; on a chip where its own interrupt set none
the theorem therefore allows the highest bit found to go, and no more. Such bits are those
of requests real-mode vectors did not acknowledge, and belong to no handler in progress.

`IntCallRoundTrip` holds of DS and ES what the code does: `setupGdt` puts the 4 GB
selector where `kIntCall` loads DS and ES from (`vkern.cpp:235`), so `ControlInv` carries BTDATA's
protected-mode segments from the loader's start on, and what FS, GS and SS hold between calls.

### NetBootProofs

For every size of file, block, word and UART, both kinds of line, any depth of it
and any number of resets:

| Theorem | Says |
|---|---|
| `NetBootTypeCorrect` | `Spec => []TypeOK` |
| `WholeImageEntered` | `SizeFits => (Spec => []EntersOnlyWholeImage)` |
| `HostReadsInFile` | `SizeFits => (Spec => []HostStaysInFile)` |
| `LoadingIsATransfer` | `SizeFits => (Spec => TransferSpec)`: `NetBoot` implements `ImageTransfer` |

`SizeFits` is what the host accepts, a file of whole blocks, and a size below 64k;
finding 1 is what happens without it. That the image is whole at the jump cannot
be seen from the counters alone, for an overrun loses a byte and leaves them as
they are. The invariant therefore counts what is under way: `Due` is how many bytes
of the answer the loader still waits for, and `LineInv` says that at most those are
on the line, so that a lost byte leaves a receiver that waits for ever and never
one that is a byte ahead. Where none was lost, `FlightInv` says which bytes they
are, in order. `StoredInv` ties BX to the host's file pointer. A reset sends the loader
back with bytes on the line; unless the line is clear when it asks again, the state is
`dirty`, of which the properties say nothing, until a later reset finds the line clear. So the theorems are about loading without
resets and after those that interrupted no answer; after one that did, the loader drains
nothing and the model does enter wrong images (hazard `bl_boot.asm:85`). In the refinement every step of the loader is
a byte received, the entry, a reset or a stutter.

### RtcProofs

For every sequence of instants, every byte a register may show during an update:

| Theorem | Says |
|---|---|
| `RtcTypeCorrect` | `Spec => []TypeOK` |
| `OneInstantReturned` | `WarnsInTime => (Spec => []ReturnsOneInstant)`, `WarnsInTime == Lead >= 2` |
| `FewPasses` | `EnoughIdle => (Spec => [](Restarts \in 0..4) /\ [][Restarts' <= Restarts /\ (StartsOver => Restarts' < Restarts)]_vars)`, `EnoughIdle == Idle >= 16` |

The property speaks of what is returned. `ReadInv` says of every moment before that,
as long as the reader has seen no UIP, what it has read is what the clock shows now,
and the update cannot begin before it looks again: between its question and its
read at most one access old, and two for the last datum, the century, which is read
without a question. That is where `Lead >= 2` is needed. `ConvertsBack` is the conversion: in
all four data formats, with the PM bit on top of a converted hour, it undoes the
clock's encoding.

`FewPasses` is the half of `LoopEnds` that is no liveness. A pass that meets UIP goes on to
the weekday or the century before it starts over, and in 16 accesses the next one does
not get through if it was met early; but it gets further each time, so that after four
times the next UIP comes too late to be met. `NextUip` counts accesses from the
start of the pass to where UIP may be met next, `Following` turns that into a number of
passes, `PassStep` shows that no step of clock or reader raises it. Four is the exact
number: TLC finds a behaviour that starts over four times.

### RelocateProofs

For every set of images, whatever the number, sizes and order of their sections:

| Theorem | Says |
|---|---|
| `RelocateTypeCorrect` | `LaidOut => (Spec => []TypeOK)` |
| `ModuleInPlace` | `LaidOut => (Spec => []ImageInPlace)` |
| `OnlyModuleWritten` | `LaidOut => (Spec => []StaysInImage)` |
| `RetFindsCaller` | `LaidOut => (Spec => []TasksBalance)` |
| `RelocationPlaces` | `LaidOut => (Spec => PlacesImage)`: `Relocate` implements `ImagePlacement` |
| `RelocationAdvances` | `LaidOut => (Spec => [](Rank \in Nat \X Nat \X Nat) /\ [][Before(Rank', Rank)]_vars)` |

`LaidOut` says of an image `kCheckImage` accepts that a linker wrote it: at least one
section, whole dwords, parts that do not touch each other in memory and lie
above the file. The code tests none of this; the hazards at `bl_loader.asm:377`, 395
and 414 are about it. The invariant has the stack task by task (`StackInv`: with `Left`
tasks it is 3 * `Left` + 1 long, the return address below them) and memory part by part
(`Copied`: how many bytes of each are in place, an initial part of the one being
moved). A dword moved extends one part; that it harms no other part, nor the file it
is read from, is where parts must be apart.

`ModuleInPlace` (`ImageInPlace`) says that each part is where it belongs at the jump; the
refinement says it of all of memory at every step. For that the invariant also has that
a byte that is no longer what it was is one already copied for some part (`MemoryInv`),
and `Mapped`, which names the part an address belongs to, has to agree with the walk,
for which parts must be apart once more (`PlacedByte`, `PlacedElsewhere`).
`RelocationAdvances` is the half of `Enters` the prover can reach: `Rank` is a stage, the
sections or tasks left in it and the dwords left of the task, and every step goes
down in the order of words, which has no endless descent. So the code cannot loop;
that it does not stop short is `Enters`, and deadlock, in the run.

### DebugFramingProofs

For every set of messages, any data in them and any number of them sent:

| Theorem | Says |
|---|---|
| `FramingTypeCorrect` | `MessagesSound => (Spec => []TypeOK)` |
| `HostShowsWhatWasSent` | `MessagesSound => (Spec => []ShowsWhatWasSent)` |
| `EndsInStep` | `MessagesSound => (Spec => []InStep)` |
| `PacketsAreAChannel` | `MessagesSound => (Spec => IsChannel)`: `DebugFraming` implements `MessageChannel` |

`MessagesSound`: numbers have the size of their kind, text holds no terminator, and
the loader's own strings, constants of its image, are not empty. `Wire(m)` is what a
message must look like on the line, however it was sent: type, data, and one to
three zeroes. `SenderInv` says that what lies ahead of SI is the rest of it, whatever
stale bytes lie behind; that needs the two ways the loops end, by the zero and by
the least length, to agree with it. `HostInv` says that the host has an initial part
of `Wire`, the transmitter the next byte. The host may lag by the last byte of a
message when the next one is begun, never by more: that is the channel's `Room`. In
the refinement a step that begins a message is `Begin`, for the host then lacks at most
the message before (`BeginsInChannel`); the host's step over the byte that ends a
message is `Show` (`OneMoreShows`); every other byte is a stutter.

### VesaProofs

For every information a BIOS may give of its modes, every list of them without a
mode twice, every leftover in the mode block and every size of picture:

| Theorem | Says |
|---|---|
| `VesaTypeCorrect` | `Spec => []TypeOK`; with it, that no colour leaves its byte |
| `DisplayDescribesItsMode` | `Spec => []DescribesItsMode`, for any pattern of failing calls |
| `DrawingStaysInFrame` | `Spec => []StaysInFrame` |
| `LastSuitableIsChosen` | `Spec => []ChoosesTheLastSuitable` |
| `PictureAppears` | `Spec => []PictureAsDrawn` |
| `DisplayAdvances` | `Spec => [](Rank \in Nat \X Nat) /\ [][Before(Rank', Rank)]_vars`: each step leaves fewer stages, entries or rows, the safety half of `Ends` |

The assumption is `VesaAssumption`: no mode is listed twice, and the picture fits
in the smallest size accepted (512 by 512 in 800 by 600). The invariant,
`VesaInv`, adds to the properties what they say nothing of before the walk ends.
`PlaceInv` ties the entry looked at to the state of the program. `WalkInv` says
that no mode is answered or chosen before its entry is reached, so that a later
failure cannot pair a mode with another's block, and that among the entries
passed the choice is the last that will do. `FrameInv` keeps the chosen size in its
range from the judging of a block to the drawing. `PaintInv` says of every row already
drawn, of both halves, which colour each pixel has: no later row is written over
it. What is left of `PictureAsDrawn` is arithmetic on that colour: `Mixture` is the
product of two bytes over 256, `NoJumps` that it changes by at most one from a pixel to
the next, inside a quarter and across its edges.

### BootMemoryProofs

For every image and place `const.inc` has room for, every depth of the stacks, every
place of the module above the first megabyte and of the packet buffer:

| Theorem | Says |
|---|---|
| `BootMemoryTypeCorrect` | `PlacedAsDesigned => (Spec => []TypeOK)`; with it, that everything lies in RAM |
| `NothingReadOverwritten` | `PlacedAsDesigned => (Spec => []ReadsWhatWasPut)` |

`PlaceInv` keeps every object in its zone of memory (`Zone`), `IntactInv` says which
objects each stage's successors still need (`Needs`) and that those are intact. Every
action is shown to be a case of one kind of step (`Moves`: reads these, lays down
those), so that what is left is geometry: two finite sets of objects, `Early` and
`Late`, whose zones are pairwise apart (`EarlyApart`, `LateApart`), once the loader is
clear of the memory `setupGdt` clears, which the property asks too, and of the IDT's
place. Before A20 is on nothing is put above the first megabyte, so that seen
addresses and real ones agree (`PlaceSeen`). After the reset of a faulting `kIntCall` nothing is
needed any more: of images above 10000h the theorem says that all was well until then.

### SprintfProofs

For every format, every buffer and all arguments:

| Theorem | Says |
|---|---|
| `SprintfTypeCorrect` | `Spec => []TypeOK` |
| `BufferKept` | `Spec /\ [][NumbersFit]_vars => []NeverOverruns` |
| `StringTerminated` | `Spec /\ [][NumbersFit]_vars => []Terminated` |
| `DocumentedPrinted` | `Spec /\ [][NumbersFit]_vars => []PrintsAsDocumented` |

`NumbersFit` says of a step that a number it converts finds room for its digits and
its width; finding 2 is a behaviour in which one does not. So that is the only way
out of the buffer: text, truncated as it may be, booleans and NULL pointers need no
condition. Every behaviour of run `sprintf` satisfies it. `RoomInv` says that position and room
left add up to the buffer, and that every character before the position has been
written, but perhaps the last of a full buffer, which `printInt` leaves out and `Return`
then makes the terminator. `EveryStepAdds` shows that each action adds some number
of characters (`Adds`), within the room if `NumbersFit` (`AddsWithin`). The provers know
no powers: that a number has digits, and that their places are positive numbers, is
`NumeralAssumption`, which TLC evaluates for every number of the instance.

`PrintsAsDocumented` compares what was printed with a reading of the specification's
text from its two ends (`FlagsSaid`, `WidthSaid`, `PrecisionSaid`), while the code reads it
character by character through its tables. `SaidInv` ties the two together: in each
state of the scanner the settings gathered are those the text read so far says. Each
character read then has to leave the flags as they are and make the number one digit
longer (`BeforeGrows`, `NumberGrows`). The number of a text is a recursive function;
that two such functions agree is induction over its length, which the library's
theorems cannot give here and `LeastNumber` and `SetInduction` do, for sets of numbers in
place of predicates. `DigitKept` is the arithmetic of `printInt`: cut to a DWORD, the
quotient still has the last digit the doc wants, in radix 16 because a DWORD is a
multiple of 16, in radix 10 for numbers that fit in one, as `Agreed` asks. `NumberPuts` then
compares padding, alignment and digits, position by position; `UnpaddedText` is that text which
fills its width is documented as it stands. The conversions and
arguments on which comment and code part are those `Agreed` leaves out, one by one in
section 6.

### Only model-checked

Liveness (`TimerIsServed`, `IntCallReturns`, `Boots`, `LoopEnds`, `Enters`, `EachIsShown`,
`Ends`), which is out of the prover's reach; of `Enters` and `Ends` it proves that every
step leaves less to do, of `LoopEnds` that the loop starts over four times at most. Everything about `TStr`, whose numbers are read and
written by `RECURSIVE` operators, in whose presence the prover has no arithmetic.

## 6. Findings

1. `const.inc:22-24` provides for kernels of up to 512k; the size travels in one
   word and DI wraps: 64k or more is entered incomplete. Run `net_boot_large`.
2. `tprintf.cpp:623`: a number cut to the buffer is counted in full, `strRemain`
   wraps, the text goes on past the buffer, against "print only in buffer bounds"
   (`tprintf.cpp:308`). Run `sprintf_overrun`.
3. `debug32.inc:33`: the 32-bit packet routines use `dbgbuf32`, an offset in the
   loader, as a linear address, so packets are put together inside the 4k that
   `vkern.cpp:187` gives to the BIOS, which `kIntCall` calls later. Run
   `boot_memory_bios`.

Met while modelling, without a run:

* `setupGdt` (`vkern.cpp:229`) clears 10000h-1FFFFh before it copies the loader's
  descriptors. With a kernel at the place `const.inc:24` gives one of 32k or more,
  those descriptors, and `kIntCall`, lie there. `ReadsWhatWasPut` leaves such images out
  by its first disjunct.
* `setupGdt` lets `hwSwitchGdtr` store the loader's GDTR over the BIOS's in
  `bt_gdt16_*` (`vkern.cpp:244`), which `bl_loader.asm:89` had saved for the way back.
  Real mode makes no use of it.
* `kIntCall` jumps through a code descriptor of 64 KB to its linear address
  (`bl_loader.asm:538-549`). `const.inc:24` gives a kernel of 32k or more the address
  10000h; the loader in front of it is then above the limit, and the first video call
  resets the processor, against the comment at 509, "located in 0000..FFFF". `BootMemory` has it as
  `IntCallFault`.
* `setupGdt` changes the data selector in BTDATA and leaves DS and ES as they are
  (`vkern.cpp:235`): until the first BIOS call the kernel's data segment ends at 256 MB, after it at
  4 GB. `IntCallRestores` says both; a frame buffer above 256 MB is drawn to after calls only.
* `rtc.cpp:26` has the weekday count from 1, `getTime` indexes a table with it that
  counts from 0 (`vkern.cpp:492`); the sample log prints the right day, so the
  clock it ran on disagrees with the comment.
* `initVesa` looks at no result but the first call's (`vkern.cpp:726`, `762`), and
  `draw32quad` takes the width for the length of a scan line (`vkern.cpp:877`).
* Left out of `PrintsAsDocumented` by name (`Agreed`): `%b` repeats its first letter
  (`tprintf.cpp:646` never advances the source); signs are counted and never
  written (266-279); decimal digits above 32 bits are wrong (306); a precision
  stays for later strings (448); a wide string's NULL test reads the wrong
  pointer (727); `-` does not cancel `0`; a precision of 0 prints the whole
  string (680), where lines 84 to 86 have it print none; `%s`, `%c`, `%w` ignore a width
  greater than the text, where lines 67 to 77 have blanks added. The second of two adjacent specifications is printed as
  it stands (table row at 202). The packet routines send 65536 bytes for a length
  of 0 (`vkern.cpp:113`, `serial.inc:118`), which no caller asks for.
* In the string functions: `tszConcat` puts no terminator when the count ends the
  copy, although its comment (`tstrp.h:147`) says both; appending returns the old
  length as well, although the comments (`tstrp.h:155`, `tstr.h:133`, 153) say the count of characters
  copied, so that a caller who adds it to his pointer is too far (`TextAsSaid` does not
  ask for it); `tszchr` never finds the terminator (93); negative decimal numbers
  come out as num + 2^32 (252); `tszStrToInt` counts letters from 0 (368),
  takes the radix itself for a digit below 10 (308), and from 10 on skips a leading
  sign (318-326).

## 7. Not modelled, and why

* ACPI: the call of `initAcpi` is commented out (`vkern.cpp:953`). It would search and
  print tables the firmware wrote and change no state; `amlGetPackageLength`
  decodes a length and drops it (`acpi.cpp:20-51`). `acpi.h` is table layouts.
* In memory and video: the contents of the VBE blocks beyond the fields that are read,
  the BIOS's own use of memory above 1000h, paging (never enabled).
* `kSerialPortInit` (both): divisor and frame format, no state a model would have.
* `ps2.inc`: keyboard controller helpers that nothing calls in the boot path but
  `kPs2PortEnableA20_fast`.
* `processor.h`, `ktypes.h`, `kdef.h`, `kstring.h`: layouts and types.
* Build scripts, `piper.exe`: the host program has no source; it appears as the
  external actions `Host` and `HostByte`.
