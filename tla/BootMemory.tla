----------------------------- MODULE BootMemory -----------------------------
(***************************************************************************)
(* Who writes where in memory, from the boot record to the kernel's calls  *)
(* of the video BIOS (const.inc, bl_boot.asm, bl_loader.asm, debug32.inc,  *)
(* vkern.cpp).  An object is what somebody puts at a place and somebody    *)
(* reads later; a write damages every other object it touches.             *)
(***************************************************************************)
EXTENDS Integers

CONSTANTS
    Images,         \* [addr, size] of the images a host may send
    RecordSize,     \* bytes of the boot record that are code and data
    StackDepths,    \* how deep calls and BIOS handlers may go on a real-mode stack
    KernelDepth,    \* how deep the kernel goes on its own
    HllBase, HllSize,   \* the kernel module's base address and size in memory
    DebugBuffer     \* offset of dbgbuf32 in the loader

LoaderSize == \h800         \* LDRSIZE
StackTop   == \h7E00        \* STK_PTR
CallStack  == StackTop - \h100

Extent(lo, size) == [lo |-> lo, hi |-> lo + size - 1]
Below(top, size) == Extent(top - size, size)
Overlap(e, f)    == e.lo <= f.hi /\ f.lo <= e.hi

ASSUME MemoryAssumption ==
    /\ \A im \in Images : im.addr \in Nat /\ im.size \in Nat /\ im.size > LoaderSize
    /\ RecordSize \in 1..510 /\ StackDepths \subseteq 1..\h200
    /\ \A d \in StackDepths : RecordSize + d <= \h200
    /\ DebugBuffer \in 0..LoaderSize-12
    /\ HllBase \in Nat /\ HllSize \in Nat \ {0} /\ KernelDepth \in Nat \ {0}

VARIABLES
    pc,
    image,          \* the image the host sends
    a20,            \* whether address line 20 is on
    job,            \* the video service called
    laid,           \* where each object lies, as the memory sees its address
    intact,         \* the objects nobody else wrote into
    misread         \* history: objects that were read when no longer intact

vars == <<pc, image, a20, job, laid, intact, misread>>

Objects == {"vectors", "biosData", "record", "stack", "bootData", "loader", "hllFile", "packet",
            "hll", "hllStack", "saved", "serviceStack", "gdt", "idt", "vbeInfo", "modeInfo"}

\* Video memory and ROM: what is written there is not there to be read.
NoRam == [lo |-> \hA0000, hi |-> \hFFFFF]

\* Without address line 20 an odd megabyte is seen as the one below it.
Seen(e) == IF a20 \/ (e.lo \div \h100000) % 2 = 0 THEN e
           ELSE [lo |-> e.lo - \h100000, hi |-> e.hi - \h100000]

\* What is laid down: an object at a place, and several of them.
At(o, e)   == [x \in {o} |-> e]
Both(f, g) == [x \in DOMAIN f \cup DOMAIN g |-> IF x \in DOMAIN f THEN f[x] ELSE g[x]]
Nothing    == [x \in {} |-> Extent(0, 1)]

\* A step that reads some objects and then lays down others.
Step(reads, writes) ==
    LET placed == [o \in DOMAIN writes |-> Seen(writes[o])]
    IN  /\ misread' = misread \cup (reads \ intact)
        /\ laid' = Both(placed, laid)
        /\ intact' = {o \in intact \ DOMAIN placed : \A w \in DOMAIN placed : ~Overlap(laid[o], placed[w])}
                     \cup {w \in DOMAIN placed : ~Overlap(placed[w], NoRam)}

Goto(from, to) == pc = from /\ pc' = to

Init ==
    /\ pc = "record"
    /\ image \in Images /\ a20 \in BOOLEAN /\ job = "none"
    /\ laid = Both(At("vectors", Extent(0, \h400)),
                   Both(At("biosData", Extent(\h400, \hC00)), At("record", Extent(\h7C00, RecordSize))))
    /\ intact = DOMAIN laid /\ misread = {}

\* start of the boot record: its stack grows down over the record's own page.
BootRecord ==
    /\ Goto("record", "load")
    /\ \E d \in StackDepths :
         Step({"record", "vectors"},
              Both(At("stack", Below(StackTop, d)), At("bootData", Extent(StackTop, \h100))))
    /\ UNCHANGED <<image, a20, job>>

\* kLoadImage: the loader and, behind it, the file of the kernel module.
LoadImage ==
    /\ Goto("load", "jump")
    /\ \E d \in StackDepths :
         Step({"record", "bootData", "vectors"},
              Both(At("stack", Below(StackTop, d)),
                   Both(At("loader", Extent(image.addr, LoaderSize)),
                        At("hllFile", Extent(image.addr + LoaderSize, image.size - LoaderSize)))))
    /\ UNCHANGED <<image, a20, job>>

Jump ==
    /\ Goto("jump", "start")
    /\ Step({"record", "bootData", "stack"}, Nothing)
    /\ UNCHANGED <<image, a20, job>>

LoaderStart ==
    /\ Goto("start", "a20")
    /\ \E d \in StackDepths :
         Step({"loader", "bootData", "vectors"}, At("stack", Below(StackTop, d)))
    /\ UNCHANGED <<image, a20, job>>

\* MUTANT of EnableA20: a control bit next to it is set.
EnableA20Not ==
    /\ Goto("a20", "pentry")
    /\ Step({"loader", "stack"}, Nothing)
    /\ UNCHANGED <<image, a20, job>>

\* kPs2PortEnableA20_fast, and into protected mode with the descriptors of the loader.
EnableA20 ==
    /\ Goto("a20", "pentry")
    /\ a20' = TRUE
    /\ Step({"loader", "stack"}, Nothing)
    /\ UNCHANGED <<image, job>>

Packet == At("packet", Extent(DebugBuffer, 6))

\* pentry and kCheckImage: packets are put together at dbgbuf32, taken as an address.
ProtectedEntry ==
    /\ Goto("pentry", "relocate")
    /\ \E d \in StackDepths :
         Step({"loader", "bootData", "hllFile"}, Both(At("stack", Below(StackTop, d)), Packet))
    /\ UNCHANGED <<image, a20, job>>

Relocate ==
    /\ Goto("relocate", "enter")
    /\ Step({"loader", "bootData", "hllFile", "stack"}, Both(At("hll", Extent(HllBase, HllSize)), Packet))
    /\ UNCHANGED <<image, a20, job>>

\* kEnterHLLM, kMain: the stack right under the module.
EnterHLLM ==
    /\ Goto("enter", "gdt")
    /\ Step({"loader", "bootData", "hll"}, Both(At("hllStack", Below(HllBase, KernelDepth)), Packet))
    /\ UNCHANGED <<image, a20, job>>

Gdt == At("gdt", Extent(\h10000, \h10000))
Idt == At("idt", Extent(\hF000, \h800))

\* setupGdt: the memset ...
ClearGdt ==
    /\ Goto("gdt", "copy")
    /\ Step({"hll", "hllStack", "bootData"}, Gdt)
    /\ UNCHANGED <<image, a20, job>>

\* ... and the memcpy of the loader's descriptors.
CopyGdt ==
    /\ Goto("copy", "idt")
    /\ Step({"hll", "hllStack", "bootData", "loader"}, Gdt)
    /\ UNCHANGED <<image, a20, job>>

setupIdt ==
    /\ Goto("idt", "kernel")
    /\ Step({"hll", "hllStack", "bootData", "gdt"}, Idt)
    /\ UNCHANGED <<image, a20, job>>

\* An interrupt handled by the kernel.
Interrupt ==
    /\ Goto("kernel", "kernel")
    /\ Step({"idt", "gdt", "hll", "hllStack"}, Nothing)
    /\ UNCHANGED <<image, a20, job>>

\* kIntCall up to its jump through the 64 KB descriptors.  initVesa reads the list of
\* modes, which a BIOS may keep in its information block, before every call but the
\* first.
IntCallEnter ==
    /\ Goto("kernel", "limit64k")
    /\ job' \in {"info"} \cup (IF "vbeInfo" \in DOMAIN laid THEN {"mode", "set"} ELSE {})
    /\ Step({"loader", "bootData", "gdt", "hll", "hllStack"}
              \cup (IF job' = "info" THEN {} ELSE {"vbeInfo"}),
            At("saved", Below(CallStack, 8)))
    /\ UNCHANGED <<image, a20>>

\* The jump goes to the address of limit64k in the loader.  It gets there, and on to
\* real mode, only below 64 KB: of a loader that lies across that address the model
\* leaves open on which side the label is.
IntCallReal ==
    /\ Goto("limit64k", "service")
    /\ image.addr < \h10000
    /\ Step({"loader", "bootData", "gdt"}, Nothing)
    /\ UNCHANGED <<image, a20, job>>

\* Above, it is a fault, for which setupIdt has no gate: the processor resets.
IntCallFault ==
    /\ Goto("limit64k", "reset")
    /\ image.addr + LoaderSize > \h10000
    /\ Step({"gdt", "idt"}, Nothing)
    /\ UNCHANGED <<image, a20, job>>

Finished == pc = "reset" /\ UNCHANGED vars

\* MUTANT of ModeInfoAt: in the information block's scratch area.
ModeInfoAtInside == \h1000 + \h100

ModeInfoAt == \h1200        \* MEM_VBEMODE_BASE

\* What a service is asked to write, at the addresses initVesa gives it.
Answer ==
    CASE job = "info" -> At("vbeInfo", Extent(\h1000, \h200))
      [] job = "mode" -> At("modeInfo", Extent(ModeInfoAt, \h100))
      [] OTHER        -> Nothing

\* The BIOS service and the interrupts that come during it.
Service ==
    /\ Goto("service", "return")
    /\ \E d \in StackDepths :
         Step({"vectors", "biosData", "loader"}, Both(At("serviceStack", Below(CallStack - 8, d)), Answer))
    /\ UNCHANGED <<image, a20, job>>

IntCallReturn ==
    /\ Goto("return", "kernel")
    /\ job' = "none"
    /\ Step({"loader", "bootData", "saved", "gdt", "idt", "hll", "hllStack"}
              \cup (IF job = "mode" THEN {"modeInfo"} ELSE {}), Nothing)
    /\ UNCHANGED <<image, a20>>

Next == \/ BootRecord \/ LoadImage \/ Jump \/ LoaderStart \/ EnableA20 \/ ProtectedEntry
        \/ Relocate \/ EnterHLLM \/ ClearGdt \/ CopyGdt \/ setupIdt
        \/ Interrupt \/ IntCallEnter \/ IntCallReal \/ IntCallFault \/ Service
        \/ IntCallReturn \/ Finished

Spec == Init /\ [][Next]_vars

-----------------------------------------------------------------------------
(* Where images and the module are put *)

\* Images lie where const.inc:32-33 has room for them, above the boot data and up to
\* video memory, the loader clear of the place of the IDT; the module and its stack
\* above the first megabyte; and the offset of dbgbuf32 is past the vectors.
PlacedAsDesigned ==
    /\ \A im \in Images : /\ im.addr >= \h8000 /\ im.addr + im.size <= \hA0000
                         /\ ~Overlap(Extent(im.addr, LoaderSize), Idt["idt"])
    /\ HllBase - KernelDepth >= \h100000
    /\ DebugBuffer >= \h400

-----------------------------------------------------------------------------
(* Properties *)

\* The type of every variable.
TypeOK ==
    /\ image \in Images /\ a20 \in BOOLEAN /\ job \in {"none", "info", "mode", "set"}
    /\ DOMAIN laid \subseteq Objects /\ intact \subseteq DOMAIN laid /\ misread \subseteq Objects
    /\ \A o \in DOMAIN laid : laid[o].lo <= laid[o].hi /\ ~Overlap(laid[o], NoRam)

\* Every stage still finds what an earlier one left for it - the record its own code
\* above its stack, kRelocateImage the module's file, the kernel the loader's
\* descriptors and kIntCall, kIntCall its saved stack pointer and the BIOS its vectors,
\* initVesa the list of modes between two calls - for images of every size at every
\* place that does not put the loader where setupGdt (vkern.cpp:229) clears memory;
\* those above that memory as far as they get, which is their first kIntCall.
ReadsWhatWasPut ==
    Overlap(Extent(image.addr, LoaderSize), Gdt["gdt"]) \/ misread \subseteq {"biosData"}

\* The map at vkern.cpp:187: 00000000...00000FFF is "used by bios", and nothing of the
\* loader or the kernel is put there.
BiosAreaKept == {"vectors", "biosData"} \subseteq intact
=============================================================================
