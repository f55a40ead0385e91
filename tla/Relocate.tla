----------------------------- MODULE Relocate -----------------------------
(***************************************************************************)
(* kCheckImage, kRelocateImage and the jump of kEnterHLLM (bl_loader.asm): *)
(* the kernel, a PE image behind the loader, is brought to its base        *)
(* address.  The section headers are walked backwards and a copy task is   *)
(* pushed for each; the tasks are then popped and done.  An address counts *)
(* bytes, a cell of memory holds the file offset of the byte it has, or    *)
(* Old.  Interrupts are off throughout.                                    *)
(***************************************************************************)
EXTENDS Integers, Sequences

CONSTANTS
    Images,     \* PE images: signatures, base, size, entry, section headers
    Garbage,    \* what a header may look like where there is none
    FileAt,     \* bt_image_addr + LDRSIZE
    FileSize,
    MemSize,
    WordSize    \* values of a 16-bit word

ASSUME RelocateAssumption ==
    /\ FileAt \in Nat /\ FileSize \in Nat /\ MemSize \in Nat
    /\ WordSize \in Nat \ {0}
    /\ FileAt + FileSize <= MemSize

VARIABLES image, memory, stack, hll, esi, edi, ecx, eax, pc

vars == <<image, memory, stack, hll, esi, edi, ecx, eax, pc>>

Old == -1
Caller == -2    \* the address kRelocateImage returns to

Loaded == [a \in 0..MemSize-1 |-> IF a \in FileAt..FileAt+FileSize-1 THEN a - FileAt ELSE Old]

Count == Len(image.sections)

Init ==
    /\ image \in Images /\ memory = Loaded /\ stack = <<Caller>>
    /\ hll = [addr |-> 0, size |-> 0, entry |-> 0]
    /\ esi = 0 /\ edi = 0 /\ ecx = 0 /\ eax = 0
    /\ pc = "check"

-----------------------------------------------------------------------------

CheckImage ==
    /\ pc = "check"
    /\ pc' = IF image.mz /\ image.pe /\ image.optional THEN "relocate" ELSE "hang"
    /\ UNCHANGED <<image, memory, stack, hll, esi, edi, ecx, eax>>

\* Printing the entry offset leaves it in EAX.
SaveHll ==
    /\ pc = "relocate" /\ pc' = "find"
    /\ hll' = [addr |-> image.base, size |-> image.size, entry |-> image.base + image.entry]
    /\ eax' = image.entry
    /\ UNCHANGED <<image, memory, stack, esi, edi, ecx>>

\* EDI counts section headers from the first one on; only AX is loaded with
\* their number, the upper half of EAX takes part in the product.
FindSections ==
    /\ pc = "find" /\ pc' = "push"
    /\ eax' = (eax \div WordSize) * WordSize + Count
    /\ edi' = eax'
    /\ ecx' = Count
    /\ UNCHANGED <<image, memory, stack, hll, esi>>

\* What may be read at the k-th header.
Headers(k) == IF k \in 0..Count-1 THEN {image.sections[k + 1]} ELSE Garbage

\* A task on the stack: source uppermost, destination, size.
Pushed(src, dst, size) == <<src, dst, size>> \o stack

\* MUTANT of PushSection: the address of the section in the file as its offset in memory.
PushSectionFlat ==
    /\ pc = "push"
    /\ edi' = edi - 1 /\ ecx' = ecx - 1
    /\ \E h \in Headers(edi') :
          stack' = Pushed(FileAt + h.rawOffset, image.base + h.rawOffset, h.rawSize)
    /\ pc' = IF ecx' = 0 THEN "header" ELSE "push"
    /\ UNCHANGED <<image, memory, hll, esi, eax>>

PushSection ==
    /\ pc = "push"
    /\ edi' = edi - 1 /\ ecx' = ecx - 1
    /\ \E h \in Headers(edi') :
          stack' = Pushed(FileAt + h.rawOffset, image.base + h.address, h.rawSize)
    /\ pc' = IF ecx' = 0 THEN "header" ELSE "push"
    /\ UNCHANGED <<image, memory, hll, esi, eax>>

\* MUTANT of PushHeader: the header's task is not counted.
PushHeaderUncounted ==
    /\ pc = "header" /\ pc' = "load"
    /\ \E h \in Headers(edi) : stack' = Pushed(FileAt, image.base, h.rawOffset)
    /\ eax' = Count
    /\ UNCHANGED <<image, memory, hll, esi, edi, ecx>>

\* The file's headers end where the first section's data begin.
PushHeader ==
    /\ pc = "header" /\ pc' = "load"
    /\ \E h \in Headers(edi) : stack' = Pushed(FileAt, image.base, h.rawOffset)
    /\ eax' = Count + 1
    /\ UNCHANGED <<image, memory, hll, esi, edi, ecx>>

\* MUTANT of LoadTask: the size counts dwords.
LoadTaskUnshifted ==
    /\ pc = "load" /\ pc' = "move"
    /\ esi' = stack[1] /\ edi' = stack[2] /\ ecx' = stack[3]
    /\ stack' = SubSeq(stack, 4, Len(stack))
    /\ UNCHANGED <<image, memory, hll, eax>>

\* MUTANT of LoadTask: one word too many is popped.
LoadTaskPopsMore ==
    /\ pc = "load" /\ pc' = "move"
    /\ esi' = stack[1] /\ edi' = stack[2] /\ ecx' = stack[3] \div 4
    /\ stack' = SubSeq(stack, 5, Len(stack))
    /\ UNCHANGED <<image, memory, hll, eax>>

LoadTask ==
    /\ pc = "load" /\ pc' = "move"
    /\ esi' = stack[1] /\ edi' = stack[2] /\ ecx' = stack[3] \div 4
    /\ stack' = SubSeq(stack, 4, Len(stack))
    /\ UNCHANGED <<image, memory, hll, eax>>

\* One turn of rep movsd.
MoveDword ==
    /\ pc = "move" /\ ecx > 0
    /\ memory' = [a \in DOMAIN memory |->
                     IF a \in edi..edi+3 THEN memory[esi + (a - edi)] ELSE memory[a]]
    /\ esi' = esi + 4 /\ edi' = edi + 4 /\ ecx' = ecx - 1
    /\ UNCHANGED <<image, stack, hll, eax, pc>>

NextTask ==
    /\ pc = "move" /\ ecx = 0
    /\ eax' = eax - 1
    /\ pc' = IF eax' = 0 THEN "ret" ELSE "load"
    /\ UNCHANGED <<image, memory, stack, hll, esi, edi, ecx>>

\* ret: what lies uppermost on the stack is where to go on.
Ret ==
    /\ pc = "ret"
    /\ pc' = IF stack[1] = Caller THEN "enter" ELSE "astray"
    /\ stack' = Tail(stack)
    /\ UNCHANGED <<image, memory, hll, esi, edi, ecx, eax>>

EnterHLLM ==
    /\ pc = "enter" /\ pc' = "kernel"
    /\ UNCHANGED <<image, memory, stack, hll, esi, edi, ecx, eax>>

\* hangloop, or the kernel.
Finished == pc \in {"hang", "kernel", "astray"} /\ UNCHANGED vars

Next == \/ CheckImage \/ SaveHll \/ FindSections \/ PushSection \/ PushHeader
        \/ LoadTask \/ MoveDword \/ NextTask \/ Ret \/ EnterHLLM \/ Finished

Spec == Init /\ [][Next]_vars

\* One processor, its interrupts off: it goes on.
FairSpec == Spec /\ WF_vars(Next)

-----------------------------------------------------------------------------
(* The images kRelocateImage is written for *)

Section == [address : Nat, rawSize : Nat, rawOffset : Nat]

\* The parts of an image: its headers, then its sections.
PartOf(im) ==
    [n \in 0..Len(im.sections) |->
        IF n = 0 THEN [address |-> 0, rawSize |-> im.sections[1].rawOffset, rawOffset |-> 0]
        ELSE im.sections[n]]

Within(im, part) ==
    /\ part.rawSize % 4 = 0
    /\ part.rawOffset + part.rawSize <= FileSize
    /\ part.address + part.rawSize <= im.size

Apart(p, q) == p.address + p.rawSize <= q.address \/ q.address + q.rawSize <= p.address

\* An image that passes kCheckImage is one a linker wrote: its parts are whole
\* dwords, lie in the file and, without touching each other, in the memory the
\* header names, and that is above the file.  Its entry offset fits in a word:
\* with a larger one FindSections does not find the sections.
LaidOut ==
    \A im \in Images : im.sections \in Seq(Section) /\ (im.mz /\ im.pe /\ im.optional =>
        /\ im.base \in Nat /\ im.size \in Nat /\ im.entry \in 0..WordSize-1
        /\ Len(im.sections) > 0
        /\ FileAt + FileSize <= im.base /\ im.base + im.size <= MemSize
        /\ \A n \in 0..Len(im.sections) : Within(im, PartOf(im)[n])
        /\ \A m, n \in 0..Len(im.sections) : m # n => Apart(PartOf(im)[m], PartOf(im)[n]))

-----------------------------------------------------------------------------
(* Refinement of the placement *)

\* The parts of an image an address belongs to.
At(im, a) ==
    {n \in 0..Len(im.sections) :
        a \in im.base + PartOf(im)[n].address .. im.base + PartOf(im)[n].address + PartOf(im)[n].rawSize - 1}

\* Memory with the image where its headers say.
Mapped(im) ==
    [a \in 0..MemSize-1 |->
        IF At(im, a) = {} THEN Loaded[a]
        ELSE LET part == PartOf(im)[CHOOSE n \in At(im, a) : TRUE]
             IN part.rawOffset + (a - (im.base + part.address))]

Placement == INSTANCE ImagePlacement WITH
    Accepted <- {im \in Images : im.mz /\ im.pe /\ im.optional},
    Placed <- [im \in Images |-> Mapped(im)],
    outcome <- CASE pc = "hang" -> "refused"
                 [] pc = "kernel" -> "entered"
                 [] pc = "astray" -> "astray"
                 [] OTHER -> "open"

-----------------------------------------------------------------------------

\* The type of every variable; the stack never loses the return address before Ret.
TypeOK ==
    /\ image \in Images /\ DOMAIN memory = 0..MemSize-1
    /\ \A a \in DOMAIN memory : memory[a] \in {Old} \cup 0..FileSize-1
    /\ esi \in Nat /\ edi \in Nat /\ ecx \in Nat /\ eax \in Nat
    /\ pc \in {"check", "relocate", "find", "push", "header", "load", "move", "ret",
               "enter", "kernel", "hang", "astray"}
    /\ pc \notin {"enter", "kernel", "astray"} => stack # <<>> /\ stack[Len(stack)] = Caller

\* bl_loader.asm:286, 327-339: the kernel is entered with its headers at the base
\* and each section's file data at the section's address.
ImageInPlace ==
    pc = "kernel" =>
        /\ \A k \in 0..image.sections[1].rawOffset-1 : memory[hll.addr + k] = k
        /\ \A n \in 1..Count : \A k \in 0..image.sections[n].rawSize-1 :
              memory[hll.addr + image.sections[n].address + k] = image.sections[n].rawOffset + k

\* Relocation writes to no byte outside the image's own memory: the loader, its
\* boot data and the real-mode caller it leaves behind stay as they are.
StaysInImage ==
    \A a \in DOMAIN memory :
        memory[a] # Loaded[a] => a \in image.base .. image.base + image.size - 1

\* Checking and relocating place the image: an image with a signature wrong is
\* refused with memory untouched; of any other each dword moved is one that belongs where
\* it goes, and when it is entered memory is the image's headers and sections
\* at their addresses, and for the rest, gaps between sections included, as it was.
PlacesImage == Placement!Spec

\* A task is done for each that was pushed, so that ret finds the caller.
TasksBalance ==
    /\ pc = "load" => Len(stack) = 3 * eax + 1
    /\ pc # "astray"

\* An image with the right signatures is entered.
Enters == [](pc = "relocate" => <>(pc = "kernel"))
=============================================================================
