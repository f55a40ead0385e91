--------------------------- MODULE RelocateProofs ---------------------------
(***************************************************************************)
(* Proofs about Relocate, for every set of images as a linker lays them    *)
(* out, wherever they lie in memory and however many sections they have.   *)
(***************************************************************************)
EXTENDS Relocate, SequenceTheorems, TLAPS

-----------------------------------------------------------------------------
(* The inductive invariant *)

Part == PartOf(image)

Genuine == image.mz /\ image.pe /\ image.optional

Early == {"check", "relocate", "find", "push", "header", "hang"}

\* Tasks on the stack: those of the last parts.
Left == CASE pc = "push"   -> Count - ecx
          [] pc = "header" -> Count
          [] pc = "load"   -> eax
          [] pc = "move"   -> eax - 1
          [] OTHER         -> 0

\* The part being copied.
Current == Count + 1 - eax

\* How many bytes of each part are at their place.
Copied ==
    [n \in 0..Count |->
        CASE pc \in Early  -> 0
          [] pc = "load"   -> IF n < Current THEN Part[n].rawSize ELSE 0
          [] pc = "move"   -> IF n < Current THEN Part[n].rawSize
                              ELSE IF n = Current THEN edi - (image.base + Part[n].address) ELSE 0
          [] OTHER         -> Part[n].rawSize]

ImageInv ==
    /\ pc \notin {"check", "hang"} => Genuine
    /\ pc = "find" => eax = image.entry
    /\ pc \notin {"check", "relocate", "hang"} => hll.addr = image.base

\* The counters agree with each other.
CountInv ==
    /\ esi \in Nat /\ edi \in Nat /\ ecx \in Nat /\ eax \in Nat
    /\ pc = "push" => ecx \in 1..Count /\ edi = ecx
    /\ pc = "header" => edi = 0
    /\ pc \in {"load", "move"} => eax \in 1..Count+1
    /\ pc = "move" =>
          LET done == edi - (image.base + Part[Current].address) IN
          /\ esi = FileAt + Part[Current].rawOffset + done
          /\ done \in 0..Part[Current].rawSize
          /\ done + 4 * ecx = Part[Current].rawSize

\* Under the tasks, in their order, lies the return address.
StackInv ==
    /\ stack \in Seq(Int)
    /\ pc \in {"enter", "kernel"} => stack = <<>>
    /\ pc \notin {"enter", "kernel"} =>
          /\ Len(stack) = 3 * Left + 1
          /\ stack[3 * Left + 1] = Caller
    /\ \A n \in 0..Count : n + Left > Count =>
          LET top == 3 * (n + Left - Count) IN
          /\ stack[top - 2] = FileAt + Part[n].rawOffset
          /\ stack[top - 1] = image.base + Part[n].address
          /\ stack[top] = Part[n].rawSize

MemoryInv ==
    /\ memory \in [0..MemSize-1 -> {Old} \cup 0..FileSize-1]
    /\ pc \in Early => memory = Loaded
    /\ \A a \in 0..MemSize-1 : memory[a] # Loaded[a] =>
          \E n \in 0..Count : \E k \in 0..Copied[n]-1 : a = image.base + Part[n].address + k
    /\ \A n \in 0..Count : \A k \in 0..Copied[n]-1 :
          memory[image.base + Part[n].address + k] = Part[n].rawOffset + k

Labels == {"check", "relocate", "find", "push", "header", "load", "move", "ret", "enter",
           "kernel", "hang"}

RelocateInv ==
    image \in Images /\ pc \in Labels /\ ImageInv /\ CountInv /\ StackInv /\ MemoryInv

-----------------------------------------------------------------------------
(* The parts of an image *)

LEMMA Parts ==
    ASSUME LaidOut, image \in Images, Genuine
    PROVE  /\ Count \in Nat \ {0} /\ image.base \in Nat /\ image.size \in Nat
           /\ image.entry \in 0..WordSize-1
           /\ FileAt + FileSize <= image.base /\ image.base + image.size <= MemSize
           /\ \A n \in 1..Count : Part[n] = image.sections[n]
           /\ Part[0] = [address |-> 0, rawSize |-> image.sections[1].rawOffset, rawOffset |-> 0]
           /\ \A n \in 0..Count : Part[n] \in Section /\ Within(image, Part[n])
           /\ \A m, n \in 0..Count : m # n => Apart(Part[m], Part[n])
<1>1. /\ image.base \in Nat /\ image.size \in Nat /\ image.entry \in 0..WordSize-1
      /\ image.sections \in Seq(Section) /\ Count > 0
      /\ FileAt + FileSize <= image.base /\ image.base + image.size <= MemSize
      /\ \A n \in 0..Count : Within(image, Part[n])
      /\ \A m, n \in 0..Count : m # n => Apart(Part[m], Part[n])
  BY DEF LaidOut, Genuine, Count, Part
<1>2. Count \in Nat \ {0} /\ \A n \in 1..Count : image.sections[n] \in Section
  BY <1>1 DEF Count
<1>3. \A n \in 0..Count :
         Part[n] = IF n = 0 THEN [address |-> 0, rawSize |-> image.sections[1].rawOffset, rawOffset |-> 0]
                   ELSE image.sections[n]
  BY DEF Part, PartOf, Count
<1>4. \A n \in 1..Count : n \in 0..Count /\ n # 0
  BY <1>2
<1>5. 0 \in 0..Count /\ 1 \in 1..Count
  BY <1>2
<1>6. \A n \in 1..Count : Part[n] = image.sections[n]
  BY <1>3, <1>4
<1>7. Part[0] = [address |-> 0, rawSize |-> image.sections[1].rawOffset, rawOffset |-> 0]
  BY <1>3, <1>5
<1>8. Part[0] \in Section
  BY <1>2, <1>5, <1>7 DEF Section
<1>9. \A n \in 0..Count : n = 0 \/ n \in 1..Count
  BY <1>2
<1>10. \A n \in 0..Count : Part[n] \in Section
  BY <1>2, <1>6, <1>8, <1>9
<1>. QED BY <1>1, <1>2, <1>6, <1>7, <1>10

\* The numbers of a part.
LEMMA PartNumbers ==
    ASSUME LaidOut, image \in Images, Genuine, NEW n \in 0..Count
    PROVE  /\ Part[n].address \in Nat /\ Part[n].rawSize \in Nat /\ Part[n].rawOffset \in Nat
           /\ Part[n].rawSize = 4 * (Part[n].rawSize \div 4) /\ Part[n].rawSize \div 4 \in Nat
           /\ Part[n].rawOffset + Part[n].rawSize <= FileSize
           /\ Part[n].address + Part[n].rawSize <= image.size
<1>1. Part[n] \in Section /\ Within(image, Part[n])
  BY Parts
<1>2. Part[n].address \in Nat /\ Part[n].rawSize \in Nat /\ Part[n].rawOffset \in Nat
  BY <1>1 DEF Section
<1>3. Part[n].rawSize % 4 = 0
  BY <1>1 DEF Within
<1>4. \A s \in Nat : s % 4 = 0 => s = 4 * (s \div 4) /\ s \div 4 \in Nat
  OBVIOUS
<1>. QED BY <1>1, <1>2, <1>3, <1>4 DEF Within

-----------------------------------------------------------------------------
(* The stack *)

LEMMA PushedTask ==
    ASSUME NEW q \in Seq(Int), NEW s \in Int, NEW d \in Int, NEW z \in Int,
           NEW p, p = <<s, d, z>> \o q
    PROVE  /\ p \in Seq(Int) /\ Len(p) = Len(q) + 3
           /\ p[1] = s /\ p[2] = d /\ p[3] = z
           /\ \A k \in 1..Len(q) : p[k + 3] = q[k]
<1>. DEFINE t == <<s, d, z>>
<1>1. t \in Seq(Int) /\ Len(t) = 3 /\ t[1] = s /\ t[2] = d /\ t[3] = z
  OBVIOUS
<1>. HIDE DEF t
<1>2. /\ t \o q \in Seq(Int) /\ Len(t \o q) = Len(t) + Len(q)
      /\ \A k \in 1..Len(t)+Len(q) : (t \o q)[k] = IF k <= Len(t) THEN t[k] ELSE q[k - Len(t)]
  BY <1>1, ConcatProperties
<1>3. Len(q) \in Nat
  OBVIOUS
<1>4. \A k \in 1..Len(q) : k + 3 \in 1..3+Len(q) /\ ~(k + 3 <= 3) /\ k + 3 - 3 = k
  BY <1>3
<1>5. \A k \in 1..3 : k \in 1..3+Len(q) /\ k <= 3
  BY <1>3
<1>. QED BY <1>1, <1>2, <1>3, <1>4, <1>5 DEF t

LEMMA PoppedTask ==
    ASSUME NEW q \in Seq(Int), Len(q) >= 3, NEW p, p = SubSeq(q, 4, Len(q))
    PROVE  /\ p \in Seq(Int) /\ Len(p) = Len(q) - 3
           /\ \A k \in 1..Len(q)-3 : p[k] = q[k + 3]
<1>1. Len(q) \in Nat
  OBVIOUS
<1>2. /\ p \in Seq(Int) /\ Len(p) = IF 4 <= Len(q) THEN Len(q) - 4 + 1 ELSE 0
      /\ \A k \in 1..Len(q)-4+1 : p[k] = q[4 + k - 1]
  <2>1. \A k \in 4..Len(q) : q[k] \in Int
    BY <1>1
  <2>. QED BY <1>1, <2>1, SubSeqProperties
<1>3. \A k \in 1..Len(q)-3 : k \in 1..Len(q)-4+1 /\ 4 + k - 1 = k + 3
  BY <1>1
<1>4. \A k \in 1..Len(q)-3 : p[k] = q[k + 3]
  BY <1>2, <1>3
<1>5. Len(p) = Len(q) - 3
  <2>1. \A n \in Nat : n >= 3 => (IF 4 <= n THEN n - 4 + 1 ELSE 0) = n - 3
    OBVIOUS
  <2>. QED BY ONLY <1>1, <1>2, <2>1, Len(q) >= 3
<1>. QED BY <1>2, <1>4, <1>5

\* The task of one more part.
LEMMA PushTask ==
    ASSUME LaidOut, image \in Images, Genuine, StackInv, image' = image,
           pc \notin {"enter", "kernel"}, pc' \notin {"enter", "kernel"},
           Left \in 0..Count, Left' = Left + 1,
           LET p == Part[Count - Left] IN
           stack' = Pushed(FileAt + p.rawOffset, image.base + p.address, p.rawSize)
    PROVE  StackInv'
<1>. DEFINE new == Count - Left
            src == FileAt + Part[new].rawOffset
            dst == image.base + Part[new].address
            len == Part[new].rawSize
<1>1. Count \in Nat /\ Left \in Nat /\ new \in 0..Count /\ Count' = Count /\ Part' = Part
  BY Parts DEF Count, Part
<1>2. src \in Int /\ dst \in Int /\ len \in Int
  BY <1>1, Parts, PartNumbers, RelocateAssumption
<1>3. stack \in Seq(Int) /\ Len(stack) = 3 * Left + 1 /\ stack[3 * Left + 1] = Caller
  BY DEF StackInv
<1>4. /\ stack' \in Seq(Int) /\ Len(stack') = 3 * Left + 4
      /\ stack'[1] = src /\ stack'[2] = dst /\ stack'[3] = len
      /\ \A k \in 1..3*Left+1 : stack'[k + 3] = stack[k]
  <2>. HIDE DEF src, dst, len
  <2>1. stack' = <<src, dst, len>> \o stack
    BY DEF Pushed, src, dst, len
  <2>2. /\ stack' \in Seq(Int) /\ Len(stack') = Len(stack) + 3
        /\ stack'[1] = src /\ stack'[2] = dst /\ stack'[3] = len
        /\ \A k \in 1..Len(stack) : stack'[k + 3] = stack[k]
    <3>1. src \in Int /\ dst \in Int /\ len \in Int /\ stack \in Seq(Int)
      BY <1>2, <1>3
    <3>. QED BY ONLY <2>1, <3>1, PushedTask
  <2>3. Len(stack) = 3 * Left + 1 /\ Len(stack) + 3 = 3 * Left + 4
    <3>1. Len(stack) = 3 * Left + 1 /\ Left \in Nat
      BY <1>1, <1>3
    <3>. QED BY ONLY <3>1
  <2>4. /\ stack' \in Seq(Int) /\ Len(stack') = 3 * Left + 4
        /\ \A k \in 1..3*Left+1 : stack'[k + 3] = stack[k]
    BY ONLY <2>2, <2>3
  <2>. QED BY <2>2, <2>4
<1>5. Len(stack') = 3 * Left' + 1 /\ stack'[3 * Left' + 1] = Caller
  <2>1. 3 * Left + 1 \in 1..3*Left+1 /\ 3 * Left' + 1 = (3 * Left + 1) + 3
    BY <1>1
  <2>. QED BY SMTT(30), <1>1, <1>3, <1>4, <2>1
<1>6. ASSUME NEW n \in 0..Count, n + Left' > Count
      PROVE  LET top == 3 * (n + Left' - Count) IN
             /\ stack'[top - 2] = FileAt + Part[n].rawOffset
             /\ stack'[top - 1] = image.base + Part[n].address
             /\ stack'[top] = Part[n].rawSize
  <2>1. CASE n = new
    <3>. DEFINE top == 3 * (n + Left' - Count)
    <3>1. top - 2 = 1 /\ top - 1 = 2 /\ top = 3
      BY <1>1, <2>1
    <3>. QED BY <1>4, <2>1, <3>1
  <2>2. CASE n # new
    <3>. DEFINE top == 3 * (n + Left - Count)
    <3>1. n + Left > Count /\ n + Left - Count \in 1..Left
      BY <1>1, <1>6, <2>2
    <3>2. /\ stack[top - 2] = FileAt + Part[n].rawOffset
          /\ stack[top - 1] = image.base + Part[n].address
          /\ stack[top] = Part[n].rawSize
      BY <3>1 DEF StackInv
    <3>3. /\ top - 2 \in 1..3*Left+1 /\ top - 1 \in 1..3*Left+1 /\ top \in 1..3*Left+1
          /\ 3 * (n + Left' - Count) = top + 3
      BY <1>1, <3>1
    <3>. HIDE DEF top
    <3>4. top \in Int
      BY <1>1, <3>3
    <3>5. (top + 3) - 2 = (top - 2) + 3 /\ (top + 3) - 1 = (top - 1) + 3
      BY <3>4
    <3>. QED BY ZenonT(40), <1>4, <3>2, <3>3, <3>5
  <2>. QED BY <2>1, <2>2
<1>. QED BY <1>1, <1>4, <1>5, <1>6 DEF StackInv

\* The uppermost task.
LEMMA PopTask ==
    ASSUME LaidOut, image \in Images, Genuine, StackInv, image' = image,
           pc \notin {"enter", "kernel"}, pc' \notin {"enter", "kernel"},
           Left \in 1..Count+1, Left' = Left - 1,
           stack' = SubSeq(stack, 4, Len(stack))
    PROVE  /\ StackInv'
           /\ LET p == Part[Count + 1 - Left] IN
              /\ stack[1] = FileAt + p.rawOffset
              /\ stack[2] = image.base + p.address
              /\ stack[3] = p.rawSize
<1>1. Count \in Nat /\ Left \in Nat /\ Left >= 1 /\ Count' = Count /\ Part' = Part
  BY Parts DEF Count, Part
<1>2. stack \in Seq(Int) /\ Len(stack) = 3 * Left + 1 /\ stack[3 * Left + 1] = Caller
  BY DEF StackInv
<1>3. /\ stack' \in Seq(Int) /\ Len(stack') = 3 * Left - 2
      /\ \A k \in 1..3*Left-2 : stack'[k] = stack[k + 3]
  <2>1. Len(stack) >= 3 /\ Len(stack) - 3 = 3 * Left - 2
    BY <1>1, <1>2
  <2>. QED BY <1>2, <2>1, PoppedTask
<1>4. Len(stack') = 3 * Left' + 1 /\ stack'[3 * Left' + 1] = Caller
  <2>1. 3 * Left' + 1 \in 1..3*Left-2 /\ (3 * Left' + 1) + 3 = 3 * Left + 1 /\ 3 * Left' + 1 = 3 * Left - 2
    BY <1>1
  <2>. QED BY <1>2, <1>3, <2>1
<1>5. ASSUME NEW n \in 0..Count, n + Left' > Count
      PROVE  LET top == 3 * (n + Left' - Count) IN
             /\ stack'[top - 2] = FileAt + Part[n].rawOffset
             /\ stack'[top - 1] = image.base + Part[n].address
             /\ stack'[top] = Part[n].rawSize
  <2>. DEFINE top == 3 * (n + Left' - Count)
  <2>1. n + Left > Count /\ n + Left' - Count \in 1..Left-1
    BY <1>1, <1>5
  <2>2. 3 * (n + Left - Count) = top + 3
    BY <1>1, <2>1
  <2>3. /\ top - 2 \in 1..3*Left-2 /\ top - 1 \in 1..3*Left-2 /\ top \in 1..3*Left-2
    BY <1>1, <2>1
  <2>. HIDE DEF top
  <2>4. /\ stack[(top + 3) - 2] = FileAt + Part[n].rawOffset
        /\ stack[(top + 3) - 1] = image.base + Part[n].address
        /\ stack[top + 3] = Part[n].rawSize
    BY <2>1, <2>2 DEF StackInv
  <2>5. top \in Int
    BY <1>1, <2>3
  <2>6. (top + 3) - 2 = (top - 2) + 3 /\ (top + 3) - 1 = (top - 1) + 3
    BY <2>5
  <2>7. /\ stack'[top - 2] = FileAt + Part[n].rawOffset
        /\ stack'[top - 1] = image.base + Part[n].address
        /\ stack'[top] = Part[n].rawSize
    BY <1>3, <2>3, <2>4, <2>6
  <2>. QED BY <2>7 DEF top
<1>6. LET p == Part[Count + 1 - Left] IN
      /\ stack[1] = FileAt + p.rawOffset
      /\ stack[2] = image.base + p.address
      /\ stack[3] = p.rawSize
  <2>. DEFINE n == Count + 1 - Left
              top == 3 * (n + Left - Count)
  <2>1. n \in 0..Count /\ n + Left > Count
    BY <1>1
  <2>2. top - 2 = 1 /\ top - 1 = 2 /\ top = 3
    BY <1>1
  <2>. HIDE DEF n
  <2>3. /\ stack[top - 2] = FileAt + Part[n].rawOffset
        /\ stack[top - 1] = image.base + Part[n].address
        /\ stack[top] = Part[n].rawSize
    BY <2>1 DEF StackInv
  <2>. QED BY <2>2, <2>3 DEF n
<1>. QED BY <1>1, <1>3, <1>4, <1>5, <1>6 DEF StackInv

\* A step that leaves the stack alone.
LEMMA SameStack ==
    ASSUME StackInv, image' = image, stack' = stack, Left' = Left,
           pc \notin {"enter", "kernel"}, pc' \notin {"enter", "kernel"}
    PROVE  StackInv'
<1>1. Count' = Count /\ Part' = Part
  BY DEF Count, Part
<1>. QED BY <1>1 DEF StackInv

-----------------------------------------------------------------------------
(* The placement *)

\* What is copied of a part is in the part.
LEMMA CopiedOfPart ==
    ASSUME LaidOut, image \in Images, Genuine, CountInv, NEW n \in 0..Count
    PROVE  Copied[n] \in 0..Part[n].rawSize
<1>1. Part[n].rawSize \in Nat
  BY PartNumbers
<1>2. pc = "move" /\ n = Current => edi - (image.base + Part[n].address) \in 0..Part[n].rawSize
  BY DEF CountInv
<1>. QED BY <1>1, <1>2 DEF Copied

\* Memory differs from what it was only where the image belongs.
LEMMA WrittenInImage ==
    ASSUME LaidOut, image \in Images, ImageInv, CountInv, MemoryInv,
           NEW a \in 0..MemSize-1, memory[a] # Loaded[a]
    PROVE  Genuine /\ a \in image.base .. image.base + image.size - 1
<1>1. Genuine
  <2>1. pc \notin Early
    BY DEF MemoryInv
  <2>2. pc \notin {"check", "hang"}
    BY <2>1 DEF Early
  <2>. QED BY <2>2 DEF ImageInv
<1>2. PICK n \in 0..Count : \E k \in 0..Copied[n]-1 : a = image.base + Part[n].address + k
  BY DEF MemoryInv
<1>2a. PICK k \in 0..Copied[n]-1 : a = image.base + Part[n].address + k
  BY <1>2
<1>3. /\ Part[n].address \in Nat /\ Part[n].rawSize \in Nat /\ image.base \in Nat /\ image.size \in Nat
      /\ Part[n].address + Part[n].rawSize <= image.size /\ Copied[n] \in 0..Part[n].rawSize
  BY <1>1, Parts, PartNumbers, CopiedOfPart
<1>. QED BY <1>1, <1>2a, <1>3

\* A byte of a part belongs to that part only.
LEMMA PlacedByte ==
    ASSUME LaidOut, image \in Images, Genuine, NEW n \in 0..Count, NEW k \in 0..Part[n].rawSize-1
    PROVE  LET a == image.base + Part[n].address + k IN
           a \in 0..MemSize-1 /\ Mapped(image)[a] = Part[n].rawOffset + k
<1>. DEFINE a == image.base + Part[n].address + k
            span(m) == image.base + Part[m].address .. image.base + Part[m].address + Part[m].rawSize - 1
<1>1. /\ image.base \in Nat /\ image.size \in Nat /\ image.base + image.size <= MemSize
      /\ \A m \in 0..Count : /\ Part[m].address \in Nat /\ Part[m].rawSize \in Nat
                             /\ Part[m].rawOffset \in Nat
                             /\ Part[m].address + Part[m].rawSize <= image.size
      /\ \A l, m \in 0..Count : l # m => Apart(Part[l], Part[m])
  BY Parts, PartNumbers
<1>2. a \in 0..MemSize-1 /\ a \in span(n)
  BY <1>1, RelocateAssumption
<1>3. ASSUME NEW m \in 0..Count, a \in span(m) PROVE m = n
  <2>. SUFFICES ASSUME m # n PROVE FALSE
    OBVIOUS
  <2>1. Apart(Part[m], Part[n])
    BY <1>1
  <2>. QED BY <1>1, <1>2, <1>3, <2>1 DEF Apart
<1>4. At(image, a) = {m \in 0..Count : a \in span(m)}
  BY DEF At, Count, Part
<1>. HIDE DEF a, span
<1>5. At(image, a) = {n}
  BY <1>2, <1>3, <1>4
<1>6. At(image, a) # {} /\ (CHOOSE m \in At(image, a) : TRUE) = n
  BY <1>5
<1>7. Mapped(image)[a] = Part[n].rawOffset + (a - (image.base + Part[n].address))
  BY <1>2, <1>6 DEF Mapped, Part
<1>8. a - (image.base + Part[n].address) = k
  BY <1>1 DEF a
<1>. QED BY <1>2, <1>7, <1>8 DEF a

\* Where no part belongs, what was there belongs.
LEMMA PlacedElsewhere ==
    ASSUME NEW a \in 0..MemSize-1, At(image, a) = {}
    PROVE  Mapped(image)[a] = Loaded[a]
BY DEF Mapped

\* What differs from memory as it was is at its place.
LEMMA WrittenIsPlaced ==
    ASSUME LaidOut, image \in Images, Genuine, CountInv, MemoryInv, NEW a \in 0..MemSize-1,
           memory[a] # Loaded[a]
    PROVE  memory[a] = Mapped(image)[a]
<1>1. PICK n \in 0..Count : \E k \in 0..Copied[n]-1 : a = image.base + Part[n].address + k
  BY DEF MemoryInv
<1>1a. PICK k \in 0..Copied[n]-1 : a = image.base + Part[n].address + k
  BY <1>1
<1>2. Part[n].rawSize \in Nat /\ Copied[n] \in 0..Part[n].rawSize
  BY CopiedOfPart, PartNumbers
<1>3. k \in 0..Part[n].rawSize-1
  BY <1>2
<1>4. memory[a] = Part[n].rawOffset + k
  BY <1>1a DEF MemoryInv
<1>. QED BY <1>1a, <1>3, <1>4, PlacedByte

\* With every part copied, memory is what the headers say.
LEMMA AllPlaced ==
    ASSUME LaidOut, RelocateInv, pc \in {"enter", "kernel"}
    PROVE  memory = Mapped(image)
<1>1. image \in Images /\ Genuine /\ CountInv /\ MemoryInv
  BY DEF RelocateInv, ImageInv
<1>2. /\ memory = [a \in 0..MemSize-1 |-> memory[a]]
      /\ Mapped(image) = [a \in 0..MemSize-1 |-> Mapped(image)[a]]
  BY <1>1 DEF MemoryInv, Mapped
<1>3. ASSUME NEW a \in 0..MemSize-1 PROVE memory[a] = Mapped(image)[a]
  <2>1. CASE memory[a] # Loaded[a]
    BY <1>1, <2>1, WrittenIsPlaced
  <2>2. CASE memory[a] = Loaded[a] /\ At(image, a) = {}
    BY <2>2, PlacedElsewhere
  <2>3. CASE At(image, a) # {}
    <3>1. PICK n \in 0..Count :
             a \in image.base + Part[n].address .. image.base + Part[n].address + Part[n].rawSize - 1
      BY <2>3 DEF At, Count, Part
    <3>. DEFINE k == a - (image.base + Part[n].address)
    <3>2. /\ Part[n].address \in Nat /\ Part[n].rawSize \in Nat /\ image.base \in Nat
          /\ Copied[n] = Part[n].rawSize
      BY <1>1, Parts, PartNumbers DEF Copied, Early
    <3>3. k \in 0..Part[n].rawSize-1 /\ image.base + Part[n].address + k = a
      BY <3>1, <3>2
    <3>. HIDE DEF k
    <3>4. memory[a] = Part[n].rawOffset + k
      BY <1>1, <3>2, <3>3 DEF MemoryInv
    <3>5. Mapped(image)[a] = Part[n].rawOffset + k
      BY <1>1, <3>3, PlacedByte
    <3>. QED BY <3>4, <3>5
  <2>. QED BY <2>1, <2>2, <2>3
<1>. QED BY <1>2, <1>3

-----------------------------------------------------------------------------
(* The steps *)

LEMMA InitInv == LaidOut /\ Init => RelocateInv
<1>. SUFFICES ASSUME LaidOut, Init PROVE RelocateInv
  OBVIOUS
<1>1. Count \in Nat
  BY DEF LaidOut, Init, Count
<1>2. StackInv
  <2>1. Caller \in Int
    BY DEF Caller
  <2>2. stack \in Seq(Int) /\ Len(stack) = 1 /\ stack[1] = Caller /\ Left = 0
    BY <2>1 DEF Init, Left
  <2>3. ~\E n \in 0..Count : n + 0 > Count
    BY <1>1
  <2>. QED BY <2>2, <2>3 DEF StackInv, Init
<1>3. MemoryInv
  <2>1. memory = Loaded
    BY DEF Init
  <2>2. memory \in [0..MemSize-1 -> {Old} \cup 0..FileSize-1]
    BY <2>1, RelocateAssumption DEF Loaded
  <2>3. \A n \in 0..Count : Copied[n] = 0
    BY DEF Init, Copied, Early
  <2>. QED BY <2>1, <2>2, <2>3 DEF MemoryInv
<1>. QED BY <1>2, <1>3 DEF RelocateInv, Init, Labels, ImageInv, CountInv

\* A step that leaves memory alone.
LEMMA SameMemory ==
    ASSUME MemoryInv, image' = image, memory' = memory, pc' \in Early => pc \in Early,
           \A n \in 0..Count : Copied'[n] = Copied[n]
    PROVE  MemoryInv'
<1>1. Count' = Count /\ Part' = Part
  BY DEF Count, Part
<1>. QED BY <1>1 DEF MemoryInv

\* Up to the first section header.
LEMMA SetupStep ==
    LaidOut /\ RelocateInv /\ (CheckImage \/ SaveHll \/ FindSections) => RelocateInv'
<1>. SUFFICES ASSUME LaidOut, RelocateInv, CheckImage \/ SaveHll \/ FindSections
              PROVE  RelocateInv'
  OBVIOUS
<1>1. /\ pc \in {"check", "relocate", "find"} /\ pc' \in {"relocate", "hang", "find", "push"}
      /\ UNCHANGED <<image, memory, stack>>
  BY DEF CheckImage, SaveHll, FindSections
<1>2. image \in Images /\ ImageInv /\ CountInv /\ StackInv /\ MemoryInv /\ Count \in Nat
  BY DEF RelocateInv, LaidOut, Count
<1>3. MemoryInv'
  <2>1. \A n \in 0..Count : Copied[n] = 0
    BY <1>1 DEF Copied, Early
  <2>2. \A n \in 0..Count : Copied'[n] = 0
    BY <1>1 DEF Copied, Early, Count
  <2>. QED BY <1>1, <1>2, <2>1, <2>2, SameMemory DEF Early
<1>4. pc = "find" => ecx' = Count /\ edi' = Count /\ Count > 0
  <2>. SUFFICES ASSUME pc = "find" PROVE ecx' = Count /\ edi' = Count /\ Count > 0
    OBVIOUS
  <2>1. FindSections /\ Genuine /\ eax = image.entry
    BY <1>2 DEF CheckImage, SaveHll, ImageInv
  <2>2. image.entry \in 0..WordSize-1 /\ WordSize \in Nat \ {0} /\ Count > 0
    BY <1>2, <2>1, Parts, RelocateAssumption
  <2>3. image.entry \div WordSize = 0
    BY <2>2
  <2>4. ecx' = Count /\ edi' = 0 * WordSize + Count
    BY <2>1, <2>3 DEF FindSections
  <2>. QED BY <1>2, <2>2, <2>4
<1>5. StackInv'
  <2>1. Left = 0 /\ Left' = 0
    BY <1>1, <1>2, <1>4 DEF Left, CheckImage, SaveHll, FindSections, Count
  <2>. QED BY <1>1, <1>2, <2>1, SameStack
<1>6. ImageInv' /\ CountInv'
  <2>1. CASE CheckImage
    BY <1>2, <2>1 DEF CheckImage, ImageInv, CountInv, Genuine
  <2>2. CASE SaveHll
    <3>1. image.entry \in Nat
      BY <1>2, <2>2, Parts, RelocateAssumption DEF SaveHll, ImageInv
    <3>. QED BY <1>2, <2>2, <3>1 DEF SaveHll, ImageInv, CountInv, Genuine
  <2>3. CASE FindSections
    <3>1. /\ pc = "find" /\ pc' = "push" /\ edi' = Count /\ ecx' = Count /\ eax' = Count
          /\ Count > 0 /\ UNCHANGED <<image, esi, hll>>
      BY <1>4, <2>3 DEF FindSections
    <3>2. Count' = Count
      BY <3>1 DEF Count
    <3>. QED BY <1>2, <3>1, <3>2 DEF ImageInv, CountInv, Genuine
  <2>. QED BY <2>1, <2>2, <2>3
<1>. QED BY <1>1, <1>2, <1>3, <1>5, <1>6 DEF RelocateInv, Labels

\* A task is pushed.
LEMMA PushStep ==
    LaidOut /\ RelocateInv /\ (PushSection \/ PushHeader) => RelocateInv'
<1>. SUFFICES ASSUME LaidOut, RelocateInv, PushSection \/ PushHeader PROVE RelocateInv'
  OBVIOUS
<1>1. /\ pc \in {"push", "header"} /\ pc' \in {"push", "header", "load"}
      /\ UNCHANGED <<image, memory, hll, esi>>
  BY DEF PushSection, PushHeader
<1>2. image \in Images /\ ImageInv /\ CountInv /\ StackInv /\ MemoryInv /\ Genuine
  BY <1>1 DEF RelocateInv, ImageInv
<1>3. /\ Count \in Nat \ {0} /\ Count' = Count /\ image.base \in Nat
      /\ \A n \in 1..Count : Part[n] = image.sections[n]
      /\ Part[0] = [address |-> 0, rawSize |-> image.sections[1].rawOffset, rawOffset |-> 0]
  BY <1>1, <1>2, Parts DEF Count
<1>4. ImageInv'
  BY <1>1, <1>2 DEF ImageInv, Genuine
<1>5. CASE PushSection
  <2>1. /\ pc = "push" /\ ecx \in 1..Count /\ edi = ecx
        /\ edi' = edi - 1 /\ ecx' = ecx - 1 /\ eax' = eax
        /\ pc' = IF ecx' = 0 THEN "header" ELSE "push"
    BY <1>2, <1>5 DEF PushSection, CountInv
  <2>2. edi' \in 0..Count-1 /\ edi' + 1 = ecx
    BY <1>3, <2>1
  <2>3. Headers(edi') = {Part[ecx]}
    BY <1>3, <2>1, <2>2 DEF Headers
  <2>4. stack' = Pushed(FileAt + Part[ecx].rawOffset, image.base + Part[ecx].address, Part[ecx].rawSize)
    BY <1>5, <2>3 DEF PushSection
  <2>5. Left = Count - ecx /\ Left \in 0..Count /\ Count - Left = ecx
    BY <1>3, <2>1 DEF Left
  <2>6. Left' = Left + 1
    <3>1. CASE ecx' = 0
      BY <1>3, <2>1, <2>5, <3>1 DEF Left
    <3>2. CASE ecx' # 0
      BY <1>3, <2>1, <2>5, <3>2 DEF Left
    <3>. QED BY <3>1, <3>2
  <2>7. StackInv'
    BY <1>1, <1>2, <2>1, <2>4, <2>5, <2>6, PushTask
  <2>8. CountInv'
    BY <1>1, <1>2, <1>3, <2>1 DEF CountInv
  <2>9. MemoryInv'
    <3>1. \A n \in 0..Count : Copied[n] = 0 /\ Copied'[n] = 0
      BY <1>3, <2>1 DEF Copied, Early
    <3>. QED BY <1>1, <1>2, <3>1, SameMemory DEF Early
  <2>. QED BY <1>1, <1>2, <1>4, <2>7, <2>8, <2>9 DEF RelocateInv, Labels
<1>6. CASE PushHeader
  <2>1. /\ pc = "header" /\ edi = 0 /\ pc' = "load" /\ eax' = Count + 1 /\ UNCHANGED <<edi, ecx>>
    BY <1>2, <1>6 DEF PushHeader, CountInv
  <2>2. Headers(edi) = {Part[1]}
    BY <1>3, <2>1 DEF Headers
  <2>3. Part[0].address = 0 /\ Part[0].rawOffset = 0 /\ Part[0].rawSize = Part[1].rawOffset
    BY <1>3
  <2>4. stack' = Pushed(FileAt + Part[0].rawOffset, image.base + Part[0].address, Part[0].rawSize)
    <3>1. stack' = Pushed(FileAt, image.base, Part[0].rawSize)
      BY <1>6, <2>2, <2>3 DEF PushHeader
    <3>2. FileAt + 0 = FileAt /\ image.base + 0 = image.base
      BY <1>3, RelocateAssumption
    <3>. QED BY <2>3, <3>1, <3>2
  <2>5. Left = Count /\ Left' = Left + 1 /\ Count - Left = 0
    BY <1>3, <2>1 DEF Left
  <2>6. StackInv'
    BY <1>1, <1>2, <1>3, <2>1, <2>4, <2>5, PushTask
  <2>7. CountInv'
    BY <1>1, <1>2, <1>3, <2>1 DEF CountInv
  <2>8. MemoryInv'
    <3>1. \A n \in 0..Count : Copied[n] = 0
      BY <2>1 DEF Copied, Early
    <3>2. Current' = 0
      BY <1>3, <2>1 DEF Current
    <3>3. \A n \in 0..Count : ~(n < Current')
      BY <1>3, <3>2
    <3>4. \A n \in 0..Count : Copied'[n] = 0
      BY <1>3, <2>1, <3>3 DEF Copied, Early
    <3>. QED BY <1>1, <1>2, <2>1, <3>1, <3>4, SameMemory DEF Early
  <2>. QED BY <1>1, <1>2, <1>4, <2>6, <2>7, <2>8 DEF RelocateInv, Labels
<1>. QED BY <1>5, <1>6

\* A task is popped into the registers.
LEMMA LoadStep == LaidOut /\ RelocateInv /\ LoadTask => RelocateInv'
<1>. SUFFICES ASSUME LaidOut, RelocateInv, LoadTask PROVE RelocateInv'
  OBVIOUS
<1>1. /\ pc = "load" /\ pc' = "move" /\ UNCHANGED <<image, memory, hll, eax>>
      /\ esi' = stack[1] /\ edi' = stack[2] /\ ecx' = stack[3] \div 4
      /\ stack' = SubSeq(stack, 4, Len(stack))
  BY DEF LoadTask
<1>2. /\ image \in Images /\ ImageInv /\ CountInv /\ StackInv /\ MemoryInv /\ Genuine
      /\ eax \in 1..Count+1
  BY <1>1 DEF RelocateInv, ImageInv, CountInv
<1>3. /\ Count \in Nat /\ Count' = Count /\ Part' = Part /\ Current' = Current /\ Current \in 0..Count
      /\ image.base \in Nat /\ FileAt \in Nat
  <2>1. Count \in Nat /\ image.base \in Nat /\ FileAt \in Nat
    BY <1>2, Parts, RelocateAssumption
  <2>2. Count' = Count /\ Part' = Part
    BY <1>1 DEF Count, Part
  <2>. QED BY <1>1, <1>2, <2>1, <2>2 DEF Current
<1>4. Left = eax /\ Left' = eax - 1 /\ Left' = Left - 1 /\ Left \in 1..Count+1
  BY <1>1, <1>2 DEF Left
<1>5. /\ StackInv'
      /\ LET p == Part[Count + 1 - Left] IN
         stack[1] = FileAt + p.rawOffset /\ stack[2] = image.base + p.address /\ stack[3] = p.rawSize
  BY <1>1, <1>2, <1>4, PopTask
<1>6. esi' = FileAt + Part[Current].rawOffset /\ edi' = image.base + Part[Current].address
      /\ ecx' = Part[Current].rawSize \div 4
  BY <1>1, <1>4, <1>5 DEF Current
<1>7. /\ Part[Current].address \in Nat /\ Part[Current].rawSize \in Nat /\ Part[Current].rawOffset \in Nat
      /\ Part[Current].rawSize = 4 * ecx' /\ ecx' \in Nat
  BY <1>2, <1>3, <1>6, PartNumbers
<1>8. CountInv'
  <2>1. edi' - (image.base + Part[Current].address) = 0
    BY <1>3, <1>6, <1>7
  <2>2. /\ esi' \in Nat /\ edi' \in Nat /\ ecx' \in Nat /\ eax' \in Nat
        /\ esi' = FileAt + Part[Current].rawOffset + 0
        /\ 0 \in 0..Part[Current].rawSize /\ 0 + 4 * ecx' = Part[Current].rawSize
    <3>. DEFINE part == Part[Current]
    <3>. HIDE DEF part
    <3>1. /\ esi' = FileAt + part.rawOffset /\ edi' = image.base + part.address
          /\ part.address \in Nat /\ part.rawSize \in Nat /\ part.rawOffset \in Nat
          /\ part.rawSize = 4 * ecx' /\ ecx' \in Nat
      BY <1>6, <1>7 DEF part
    <3>2. eax' \in Nat
      BY <1>1, <1>2
    <3>3. esi' \in Nat /\ edi' \in Nat /\ esi' = FileAt + part.rawOffset + 0
      BY <1>3, <3>1
    <3>4. 0 \in 0..part.rawSize
      <4>1. \A s \in Nat : 0 \in 0..s
        OBVIOUS
      <4>. QED BY ONLY <3>1, <4>1
    <3>5. 0 + 4 * ecx' = part.rawSize
      BY ONLY <3>1
    <3>. QED BY <3>1, <3>2, <3>3, <3>4, <3>5 DEF part
  <2>. QED BY <1>1, <1>2, <1>3, <2>1, <2>2 DEF CountInv
<1>9. MemoryInv'
  <2>1. ASSUME NEW n \in 0..Count PROVE Copied'[n] = Copied[n]
    <3>1. edi' - (image.base + Part[Current].address) = 0
      BY <1>3, <1>6, <1>7
    <3>2. n = Current => ~(n < Current)
      BY <1>3
    <3>. QED BY <1>1, <1>3, <3>1, <3>2 DEF Copied, Early
  <2>. QED BY <1>1, <1>2, <2>1, SameMemory DEF Early
<1>10. ImageInv'
  BY <1>1, <1>2 DEF ImageInv, Genuine
<1>. QED BY <1>1, <1>2, <1>5, <1>8, <1>9, <1>10 DEF RelocateInv, Labels

\* The four cells one turn of rep movsd writes: each gets the byte that belongs there.
LEMMA MoveStep == LaidOut /\ RelocateInv /\ MoveDword => RelocateInv' /\ Placement!Place
<1>. SUFFICES ASSUME LaidOut, RelocateInv, MoveDword PROVE RelocateInv' /\ Placement!Place
  OBVIOUS
<1>. DEFINE part == Part[Current]
            at   == image.base + part.address
            done == edi - at
<1>1. /\ pc = "move" /\ pc' = "move" /\ ecx > 0 /\ UNCHANGED <<image, stack, hll, eax>>
      /\ memory' = [a \in DOMAIN memory |-> IF a \in edi..edi+3 THEN memory[esi + (a - edi)] ELSE memory[a]]
      /\ esi' = esi + 4 /\ edi' = edi + 4 /\ ecx' = ecx - 1
  BY DEF MoveDword
<1>2. /\ image \in Images /\ ImageInv /\ CountInv /\ StackInv /\ MemoryInv /\ Genuine
      /\ eax \in 1..Count+1 /\ ecx \in Nat /\ edi \in Nat /\ esi \in Nat
  BY <1>1 DEF RelocateInv, ImageInv, CountInv
<1>3. /\ Count \in Nat /\ Count' = Count /\ Part' = Part /\ Current' = Current /\ Current \in 0..Count
      /\ image.base \in Nat /\ image.size \in Nat
      /\ FileAt + FileSize <= image.base /\ image.base + image.size <= MemSize
      /\ FileAt \in Nat /\ FileSize \in Nat /\ MemSize \in Nat
  BY SMTT(30), <1>1, <1>2, Parts, RelocateAssumption DEF Count, Part, Current
<1>4. /\ part.address \in Nat /\ part.rawSize \in Nat /\ part.rawOffset \in Nat
      /\ part.rawOffset + part.rawSize <= FileSize /\ part.address + part.rawSize <= image.size
  BY <1>2, <1>3, PartNumbers
<1>5. /\ esi = FileAt + part.rawOffset + done /\ done \in 0..part.rawSize
      /\ done + 4 * ecx = part.rawSize
  BY <1>1, <1>2 DEF CountInv
<1>. HIDE DEF part
<1>6. done + 4 <= part.rawSize /\ edi = at + done
  BY <1>1, <1>2, <1>3, <1>4, <1>5
<1>7. CountInv'
  <2>1. edi' - at = done + 4
    BY <1>1, <1>2, <1>3, <1>4, <1>6
  <2>2. /\ esi' = FileAt + part.rawOffset + (done + 4) /\ done + 4 \in 0..part.rawSize
        /\ (done + 4) + 4 * ecx' = part.rawSize
        /\ esi' \in Nat /\ edi' \in Nat /\ ecx' \in Nat /\ eax' \in Nat
    BY <1>1, <1>2, <1>3, <1>4, <1>5, <1>6
  <2>. QED BY <1>1, <1>2, <1>3, <2>1, <2>2 DEF CountInv, part
<1>8. StackInv'
  <2>1. Left' = Left
    BY <1>1 DEF Left
  <2>. QED BY <1>1, <1>2, <2>1, SameStack
<1>9. \* what is written, and where
      ASSUME NEW a \in edi..edi+3
      PROVE  /\ a \in 0..MemSize-1 /\ a \in image.base .. image.base+image.size-1
             /\ memory'[a] = part.rawOffset + (a - at)
             /\ part.rawOffset + (a - at) \in 0..FileSize-1
  <2>. DEFINE from == esi + (a - edi)
  <2>1. from = FileAt + part.rawOffset + (a - at) /\ from \in FileAt..FileAt+FileSize-1
    BY <1>2, <1>3, <1>4, <1>5, <1>6
  <2>2. from \in 0..MemSize-1 /\ from \notin image.base .. image.base+image.size-1
    BY <1>3, <2>1
  <2>3. memory[from] = Loaded[from] /\ Loaded[from] = from - FileAt
    <3>1. memory[from] = Loaded[from]
      BY <1>2, <2>2, WrittenInImage
    <3>. QED BY <2>1, <2>2, <3>1 DEF Loaded
  <2>4. a \in 0..MemSize-1 /\ a \in image.base .. image.base+image.size-1
    BY <1>2, <1>3, <1>4, <1>5, <1>6
  <2>5. memory'[a] = memory[from]
    BY <1>1, <1>2, <2>4 DEF MemoryInv
  <2>6. from - FileAt = part.rawOffset + (a - at) /\ part.rawOffset + (a - at) \in 0..FileSize-1
    BY <1>2, <1>3, <1>4, <1>6, <2>1
  <2>. QED BY <2>3, <2>4, <2>5, <2>6
<1>10. \A a \in 0..MemSize-1 : a \notin edi..edi+3 => memory'[a] = memory[a]
  BY <1>1, <1>2 DEF MemoryInv
<1>11. ASSUME NEW n \in 0..Count, NEW k \in 0..Copied'[n]-1
       PROVE  memory'[image.base + Part[n].address + k] = Part[n].rawOffset + k
  <2>. DEFINE a == image.base + Part[n].address + k
  <2>1. /\ Part[n].address \in Nat /\ Part[n].rawSize \in Nat /\ Part[n].rawOffset \in Nat
        /\ Part[n].address + Part[n].rawSize <= image.size
    BY <1>2, PartNumbers
  <2>2. CASE n = Current
    <3>1. Copied'[n] = done + 4 /\ Copied[n] = done
      <4>1. ~(n < Current)
        BY <1>3, <2>2
      <4>2. Copied'[n] = edi' - at /\ Copied[n] = edi - at
        BY <1>1, <1>3, <2>2, <4>1 DEF Copied, part, Early
      <4>. QED BY <1>1, <1>2, <1>3, <1>4, <4>2
    <3>2. CASE k < done
      <4>1. k \in 0..Copied[n]-1
        BY <1>2, <1>3, <1>4, <1>5, <3>1, <3>2
      <4>2. memory[a] = Part[n].rawOffset + k
        BY <1>2, <4>1 DEF MemoryInv
      <4>3. a \in 0..MemSize-1 /\ a \notin edi..edi+3
        BY <1>2, <1>3, <1>4, <1>5, <1>6, <2>2, <3>1, <3>2 DEF part
      <4>. QED BY <1>10, <4>2, <4>3
    <3>3. CASE ~(k < done)
      <4>1. a \in edi..edi+3 /\ a - at = k
        BY <1>2, <1>3, <1>4, <1>5, <1>6, <2>2, <3>1, <3>3 DEF part
      <4>2. memory'[a] = part.rawOffset + (a - at)
        BY <1>9, <4>1
      <4>. QED BY <2>2, <4>1, <4>2 DEF part
    <3>. QED BY <3>2, <3>3
  <2>3. CASE n # Current
    <3>1. Copied'[n] = Copied[n] /\ Copied[n] \in {0, Part[n].rawSize}
      BY <1>1, <1>3, <2>3 DEF Copied, Early
    <3>2. k \in 0..Copied[n]-1 /\ k \in 0..Part[n].rawSize-1
      BY <2>1, <3>1
    <3>3. memory[a] = Part[n].rawOffset + k
      BY <1>2, <3>2 DEF MemoryInv
    <3>4. Apart(Part[n], part)
      BY <1>2, <1>3, <2>3, Parts DEF part
    <3>5. a \in 0..MemSize-1 /\ a \notin edi..edi+3
      BY <1>2, <1>3, <1>4, <1>5, <1>6, <2>1, <3>2, <3>4 DEF Apart
    <3>. QED BY <1>10, <3>3, <3>5
  <2>. QED BY <2>2, <2>3
<1>12. MemoryInv'
  <2>1. pc' \notin Early /\ Count' = Count /\ Part' = Part /\ image' = image
    BY <1>1, <1>3 DEF Early
  <2>2. memory' \in [0..MemSize-1 -> {Old} \cup 0..FileSize-1]
    <3>1. /\ DOMAIN memory = 0..MemSize-1
          /\ \A a \in 0..MemSize-1 : memory[a] \in {Old} \cup 0..FileSize-1
      BY <1>2 DEF MemoryInv
    <3>2. \A a \in 0..MemSize-1 : memory'[a] \in {Old} \cup 0..FileSize-1
      BY <1>9, <1>10, <3>1
    <3>3. memory' = [a \in 0..MemSize-1 |-> memory'[a]]
      BY <1>1, <3>1
    <3>. QED BY ONLY <3>2, <3>3
  <2>3. ASSUME NEW n \in 0..Count
        PROVE  Copied'[n] = (IF n = Current THEN done + 4 ELSE Copied[n]) /\ (n = Current => Copied[n] = done)
    <3>1. n = Current => ~(n < Current)
      BY <1>3
    <3>2. CASE n = Current
      <4>1. Copied'[n] = edi' - at /\ Copied[n] = edi - at
        BY <1>1, <1>3, <3>1, <3>2 DEF Copied, part, Early
      <4>. QED BY <1>1, <1>2, <1>3, <1>4, <3>2, <4>1
    <3>3. CASE n # Current
      BY <1>1, <1>3, <3>3 DEF Copied, Early
    <3>. QED BY <3>2, <3>3
  <2>4. ASSUME NEW a \in 0..MemSize-1, memory'[a] # Loaded[a]
        PROVE  \E n \in 0..Count : \E k \in 0..Copied'[n]-1 : a = image.base + Part[n].address + k
    <3>1. CASE a \in edi..edi+3
      <4>1. a - at \in 0..Copied'[Current]-1 /\ a = at + (a - at)
        BY <1>2, <1>3, <1>4, <1>5, <1>6, <2>3, <3>1
      <4>. QED BY <1>3, <4>1 DEF part
    <3>2. CASE a \notin edi..edi+3
      <4>1. PICK n \in 0..Count : \E k \in 0..Copied[n]-1 : a = image.base + Part[n].address + k
        BY <1>2, <1>10, <2>4, <3>2 DEF MemoryInv
      <4>1a. PICK k \in 0..Copied[n]-1 : a = image.base + Part[n].address + k
        BY <4>1
      <4>2. k \in 0..Copied'[n]-1
        BY <1>5, <2>3
      <4>. QED BY <4>1a, <4>2
    <3>. QED BY <3>1, <3>2
  <2>. QED BY <1>11, <2>1, <2>2, <2>4 DEF MemoryInv
<1>13. ImageInv'
  BY <1>1, <1>2 DEF ImageInv, Genuine
<1>14. Placement!Place
  <2>1. ASSUME NEW a \in 0..MemSize-1 PROVE memory'[a] \in {memory[a], Mapped(image)[a]}
    <3>1. CASE a \in edi..edi+3
      <4>. DEFINE k == a - at
      <4>1. k \in 0..part.rawSize-1 /\ image.base + part.address + k = a
        BY <1>2, <1>3, <1>4, <1>5, <1>6, <3>1
      <4>. HIDE DEF k
      <4>2. Mapped(image)[a] = part.rawOffset + k
        BY <1>2, <1>3, <4>1, PlacedByte DEF part
      <4>. QED BY <1>9, <3>1, <4>2 DEF k
    <3>2. CASE a \notin edi..edi+3
      BY <1>10, <3>2
    <3>. QED BY <3>1, <3>2
  <2>2. DOMAIN Loaded = 0..MemSize-1 /\ memory' = [a \in 0..MemSize-1 |-> memory'[a]]
    BY <1>12 DEF MemoryInv, Loaded
  <2>3. image \in {im \in Images : im.mz /\ im.pe /\ im.optional} /\ pc # "hang" /\ pc # "kernel" /\ pc # "astray"
    BY <1>1, <1>2 DEF Genuine
  <2>4. [im \in Images |-> Mapped(im)][image] = Mapped(image)
    BY <1>2
  <2>. QED BY <1>1, <2>1, <2>2, <2>3, <2>4 DEF Placement!Place
<1>. QED BY <1>1, <1>2, <1>7, <1>8, <1>12, <1>13, <1>14 DEF RelocateInv, Labels

\* The next task, or the end of them.
LEMMA NextTaskStep == LaidOut /\ RelocateInv /\ NextTask => RelocateInv'
<1>. SUFFICES ASSUME LaidOut, RelocateInv, NextTask PROVE RelocateInv'
  OBVIOUS
<1>1. /\ pc = "move" /\ ecx = 0 /\ eax' = eax - 1 /\ pc' = IF eax' = 0 THEN "ret" ELSE "load"
      /\ UNCHANGED <<image, memory, stack, hll, esi, edi, ecx>>
  BY DEF NextTask
<1>2. /\ image \in Images /\ ImageInv /\ CountInv /\ StackInv /\ MemoryInv /\ Genuine
      /\ eax \in 1..Count+1
  BY <1>1 DEF RelocateInv, ImageInv, CountInv
<1>3. Count \in Nat /\ Count' = Count /\ Part' = Part /\ Current \in 0..Count /\ Current' = Current + 1
  <2>1. Count \in Nat
    BY <1>2, Parts
  <2>2. Count' = Count /\ Part' = Part
    BY <1>1 DEF Count, Part
  <2>. QED BY <1>1, <1>2, <2>1, <2>2 DEF Current
<1>4. edi - (image.base + Part[Current].address) = Part[Current].rawSize
  BY <1>1, <1>2, <1>3, PartNumbers DEF CountInv
<1>5. ASSUME NEW n \in 0..Count PROVE Copied'[n] = Copied[n]
  <2>1. CASE eax' = 0
    <3>1. Current = Count /\ (n < Current \/ n = Current)
      BY <1>1, <1>2, <1>3, <2>1 DEF Current
    <3>. QED BY <1>1, <1>3, <1>4, <2>1, <3>1 DEF Copied, Early
  <2>2. CASE eax' # 0
    <3>1. n < Current' <=> n < Current \/ n = Current
      BY <1>3
    <3>. QED BY <1>1, <1>3, <1>4, <2>2, <3>1 DEF Copied, Early
  <2>. QED BY <2>1, <2>2
<1>6. MemoryInv'
  BY <1>1, <1>2, <1>5, SameMemory DEF Early
<1>7. StackInv'
  <2>1. Left' = Left
    BY <1>1, <1>2 DEF Left
  <2>. QED BY <1>1, <1>2, <2>1, SameStack
<1>8. CountInv' /\ ImageInv'
  BY <1>1, <1>2, <1>3 DEF CountInv, ImageInv, Genuine
<1>. QED BY <1>1, <1>2, <1>6, <1>7, <1>8 DEF RelocateInv, Labels

\* The return to the caller, who enters the module.
LEMMA ReturnStep == LaidOut /\ RelocateInv /\ (Ret \/ EnterHLLM) => RelocateInv'
<1>. SUFFICES ASSUME LaidOut, RelocateInv, Ret \/ EnterHLLM PROVE RelocateInv'
  OBVIOUS
<1>1. /\ pc \in {"ret", "enter"} /\ UNCHANGED <<image, memory, hll, esi, edi, ecx, eax>>
  BY DEF Ret, EnterHLLM
<1>2. image \in Images /\ ImageInv /\ CountInv /\ StackInv /\ MemoryInv /\ Genuine
  BY <1>1 DEF RelocateInv, ImageInv
<1>3. Count \in Nat /\ Count' = Count /\ Part' = Part
  BY <1>1, <1>2, Parts DEF Count, Part
<1>4. Left = 0 /\ stack \in Seq(Int)
  BY <1>1, <1>2 DEF Left, StackInv
<1>5. pc' \in {"enter", "kernel"} /\ stack' = <<>>
  <2>1. CASE Ret
    <3>1. pc = "ret" /\ Len(stack) = 3 * Left + 1 /\ stack[3 * Left + 1] = Caller
      BY <1>2, <2>1 DEF Ret, StackInv
    <3>2. Len(stack) = 1 /\ stack[1] = Caller
      BY <1>4, <3>1
    <3>3. Tail(stack) \in Seq(Int) /\ Len(Tail(stack)) = 0
      <4>1. stack # <<>>
        BY <1>4, <3>2, EmptySeq
      <4>. QED BY <1>4, <3>2, <4>1, HeadTailProperties
    <3>. QED BY <2>1, <3>2, <3>3, EmptySeq DEF Ret
  <2>2. CASE EnterHLLM
    BY <1>2, <2>2 DEF EnterHLLM, StackInv
  <2>. QED BY <2>1, <2>2
<1>6. MemoryInv'
  <2>1. \A n \in 0..Count : Copied'[n] = Copied[n]
    BY <1>1, <1>3, <1>5 DEF Copied, Early
  <2>. QED BY <1>1, <1>2, <1>5, <2>1, SameMemory DEF Early
<1>7. StackInv'
  <2>1. Left' = 0 /\ ~\E n \in 0..Count : n + 0 > Count
    BY <1>3, <1>5 DEF Left
  <2>. QED BY <1>3, <1>4, <1>5, <2>1 DEF StackInv
<1>8. CountInv' /\ ImageInv'
  BY <1>1, <1>2, <1>5 DEF CountInv, ImageInv, Genuine
<1>. QED BY <1>1, <1>2, <1>5, <1>6, <1>7, <1>8 DEF RelocateInv, Labels

LEMMA Preserved == LaidOut /\ RelocateInv /\ [Next]_vars => RelocateInv'
<1>. SUFFICES ASSUME LaidOut, RelocateInv, [Next]_vars PROVE RelocateInv'
  OBVIOUS
<1>1. CASE Finished \/ UNCHANGED vars
  <2>1. UNCHANGED vars
    BY <1>1 DEF Finished
  <2>2. Count' = Count /\ Part' = Part /\ Left' = Left
    BY <2>1 DEF vars, Count, Part, Left
  <2>3. Copied' = Copied
    BY <2>1, <2>2 DEF vars, Copied, Current
  <2>. QED BY <2>1, <2>2, <2>3 DEF vars, RelocateInv, ImageInv, CountInv, StackInv, MemoryInv, Genuine, Current
<1>. QED BY <1>1, SetupStep, PushStep, LoadStep, MoveStep, NextTaskStep, ReturnStep DEF Next

LEMMA Invariant == LaidOut => (Spec => []RelocateInv)
<1>. SUFFICES ASSUME LaidOut PROVE Spec => []RelocateInv
  OBVIOUS
<1>1. Init => RelocateInv
  BY InitInv
<1>2. RelocateInv /\ [Next]_vars => RelocateInv'
  BY Preserved
<1>. QED BY <1>1, <1>2, PTL DEF Spec

-----------------------------------------------------------------------------
(* The theorems *)

\* kRelocateImage's registers, its memory and the stack keep their types: the
\* return address stays under the tasks until ret takes it.
THEOREM RelocateTypeCorrect == LaidOut => (Spec => []TypeOK)
<1>. SUFFICES ASSUME LaidOut PROVE Spec => []TypeOK
  OBVIOUS
<1>1. RelocateInv => TypeOK
  <2>. SUFFICES ASSUME RelocateInv PROVE TypeOK
    OBVIOUS
  <2>1. /\ image \in Images /\ pc \in Labels /\ CountInv /\ StackInv /\ MemoryInv
    BY DEF RelocateInv
  <2>2. pc \notin {"enter", "kernel"} => stack # <<>> /\ stack[Len(stack)] = Caller
    <3>. SUFFICES ASSUME pc \notin {"enter", "kernel"} PROVE stack # <<>> /\ stack[Len(stack)] = Caller
      OBVIOUS
    <3>1. stack \in Seq(Int) /\ Len(stack) = 3 * Left + 1 /\ stack[Len(stack)] = Caller
      BY <2>1 DEF StackInv
    <3>2. 3 * Left + 1 # 0
      <4>1. Left \in Int
        <5>1. Count \in Nat
          BY <2>1 DEF LaidOut, Count
        <5>. QED BY <2>1, <5>1 DEF Left, CountInv
      <4>. QED BY <4>1
    <3>. QED BY <3>1, <3>2, EmptySeq
  <2>. QED BY <2>1, <2>2 DEF TypeOK, CountInv, MemoryInv, Labels
<1>. QED BY <1>1, Invariant, PTL

\* However many sections the module has and in whatever order their data lie in the
\* file, kEnterHLLM finds the headers at the base and every section at its address.
THEOREM ModuleInPlace == LaidOut => (Spec => []ImageInPlace)
<1>. SUFFICES ASSUME LaidOut PROVE Spec => []ImageInPlace
  OBVIOUS
<1>1. RelocateInv => ImageInPlace
  <2>. SUFFICES ASSUME RelocateInv, pc = "kernel"
                PROVE  /\ \A k \in 0..image.sections[1].rawOffset-1 : memory[hll.addr + k] = k
                       /\ \A n \in 1..Count : \A k \in 0..image.sections[n].rawSize-1 :
                             memory[hll.addr + image.sections[n].address + k] = image.sections[n].rawOffset + k
    BY DEF ImageInPlace
  <2>1. image \in Images /\ Genuine /\ hll.addr = image.base /\ MemoryInv
    BY DEF RelocateInv, ImageInv
  <2>2. /\ Count \in Nat \ {0} /\ image.base \in Nat
        /\ \A n \in 1..Count : Part[n] = image.sections[n]
        /\ Part[0] = [address |-> 0, rawSize |-> image.sections[1].rawOffset, rawOffset |-> 0]
    BY <2>1, Parts
  <2>3. \A n \in 0..Count : Copied[n] = Part[n].rawSize
    BY DEF Copied, Early
  <2>4. \A n \in 0..Count : \A k \in 0..Part[n].rawSize-1 :
           memory[image.base + Part[n].address + k] = Part[n].rawOffset + k
    BY <2>1, <2>3 DEF MemoryInv
  <2>5. \A k \in 0..image.sections[1].rawOffset-1 : memory[image.base + 0 + k] = 0 + k
    BY <2>2, <2>4
  <2>6. \A k \in 0..image.sections[1].rawOffset-1 : image.base + 0 + k = image.base + k /\ 0 + k = k
    BY <2>2
  <2>7. \A n \in 1..Count : n \in 0..Count
    BY <2>2
  <2>. QED BY <2>1, <2>2, <2>4, <2>5, <2>6, <2>7
<1>. QED BY <1>1, Invariant, PTL

\* kCheckImage and kRelocateImage, their stack of tasks and the order of its copies included,
\* implement ImagePlacement: what they move is nothing but the image's bytes to their
\* places, and kEnterHLLM jumps when they all are and nothing else was touched.
THEOREM RelocationPlaces == LaidOut => (Spec => PlacesImage)
<1>. SUFFICES ASSUME LaidOut PROVE Spec => PlacesImage
  OBVIOUS
<1>1. Init => Placement!Init
  BY DEF Init, Placement!Init
<1>2. RelocateInv /\ [Next]_vars => [Placement!Next]_(Placement!vars)
  <2>. SUFFICES ASSUME RelocateInv, [Next]_vars PROVE Placement!Next \/ UNCHANGED Placement!vars
    OBVIOUS
  <2>1. CASE CheckImage
    <3>1. pc = "check" /\ memory = Loaded /\ image \in Images /\ image' = image /\ memory' = memory
      BY <2>1 DEF CheckImage, RelocateInv, MemoryInv, Early
    <3>2. CASE image.mz /\ image.pe /\ image.optional
      BY <2>1, <3>1, <3>2 DEF CheckImage, Placement!vars
    <3>3. CASE ~(image.mz /\ image.pe /\ image.optional)
      <4>1. Placement!Refuse
        BY <2>1, <3>1, <3>3 DEF CheckImage, Placement!Refuse
      <4>. QED BY <4>1 DEF Placement!Next
    <3>. QED BY <3>2, <3>3
  <2>2. CASE MoveDword
    BY <2>2, MoveStep DEF Placement!Next
  <2>3. CASE EnterHLLM
    <3>1. /\ pc = "enter" /\ pc' = "kernel" /\ image' = image /\ memory' = memory
          /\ image \in Images /\ Genuine
      BY <2>3 DEF EnterHLLM, RelocateInv, ImageInv
    <3>2. memory = Mapped(image) /\ [im \in Images |-> Mapped(im)][image] = Mapped(image)
      BY <3>1, AllPlaced
    <3>3. Placement!Enter
      BY <3>1, <3>2 DEF Placement!Enter, Genuine
    <3>. QED BY <3>3 DEF Placement!Next
  <2>4. CASE SaveHll \/ FindSections \/ PushSection \/ PushHeader \/ LoadTask \/ NextTask \/ Ret
    <3>1. /\ image' = image /\ memory' = memory
          /\ pc \notin {"hang", "kernel", "astray"} /\ pc' \notin {"hang", "kernel"}
      BY <2>4 DEF SaveHll, FindSections, PushSection, PushHeader, LoadTask, NextTask, Ret
    <3>2. pc' # "astray"
      <4>1. RelocateInv'
        BY Preserved
      <4>. QED BY <4>1 DEF RelocateInv, Labels
    <3>. QED BY <3>1, <3>2 DEF Placement!vars
  <2>5. CASE Finished \/ UNCHANGED vars
    BY <2>5 DEF Finished, vars, Placement!vars
  <2>. QED BY <2>1, <2>2, <2>3, <2>4, <2>5 DEF Next
<1>. QED BY <1>1, <1>2, Invariant, PTL DEF Spec, PlacesImage, Placement!Spec

\* rep movsd writes only where the module belongs: the loader that copies, its boot
\* data and the file still being read stay as they are.
THEOREM OnlyModuleWritten == LaidOut => (Spec => []StaysInImage)
<1>. SUFFICES ASSUME LaidOut PROVE Spec => []StaysInImage
  OBVIOUS
<1>1. RelocateInv => StaysInImage
  <2>. SUFFICES ASSUME RelocateInv, NEW a \in DOMAIN memory, memory[a] # Loaded[a]
                PROVE  a \in image.base .. image.base + image.size - 1
    BY DEF StaysInImage
  <2>1. a \in 0..MemSize-1
    BY DEF RelocateInv, MemoryInv
  <2>. QED BY <2>1, WrittenInImage DEF RelocateInv
<1>. QED BY <1>1, Invariant, PTL

\* As many tasks are popped as were pushed, whatever the number of sections: ret
\* finds its caller's address.
THEOREM RetFindsCaller == LaidOut => (Spec => []TasksBalance)
<1>. SUFFICES ASSUME LaidOut PROVE Spec => []TasksBalance
  OBVIOUS
<1>1. RelocateInv => TasksBalance
  BY DEF RelocateInv, Labels, StackInv, Left, TasksBalance
<1>. QED BY <1>1, Invariant, PTL

-----------------------------------------------------------------------------
(* Progress *)

\* What is left to do: the stage of the program, the headers or tasks left in it, the
\* dwords left of the task.
Rank ==
    CASE pc = "check"    -> <<7, 0, 0>>
      [] pc = "relocate" -> <<6, 0, 0>>
      [] pc = "find"     -> <<5, 0, 0>>
      [] pc = "push"     -> <<4, ecx, 0>>
      [] pc = "header"   -> <<3, 0, 0>>
      [] pc = "load"     -> <<2, 2 * eax, 0>>
      [] pc = "move"     -> <<2, 2 * eax - 1, ecx>>
      [] pc = "ret"      -> <<1, 1, 0>>
      [] pc = "enter"    -> <<1, 0, 0>>
      [] OTHER           -> <<0, 0, 0>>

\* In the order of words, which has no endless descent.
Before(p, q) ==
    \/ p[1] < q[1]
    \/ p[1] = q[1] /\ p[2] < q[2]
    \/ p[1] = q[1] /\ p[2] = q[2] /\ p[3] < q[3]

\* kRelocateImage cannot run for ever, however many sections and bytes there are: each
\* step, of the loop that pushes, of the one that pops and of rep movsd, leaves less to do.
THEOREM RelocationAdvances ==
    LaidOut => (Spec => [](Rank \in Nat \X Nat \X Nat) /\ [][Before(Rank', Rank)]_vars)
<1>. SUFFICES ASSUME LaidOut PROVE Spec => [](Rank \in Nat \X Nat \X Nat) /\ [][Before(Rank', Rank)]_vars
  OBVIOUS
<1>1. RelocateInv => Rank \in Nat \X Nat \X Nat
  <2>. SUFFICES ASSUME RelocateInv PROVE Rank \in Nat \X Nat \X Nat
    OBVIOUS
  <2>1. eax \in Nat /\ ecx \in Nat /\ (pc = "move" => 2 * eax - 1 \in Nat)
    <3>1. pc = "move" => eax \in 1..Count+1
      BY DEF RelocateInv, CountInv
    <3>. QED BY <3>1 DEF RelocateInv, CountInv
  <2>. QED BY <2>1 DEF Rank
<1>2. RelocateInv /\ [Next]_vars => [Before(Rank', Rank)]_vars
  <2>. SUFFICES ASSUME RelocateInv, Next, ~(UNCHANGED vars) PROVE Before(Rank', Rank)
    OBVIOUS
  <2>1. CountInv /\ eax \in Nat /\ ecx \in Nat
    BY DEF RelocateInv, CountInv
  <2>2. CASE CheckImage
    <3>1. Rank[1] = 7 /\ Rank'[1] \in {6, 0}
      BY <2>2 DEF CheckImage, Rank
    <3>. QED BY <3>1 DEF Before
  <2>3. CASE SaveHll
    <3>1. Rank[1] = 6 /\ Rank'[1] = 5
      BY <2>3 DEF SaveHll, Rank
    <3>. QED BY <3>1 DEF Before
  <2>4. CASE FindSections
    <3>1. Rank[1] = 5 /\ Rank'[1] = 4
      BY <2>4 DEF FindSections, Rank
    <3>. QED BY <3>1 DEF Before
  <2>5. CASE PushSection
    <3>1. pc = "push" /\ ecx' = ecx - 1 /\ pc' = IF ecx' = 0 THEN "header" ELSE "push"
      BY <2>5 DEF PushSection
    <3>2. Rank = <<4, ecx, 0>> /\ Rank' = IF ecx' = 0 THEN <<3, 0, 0>> ELSE <<4, ecx', 0>>
      BY <3>1 DEF Rank
    <3>. QED BY <2>1, <3>1, <3>2 DEF Before
  <2>6. CASE PushHeader
    <3>1. Rank[1] = 3 /\ Rank'[1] = 2
      BY <2>6 DEF PushHeader, Rank
    <3>. QED BY <3>1 DEF Before
  <2>7. CASE LoadTask
    <3>1. Rank = <<2, 2 * eax, 0>> /\ Rank' = <<2, 2 * eax - 1, ecx'>>
      BY <2>7 DEF LoadTask, Rank
    <3>. QED BY <2>1, <3>1 DEF Before
  <2>8. CASE MoveDword
    <3>1. Rank = <<2, 2 * eax - 1, ecx>> /\ Rank' = <<2, 2 * eax - 1, ecx'>> /\ ecx' = ecx - 1
      BY <2>8 DEF MoveDword, Rank
    <3>. QED BY <2>1, <3>1 DEF Before
  <2>9. CASE NextTask
    <3>1. pc = "move" /\ eax' = eax - 1 /\ pc' = IF eax' = 0 THEN "ret" ELSE "load"
      BY <2>9 DEF NextTask
    <3>2. Rank = <<2, 2 * eax - 1, ecx>> /\ Rank' = IF eax' = 0 THEN <<1, 1, 0>> ELSE <<2, 2 * eax', 0>>
      BY <3>1 DEF Rank
    <3>. QED BY <2>1, <3>1, <3>2 DEF Before
  <2>10. CASE Ret
    <3>1. Rank = <<1, 1, 0>> /\ Rank' \in {<<1, 0, 0>>, <<0, 0, 0>>}
      BY <2>10 DEF Ret, Rank
    <3>. QED BY <3>1 DEF Before
  <2>11. CASE EnterHLLM
    <3>1. Rank[1] = 1 /\ Rank'[1] = 0
      BY <2>11 DEF EnterHLLM, Rank
    <3>. QED BY <3>1 DEF Before
  <2>12. CASE Finished
    BY <2>12 DEF Finished
  <2>. QED BY <2>2, <2>3, <2>4, <2>5, <2>6, <2>7, <2>8, <2>9, <2>10, <2>11, <2>12 DEF Next
<1>. QED BY <1>1, <1>2, Invariant, PTL DEF Spec
=============================================================================
