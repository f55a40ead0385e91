-------------------------- MODULE BootMemoryProofs --------------------------
(***************************************************************************)
(* Proofs about BootMemory, for every image that lies where const.inc has  *)
(* room for one, every depth of the stacks and every place of the module   *)
(* above the first megabyte.                                               *)
(***************************************************************************)
EXTENDS BootMemory, TLAPS

-----------------------------------------------------------------------------
(* The map of memory *)

\* The place of an object; of the stacks, what the deepest call may take.
Zone(im) ==
    [o \in Objects |->
        CASE o = "vectors"      -> [lo |-> 0, hi |-> 1023]
          [] o = "biosData"     -> [lo |-> 1024, hi |-> 4095]
          [] o = "vbeInfo"      -> [lo |-> 4096, hi |-> 4607]
          [] o = "modeInfo"     -> [lo |-> 4608, hi |-> 4863]
          [] o = "packet"       -> [lo |-> DebugBuffer, hi |-> DebugBuffer + 5]
          [] o = "serviceStack" -> [lo |-> 31480, hi |-> 31991]
          [] o = "saved"        -> [lo |-> 31992, hi |-> 31999]
          [] o = "record"       -> [lo |-> 31744, hi |-> 31743 + RecordSize]
          [] o = "stack"        -> [lo |-> 31744 + RecordSize, hi |-> 32255]
          [] o = "bootData"     -> [lo |-> 32256, hi |-> 32511]
          [] o = "loader"       -> [lo |-> im.addr, hi |-> im.addr + 2047]
          [] o = "hllFile"      -> [lo |-> im.addr + 2048, hi |-> im.addr + im.size - 1]
          [] o = "idt"          -> [lo |-> 61440, hi |-> 63487]
          [] o = "gdt"          -> [lo |-> 65536, hi |-> 131071]
          [] o = "hll"          -> [lo |-> HllBase, hi |-> HllBase + HllSize - 1]
          [] o = "hllStack"     -> [lo |-> HllBase - KernelDepth, hi |-> HllBase - 1]]

Within(e, z) == /\ e \in [lo : Int, hi : Int]
                /\ z.lo <= e.lo /\ e.lo <= e.hi /\ e.hi <= z.hi

\* What must lie apart until the module is in place, and after that.
Early == {"vectors", "packet", "vbeInfo", "record", "stack", "bootData", "loader", "hllFile", "hll"}
Late == {"vectors", "packet", "vbeInfo", "modeInfo", "serviceStack", "saved", "bootData", "loader",
         "idt", "gdt", "hll", "hllStack"}

-----------------------------------------------------------------------------
(* The inductive invariant *)

\* What later stages need in each state of the program.
Needs ==
    [record   |-> {"record", "vectors"},
     load     |-> {"record", "vectors", "bootData"},
     jump     |-> {"record", "vectors", "bootData", "stack", "loader", "hllFile"},
     start    |-> {"vectors", "bootData", "loader", "hllFile"},
     a20      |-> {"vectors", "bootData", "stack", "loader", "hllFile"},
     pentry   |-> {"vectors", "bootData", "loader", "hllFile"},
     relocate |-> {"vectors", "bootData", "stack", "loader", "hllFile"},
     enter    |-> {"vectors", "bootData", "loader", "hll"},
     gdt      |-> {"vectors", "bootData", "loader", "hll", "hllStack"},
     copy     |-> {"vectors", "bootData", "loader", "hll", "hllStack"},
     idt      |-> {"vectors", "bootData", "loader", "hll", "hllStack", "gdt"},
     kernel   |-> {"vectors", "bootData", "loader", "hll", "hllStack", "gdt", "idt"},
     limit64k |-> {"vectors", "bootData", "loader", "hll", "hllStack", "gdt", "idt", "saved"},
     reset    |-> {},
     service  |-> {"vectors", "bootData", "loader", "hll", "hllStack", "gdt", "idt", "saved"},
     return   |-> {"vectors", "bootData", "loader", "hll", "hllStack", "gdt", "idt", "saved"}]

\* Every object lies in its place; address line 20 is on before anything is put above
\* the first megabyte.
PlaceInv ==
    /\ pc \in DOMAIN Needs
    /\ \A o \in DOMAIN laid : Within(laid[o], Zone(image)[o])
    /\ pc \notin {"record", "load", "jump", "start", "a20"} => a20
    /\ pc \in {"limit64k", "service"} => job \in {"info", "mode", "set"}

\* What will be read is as it was put, if setupGdt spares the loader.
IntactInv ==
    ~Overlap(Extent(image.addr, LoaderSize), Gdt["gdt"]) =>
        /\ Needs[pc] \subseteq intact
        /\ "vbeInfo" \in DOMAIN laid => "vbeInfo" \in intact
        /\ pc = "return" /\ job = "mode" => "modeInfo" \in intact
        /\ misread \subseteq {"biosData"}

BootMemoryInv == TypeOK /\ PlaceInv /\ IntactInv

-----------------------------------------------------------------------------
(* The map is one: objects that are needed together lie apart *)

Apart(e, f) == e.hi < f.lo \/ f.hi < e.lo

\* The constants, with the numbers the source gives them.
LEMMA Numbers ==
    ASSUME PlacedAsDesigned, NEW im \in Images
    PROVE  /\ LoaderSize = 2048 /\ StackTop = 32256 /\ CallStack = 32000
           /\ im.addr \in Nat /\ im.size \in Nat /\ im.size > 2048
           /\ im.addr >= 32768 /\ im.addr + im.size <= 655360
           /\ im.addr > 63487 \/ im.addr + 2047 < 61440
           /\ RecordSize \in 1..510 /\ DebugBuffer \in 1024..2036
           /\ HllBase \in Nat /\ HllSize \in Nat \ {0} /\ KernelDepth \in Nat \ {0}
           /\ HllBase - KernelDepth >= 1048576
           /\ NoRam = [lo |-> 655360, hi |-> 1048575]
           /\ Gdt["gdt"] = [lo |-> 65536, hi |-> 131071]
<1>1. LoaderSize = 2048 /\ StackTop = 32256 /\ CallStack = 32000
  BY SMT DEF LoaderSize, StackTop, CallStack
<1>2. NoRam = [lo |-> 655360, hi |-> 1048575]
  BY SMT DEF NoRam
<1>3. Gdt["gdt"] = [lo |-> 65536, hi |-> 131071] /\ Idt["idt"] = [lo |-> 61440, hi |-> 63487]
  BY SMT DEF Gdt, Idt, At, Extent
<1>. DEFINE a == im.addr
            n == im.size
<1>4. a \in Nat /\ n \in Nat /\ n > LoaderSize /\ a >= 32768 /\ a + n <= 655360
  BY SMT, MemoryAssumption DEF PlacedAsDesigned
<1>5. a > 63487 \/ a + 2047 < 61440
  <2>1. Extent(a, LoaderSize) = [lo |-> a, hi |-> a + 2048 - 1]
    BY SMT, <1>1 DEF Extent
  <2>2. ~Overlap(Extent(a, LoaderSize), Idt["idt"])
    BY SMT DEF PlacedAsDesigned
  <2>. HIDE DEF a
  <2>3. ~(a <= 63487 /\ 61440 <= a + 2048 - 1)
    BY SMT, <1>3, <2>1, <2>2 DEF Overlap
  <2>. QED BY SMT, <1>4, <2>3
<1>6. RecordSize \in 1..510 /\ DebugBuffer \in 1024..2036
  BY SMT, <1>1, MemoryAssumption DEF PlacedAsDesigned
<1>7. /\ HllBase \in Nat /\ HllSize \in Nat \ {0} /\ KernelDepth \in Nat \ {0}
      /\ HllBase - KernelDepth >= 1048576
  BY SMT, MemoryAssumption DEF PlacedAsDesigned
<1>. QED BY SMT, <1>1, <1>2, <1>3, <1>4, <1>5, <1>6, <1>7

\* Where each place begins and ends.
LEMMA ZoneOf ==
    ASSUME NEW im
    PROVE  /\ Zone(im)["vectors"].lo = 0 /\ Zone(im)["vectors"].hi = 1023
           /\ Zone(im)["biosData"].lo = 1024 /\ Zone(im)["biosData"].hi = 4095
           /\ Zone(im)["vbeInfo"].lo = 4096 /\ Zone(im)["vbeInfo"].hi = 4607
           /\ Zone(im)["modeInfo"].lo = 4608 /\ Zone(im)["modeInfo"].hi = 4863
           /\ Zone(im)["packet"].lo = DebugBuffer /\ Zone(im)["packet"].hi = DebugBuffer + 5
           /\ Zone(im)["serviceStack"].lo = 31480 /\ Zone(im)["serviceStack"].hi = 31991
           /\ Zone(im)["saved"].lo = 31992 /\ Zone(im)["saved"].hi = 31999
           /\ Zone(im)["record"].lo = 31744 /\ Zone(im)["record"].hi = 31743 + RecordSize
           /\ Zone(im)["stack"].lo = 31744 + RecordSize /\ Zone(im)["stack"].hi = 32255
           /\ Zone(im)["bootData"].lo = 32256 /\ Zone(im)["bootData"].hi = 32511
           /\ Zone(im)["loader"].lo = im.addr /\ Zone(im)["loader"].hi = im.addr + 2047
           /\ Zone(im)["hllFile"].lo = im.addr + 2048 /\ Zone(im)["hllFile"].hi = im.addr + im.size - 1
           /\ Zone(im)["idt"].lo = 61440 /\ Zone(im)["idt"].hi = 63487
           /\ Zone(im)["gdt"].lo = 65536 /\ Zone(im)["gdt"].hi = 131071
           /\ Zone(im)["hll"].lo = HllBase /\ Zone(im)["hll"].hi = HllBase + HllSize - 1
           /\ Zone(im)["hllStack"].lo = HllBase - KernelDepth /\ Zone(im)["hllStack"].hi = HllBase - 1
BY SMT DEF Zone, Objects

\* Every place is a piece of memory, on one side of video memory.
LEMMA ZoneSane ==
    ASSUME PlacedAsDesigned, NEW im \in Images, NEW o \in Objects
    PROVE  /\ Zone(im)[o].lo \in Int /\ Zone(im)[o].hi \in Int
           /\ 0 <= Zone(im)[o].lo /\ Zone(im)[o].lo <= Zone(im)[o].hi
           /\ Zone(im)[o].hi < 655360 \/ Zone(im)[o].lo >= 1048576
           /\ o \notin {"hll", "hllStack"} => Zone(im)[o].hi < 655360
<1>. DEFINE a == im.addr
            n == im.size
            lo(x) == Zone(im)[x].lo
            hi(x) == Zone(im)[x].hi
<1>1. /\ a \in Nat /\ n \in Nat /\ n > 2048 /\ a + n <= 655360
      /\ RecordSize \in 1..510 /\ DebugBuffer \in 1024..2036
      /\ HllBase \in Nat /\ HllSize \in Nat \ {0} /\ KernelDepth \in Nat \ {0}
      /\ HllBase - KernelDepth >= 1048576
  BY SMT, Numbers
<1>2. /\ lo("vectors") = 0 /\ hi("vectors") = 1023
      /\ lo("biosData") = 1024 /\ hi("biosData") = 4095
      /\ lo("vbeInfo") = 4096 /\ hi("vbeInfo") = 4607
      /\ lo("modeInfo") = 4608 /\ hi("modeInfo") = 4863
      /\ lo("packet") = DebugBuffer /\ hi("packet") = DebugBuffer + 5
      /\ lo("serviceStack") = 31480 /\ hi("serviceStack") = 31991
      /\ lo("saved") = 31992 /\ hi("saved") = 31999
      /\ lo("record") = 31744 /\ hi("record") = 31743 + RecordSize
      /\ lo("stack") = 31744 + RecordSize /\ hi("stack") = 32255
      /\ lo("bootData") = 32256 /\ hi("bootData") = 32511
      /\ lo("loader") = a /\ hi("loader") = a + 2047
      /\ lo("hllFile") = a + 2048 /\ hi("hllFile") = a + n - 1
      /\ lo("idt") = 61440 /\ hi("idt") = 63487
      /\ lo("gdt") = 65536 /\ hi("gdt") = 131071
      /\ lo("hll") = HllBase /\ hi("hll") = HllBase + HllSize - 1
      /\ lo("hllStack") = HllBase - KernelDepth /\ hi("hllStack") = HllBase - 1
  BY SMT, ZoneOf
<1>. HIDE DEF a, n, lo, hi
<1>3. /\ lo(o) \in Int /\ hi(o) \in Int /\ 0 <= lo(o) /\ lo(o) <= hi(o)
      /\ hi(o) < 655360 \/ lo(o) >= 1048576
      /\ o \notin {"hll", "hllStack"} => hi(o) < 655360
  BY SMT, <1>1, <1>2 DEF Objects
<1>. QED BY SMT, <1>3 DEF lo, hi

\* Until the module is in place nothing that is needed shares memory.
LEMMA EarlyApart ==
    ASSUME PlacedAsDesigned, NEW im \in Images,
           NEW o \in Early, NEW p \in Early, o # p
    PROVE  Apart(Zone(im)[o], Zone(im)[p])
<1>. DEFINE a == im.addr
            n == im.size
            lo(x) == Zone(im)[x].lo
            hi(x) == Zone(im)[x].hi
<1>1. /\ a \in Nat /\ n \in Nat /\ n > 2048 /\ a >= 32768 /\ a + n <= 655360
      /\ a > 63487 \/ a + 2047 < 61440
      /\ RecordSize \in 1..510 /\ DebugBuffer \in 1024..2036
      /\ HllBase \in Nat /\ HllSize \in Nat \ {0} /\ KernelDepth \in Nat \ {0}
      /\ HllBase - KernelDepth >= 1048576
  BY SMT, Numbers
<1>2. /\ lo("vectors") = 0 /\ hi("vectors") = 1023
      /\ lo("packet") = DebugBuffer /\ hi("packet") = DebugBuffer + 5
      /\ lo("vbeInfo") = 4096 /\ hi("vbeInfo") = 4607
      /\ lo("record") = 31744 /\ hi("record") = 31743 + RecordSize
      /\ lo("stack") = 31744 + RecordSize /\ hi("stack") = 32255
      /\ lo("bootData") = 32256 /\ hi("bootData") = 32511
      /\ lo("loader") = a /\ hi("loader") = a + 2047
      /\ lo("hllFile") = a + 2048 /\ hi("hllFile") = a + n - 1
      /\ lo("hll") = HllBase /\ hi("hll") = HllBase + HllSize - 1
  BY SMT, ZoneOf
<1>. HIDE DEF a, n, lo, hi
<1>3. CASE o = "vectors"
  <2>. hi("vectors") < lo(p) \/ hi(p) < lo("vectors")
    BY SMT, <1>3, <1>1, <1>2 DEF Early
  <2>. QED BY SMT, <1>3 DEF Apart, lo, hi
<1>4. CASE o = "packet"
  <2>. hi("packet") < lo(p) \/ hi(p) < lo("packet")
    BY SMT, <1>4, <1>1, <1>2 DEF Early
  <2>. QED BY SMT, <1>4 DEF Apart, lo, hi
<1>5. CASE o = "vbeInfo"
  <2>. hi("vbeInfo") < lo(p) \/ hi(p) < lo("vbeInfo")
    BY SMT, <1>5, <1>1, <1>2 DEF Early
  <2>. QED BY SMT, <1>5 DEF Apart, lo, hi
<1>6. CASE o = "record"
  <2>. hi("record") < lo(p) \/ hi(p) < lo("record")
    BY SMT, <1>6, <1>1, <1>2 DEF Early
  <2>. QED BY SMT, <1>6 DEF Apart, lo, hi
<1>7. CASE o = "stack"
  <2>. hi("stack") < lo(p) \/ hi(p) < lo("stack")
    BY SMT, <1>7, <1>1, <1>2 DEF Early
  <2>. QED BY SMT, <1>7 DEF Apart, lo, hi
<1>8. CASE o = "bootData"
  <2>. hi("bootData") < lo(p) \/ hi(p) < lo("bootData")
    BY SMT, <1>8, <1>1, <1>2 DEF Early
  <2>. QED BY SMT, <1>8 DEF Apart, lo, hi
<1>9. CASE o = "loader"
  <2>. hi("loader") < lo(p) \/ hi(p) < lo("loader")
    BY SMT, <1>9, <1>1, <1>2 DEF Early
  <2>. QED BY SMT, <1>9 DEF Apart, lo, hi
<1>10. CASE o = "hllFile"
  <2>. hi("hllFile") < lo(p) \/ hi(p) < lo("hllFile")
    BY SMT, <1>10, <1>1, <1>2 DEF Early
  <2>. QED BY SMT, <1>10 DEF Apart, lo, hi
<1>11. CASE o = "hll"
  <2>. hi("hll") < lo(p) \/ hi(p) < lo("hll")
    BY SMT, <1>11, <1>1, <1>2 DEF Early
  <2>. QED BY SMT, <1>11 DEF Apart, lo, hi
<1>. QED BY SMT, <1>3, <1>4, <1>5, <1>6, <1>7, <1>8, <1>9, <1>10, <1>11 DEF Early

\* Nor does it afterwards, if setupGdt spares the loader.
LEMMA LateApart ==
    ASSUME PlacedAsDesigned, NEW im \in Images, ~Overlap(Extent(im.addr, LoaderSize), Gdt["gdt"]),
           NEW o \in Late, NEW p \in Late, o # p
    PROVE  Apart(Zone(im)[o], Zone(im)[p])
<1>. DEFINE a == im.addr
            n == im.size
            lo(x) == Zone(im)[x].lo
            hi(x) == Zone(im)[x].hi
<1>1. /\ a \in Nat /\ n \in Nat /\ n > 2048 /\ a >= 32768 /\ a + n <= 655360
      /\ a > 63487 \/ a + 2047 < 61440
      /\ RecordSize \in 1..510 /\ DebugBuffer \in 1024..2036
      /\ HllBase \in Nat /\ HllSize \in Nat \ {0} /\ KernelDepth \in Nat \ {0}
      /\ HllBase - KernelDepth >= 1048576
  BY SMT, Numbers
<1>2. a > 131071 \/ a + 2047 < 65536
  <2>1. Extent(im.addr, LoaderSize) = [lo |-> a, hi |-> a + 2048 - 1]
    BY SMT, Numbers DEF Extent
  <2>2. Gdt["gdt"] = [lo |-> 65536, hi |-> 131071]
    BY SMT, Numbers
  <2>. HIDE DEF a
  <2>3. ~(a <= 131071 /\ 65536 <= a + 2048 - 1)
    BY SMT, <2>1, <2>2 DEF Overlap
  <2>. QED BY SMT, <1>1, <2>3
<1>3. /\ lo("vectors") = 0 /\ hi("vectors") = 1023
      /\ lo("packet") = DebugBuffer /\ hi("packet") = DebugBuffer + 5
      /\ lo("vbeInfo") = 4096 /\ hi("vbeInfo") = 4607
      /\ lo("modeInfo") = 4608 /\ hi("modeInfo") = 4863
      /\ lo("serviceStack") = 31480 /\ hi("serviceStack") = 31991
      /\ lo("saved") = 31992 /\ hi("saved") = 31999
      /\ lo("bootData") = 32256 /\ hi("bootData") = 32511
      /\ lo("loader") = a /\ hi("loader") = a + 2047
      /\ lo("idt") = 61440 /\ hi("idt") = 63487
      /\ lo("gdt") = 65536 /\ hi("gdt") = 131071
      /\ lo("hll") = HllBase /\ hi("hll") = HllBase + HllSize - 1
      /\ lo("hllStack") = HllBase - KernelDepth /\ hi("hllStack") = HllBase - 1
  BY SMT, ZoneOf
<1>. HIDE DEF a, n, lo, hi
<1>4. CASE o = "vectors"
  <2>. hi("vectors") < lo(p) \/ hi(p) < lo("vectors")
    BY SMT, <1>4, <1>1, <1>2, <1>3 DEF Late
  <2>. QED BY SMT, <1>4 DEF Apart, lo, hi
<1>5. CASE o = "packet"
  <2>. hi("packet") < lo(p) \/ hi(p) < lo("packet")
    BY SMT, <1>5, <1>1, <1>2, <1>3 DEF Late
  <2>. QED BY SMT, <1>5 DEF Apart, lo, hi
<1>6. CASE o = "vbeInfo"
  <2>. hi("vbeInfo") < lo(p) \/ hi(p) < lo("vbeInfo")
    BY SMT, <1>6, <1>1, <1>2, <1>3 DEF Late
  <2>. QED BY SMT, <1>6 DEF Apart, lo, hi
<1>7. CASE o = "modeInfo"
  <2>. hi("modeInfo") < lo(p) \/ hi(p) < lo("modeInfo")
    BY SMT, <1>7, <1>1, <1>2, <1>3 DEF Late
  <2>. QED BY SMT, <1>7 DEF Apart, lo, hi
<1>8. CASE o = "serviceStack"
  <2>. hi("serviceStack") < lo(p) \/ hi(p) < lo("serviceStack")
    BY SMT, <1>8, <1>1, <1>2, <1>3 DEF Late
  <2>. QED BY SMT, <1>8 DEF Apart, lo, hi
<1>9. CASE o = "saved"
  <2>. hi("saved") < lo(p) \/ hi(p) < lo("saved")
    BY SMT, <1>9, <1>1, <1>2, <1>3 DEF Late
  <2>. QED BY SMT, <1>9 DEF Apart, lo, hi
<1>10. CASE o = "bootData"
  <2>. hi("bootData") < lo(p) \/ hi(p) < lo("bootData")
    BY SMT, <1>10, <1>1, <1>2, <1>3 DEF Late
  <2>. QED BY SMT, <1>10 DEF Apart, lo, hi
<1>11. CASE o = "loader"
  <2>. hi("loader") < lo(p) \/ hi(p) < lo("loader")
    BY SMT, <1>11, <1>1, <1>2, <1>3 DEF Late
  <2>. QED BY SMT, <1>11 DEF Apart, lo, hi
<1>12. CASE o = "idt"
  <2>. hi("idt") < lo(p) \/ hi(p) < lo("idt")
    BY SMT, <1>12, <1>1, <1>2, <1>3 DEF Late
  <2>. QED BY SMT, <1>12 DEF Apart, lo, hi
<1>13. CASE o = "gdt"
  <2>. hi("gdt") < lo(p) \/ hi(p) < lo("gdt")
    BY SMT, <1>13, <1>1, <1>2, <1>3 DEF Late
  <2>. QED BY SMT, <1>13 DEF Apart, lo, hi
<1>14. CASE o = "hll"
  <2>. hi("hll") < lo(p) \/ hi(p) < lo("hll")
    BY SMT, <1>14, <1>1, <1>2, <1>3 DEF Late
  <2>. QED BY SMT, <1>14 DEF Apart, lo, hi
<1>15. CASE o = "hllStack"
  <2>. hi("hllStack") < lo(p) \/ hi(p) < lo("hllStack")
    BY SMT, <1>15, <1>1, <1>2, <1>3 DEF Late
  <2>. QED BY SMT, <1>15 DEF Apart, lo, hi
<1>. QED BY SMT, <1>4, <1>5, <1>6, <1>7, <1>8, <1>9, <1>10, <1>11, <1>12, <1>13, <1>14, <1>15 DEF Late

-----------------------------------------------------------------------------
(* What a step lays down *)

LEMMA OneLaid ==
    ASSUME NEW o, NEW e
    PROVE  DOMAIN At(o, e) = {o} /\ At(o, e)[o] = e
BY DEF At

LEMMA BothLaid ==
    ASSUME NEW f, NEW g
    PROVE  /\ DOMAIN Both(f, g) = DOMAIN f \cup DOMAIN g
           /\ \A o \in DOMAIN f : Both(f, g)[o] = f[o]
           /\ \A o \in DOMAIN g \ DOMAIN f : Both(f, g)[o] = g[o]
BY DEF Both

\* A piece of a place, from an address and a size.
LEMMA ExtentWithin ==
    ASSUME NEW lo \in Int, NEW size \in Int, NEW z, z.lo \in Int, z.hi \in Int,
           z.lo <= lo, size >= 1, lo + size - 1 <= z.hi
    PROVE  Within(Extent(lo, size), z)
<1>1. /\ Extent(lo, size) \in [lo : Int, hi : Int]
      /\ Extent(lo, size).lo = lo /\ Extent(lo, size).hi = lo + size - 1
  BY SMT DEF Extent
<1>. QED BY SMT, <1>1 DEF Within

\* Pieces of places that lie apart do not overlap.
LEMMA WithinApart ==
    ASSUME NEW e, NEW f, NEW y, NEW z, y.lo \in Int, y.hi \in Int, z.lo \in Int, z.hi \in Int,
           Within(e, y), Within(f, z), Apart(y, z)
    PROVE  ~Overlap(e, f)
<1>. DEFINE el == e.lo
            eh == e.hi
            fl == f.lo
            fh == f.hi
            yl == y.lo
            yh == y.hi
            zl == z.lo
            zh == z.hi
<1>1. /\ el \in Int /\ eh \in Int /\ fl \in Int /\ fh \in Int
      /\ yl \in Int /\ yh \in Int /\ zl \in Int /\ zh \in Int
      /\ yl <= el /\ el <= eh /\ eh <= yh /\ zl <= fl /\ fl <= fh /\ fh <= zh
  BY DEF Within
<1>2. yh < zl \/ zh < yl
  BY DEF Apart
<1>. HIDE DEF el, eh, fl, fh, yl, yh, zl, zh
<1>3. ~(el <= fh /\ fl <= eh)
  BY SMT, <1>1, <1>2
<1>. QED BY <1>3 DEF Overlap, el, eh, fl, fh

\* A piece of a place is clear of video memory, and below the first megabyte the
\* processor sees it where it is.
LEMMA PlaceSeen ==
    ASSUME PlacedAsDesigned, NEW im \in Images, NEW o \in Objects, NEW e, Within(e, Zone(im)[o])
    PROVE  /\ e.lo <= e.hi /\ ~Overlap(e, NoRam)
           /\ a20 \/ o \notin {"hll", "hllStack"} => Seen(e) = e
<1>. DEFINE el == e.lo
            eh == e.hi
            zl == Zone(im)[o].lo
            zh == Zone(im)[o].hi
            low == o \notin {"hll", "hllStack"}
<1>1. el \in Int /\ eh \in Int /\ zl <= el /\ el <= eh /\ eh <= zh
  BY DEF Within
<1>2. /\ zh < 655360 \/ zl >= 1048576
      /\ low => zh < 655360
  BY SMT, ZoneSane
<1>3. zl \in Int /\ zh \in Int /\ 0 <= zl
  BY SMT, ZoneSane
<1>4. NoRam.lo = 655360 /\ NoRam.hi = 1048575
  BY SMT, Numbers
<1>. HIDE DEF el, eh, zl, zh, low
<1>5. ~(el <= 1048575 /\ 655360 <= eh)
  BY SMT, <1>1, <1>2, <1>3
<1>6. low => (el \div 1048576) % 2 = 0
  BY SMT, <1>1, <1>2, <1>3
<1>7. \h100000 = 1048576
  BY SMT
<1>8. ~Overlap(e, NoRam)
  BY SMT, <1>4, <1>5 DEF Overlap, el, eh
<1>9. a20 \/ low => Seen(e) = e
  BY SMT, <1>6, <1>7 DEF Seen, el
<1>. QED BY <1>1, <1>8, <1>9 DEF el, eh, low

\* Everything the program lays down lies in its place.
LEMMA Fits ==
    ASSUME PlacedAsDesigned, NEW im \in Images
    PROVE  /\ Within(Extent(0, \h400), Zone(im)["vectors"])
           /\ Within(Extent(\h400, \hC00), Zone(im)["biosData"])
           /\ Within(Extent(\h7C00, RecordSize), Zone(im)["record"])
           /\ \A d \in StackDepths : Within(Below(StackTop, d), Zone(im)["stack"])
           /\ Within(Extent(StackTop, \h100), Zone(im)["bootData"])
           /\ Within(Extent(im.addr, LoaderSize), Zone(im)["loader"])
           /\ Within(Extent(im.addr + LoaderSize, im.size - LoaderSize), Zone(im)["hllFile"])
           /\ Within(Extent(DebugBuffer, 6), Zone(im)["packet"])
           /\ Within(Extent(HllBase, HllSize), Zone(im)["hll"])
           /\ Within(Below(HllBase, KernelDepth), Zone(im)["hllStack"])
           /\ Within(Extent(\h10000, \h10000), Zone(im)["gdt"])
           /\ Within(Extent(\hF000, \h800), Zone(im)["idt"])
           /\ Within(Below(CallStack, 8), Zone(im)["saved"])
           /\ \A d \in StackDepths : Within(Below(CallStack - 8, d), Zone(im)["serviceStack"])
           /\ Within(Extent(\h1000, \h200), Zone(im)["vbeInfo"])
           /\ Within(Extent(ModeInfoAt, \h100), Zone(im)["modeInfo"])
<1>. DEFINE a == im.addr
            n == im.size
            lo(x) == Zone(im)[x].lo
            hi(x) == Zone(im)[x].hi
<1>1. /\ LoaderSize = 2048 /\ StackTop = 32256 /\ CallStack = 32000
      /\ a \in Nat /\ n \in Nat /\ n > 2048
      /\ RecordSize \in 1..510 /\ DebugBuffer \in 1024..2036
      /\ HllBase \in Nat /\ HllSize \in Nat \ {0} /\ KernelDepth \in Nat \ {0}
  BY SMT, Numbers
<1>2. ModeInfoAt = 4608
  BY SMT DEF ModeInfoAt
<1>3. \A d \in StackDepths : d \in 1..512 /\ RecordSize + d <= 512
  BY SMT, MemoryAssumption
<1>4. /\ lo("vectors") = 0 /\ hi("vectors") = 1023
      /\ lo("biosData") = 1024 /\ hi("biosData") = 4095
      /\ lo("record") = 31744 /\ hi("record") = 31743 + RecordSize
      /\ lo("stack") = 31744 + RecordSize /\ hi("stack") = 32255
      /\ lo("bootData") = 32256 /\ hi("bootData") = 32511
      /\ lo("loader") = a /\ hi("loader") = a + 2047
      /\ lo("hllFile") = a + 2048 /\ hi("hllFile") = a + n - 1
      /\ lo("packet") = DebugBuffer /\ hi("packet") = DebugBuffer + 5
      /\ lo("hll") = HllBase /\ hi("hll") = HllBase + HllSize - 1
      /\ lo("hllStack") = HllBase - KernelDepth /\ hi("hllStack") = HllBase - 1
      /\ lo("gdt") = 65536 /\ hi("gdt") = 131071
      /\ lo("idt") = 61440 /\ hi("idt") = 63487
      /\ lo("saved") = 31992 /\ hi("saved") = 31999
      /\ lo("serviceStack") = 31480 /\ hi("serviceStack") = 31991
      /\ lo("vbeInfo") = 4096 /\ hi("vbeInfo") = 4607
      /\ lo("modeInfo") = 4608 /\ hi("modeInfo") = 4863
  BY SMT, ZoneOf
<1>5. \A z : \A l, k \in Int : z.lo \in Int /\ z.hi \in Int /\ z.lo <= l /\ k >= 1 /\ l + k - 1 <= z.hi => Within(Extent(l, k), z)
  BY ExtentWithin
<1>6. \A x \in Objects : \A l, k \in Int : lo(x) \in Int /\ hi(x) \in Int /\ lo(x) <= l /\ k >= 1 /\ l + k - 1 <= hi(x)
                            => Within(Extent(l, k), Zone(im)[x])
  BY <1>5
<1>. HIDE DEF a, n, lo, hi
<1>7. Within(Extent(0, \h400), Zone(im)["vectors"])
  <2>1. /\ 0 \in Int /\ \h400 \in Int /\ lo("vectors") \in Int /\ hi("vectors") \in Int
        /\ lo("vectors") <= 0 /\ \h400 >= 1 /\ 0 + (\h400) - 1 <= hi("vectors")
    BY SMT, <1>1, <1>2, <1>4
  <2>. QED BY SMTT(30), <1>6, <2>1 DEF Objects
<1>8. Within(Extent(\h400, \hC00), Zone(im)["biosData"])
  <2>1. /\ \h400 \in Int /\ \hC00 \in Int /\ lo("biosData") \in Int /\ hi("biosData") \in Int
        /\ lo("biosData") <= \h400 /\ \hC00 >= 1 /\ \h400 + (\hC00) - 1 <= hi("biosData")
    BY SMT, <1>1, <1>2, <1>4
  <2>. QED BY SMTT(30), <1>6, <2>1 DEF Objects
<1>9. Within(Extent(\h7C00, RecordSize), Zone(im)["record"])
  <2>1. /\ \h7C00 \in Int /\ RecordSize \in Int /\ lo("record") \in Int /\ hi("record") \in Int
        /\ lo("record") <= \h7C00 /\ RecordSize >= 1 /\ \h7C00 + (RecordSize) - 1 <= hi("record")
    BY SMT, <1>1, <1>2, <1>4
  <2>. QED BY SMTT(30), <1>6, <2>1 DEF Objects
<1>10. \A d \in StackDepths : Within(Extent(StackTop - d, d), Zone(im)["stack"])
  <2>. TAKE d \in StackDepths
  <2>1. /\ StackTop - d \in Int /\ d \in Int /\ lo("stack") \in Int /\ hi("stack") \in Int
        /\ lo("stack") <= StackTop - d /\ d >= 1 /\ StackTop - d + d - 1 <= hi("stack")
    BY SMT, <1>1, <1>3, <1>4
  <2>. QED BY SMTT(30), <1>6, <2>1 DEF Objects
<1>11. Within(Extent(StackTop, \h100), Zone(im)["bootData"])
  <2>1. /\ StackTop \in Int /\ \h100 \in Int /\ lo("bootData") \in Int /\ hi("bootData") \in Int
        /\ lo("bootData") <= StackTop /\ \h100 >= 1 /\ StackTop + (\h100) - 1 <= hi("bootData")
    BY SMT, <1>1, <1>2, <1>4
  <2>. QED BY SMTT(30), <1>6, <2>1 DEF Objects
<1>12. Within(Extent(a, LoaderSize), Zone(im)["loader"])
  <2>1. /\ a \in Int /\ LoaderSize \in Int /\ lo("loader") \in Int /\ hi("loader") \in Int
        /\ lo("loader") <= a /\ LoaderSize >= 1 /\ a + (LoaderSize) - 1 <= hi("loader")
    BY SMT, <1>1, <1>2, <1>4
  <2>. QED BY SMTT(30), <1>6, <2>1 DEF Objects
<1>13. Within(Extent(a + LoaderSize, n - LoaderSize), Zone(im)["hllFile"])
  <2>1. /\ a + LoaderSize \in Int /\ n - LoaderSize \in Int /\ lo("hllFile") \in Int /\ hi("hllFile") \in Int
        /\ lo("hllFile") <= a + LoaderSize /\ n - LoaderSize >= 1 /\ a + LoaderSize + (n - LoaderSize) - 1 <= hi("hllFile")
    BY SMT, <1>1, <1>2, <1>4
  <2>. QED BY SMTT(30), <1>6, <2>1 DEF Objects
<1>14. Within(Extent(DebugBuffer, 6), Zone(im)["packet"])
  <2>1. /\ DebugBuffer \in Int /\ 6 \in Int /\ lo("packet") \in Int /\ hi("packet") \in Int
        /\ lo("packet") <= DebugBuffer /\ 6 >= 1 /\ DebugBuffer + (6) - 1 <= hi("packet")
    BY SMT, <1>1, <1>2, <1>4
  <2>. QED BY SMTT(30), <1>6, <2>1 DEF Objects
<1>15. Within(Extent(HllBase, HllSize), Zone(im)["hll"])
  <2>1. /\ HllBase \in Int /\ HllSize \in Int /\ lo("hll") \in Int /\ hi("hll") \in Int
        /\ lo("hll") <= HllBase /\ HllSize >= 1 /\ HllBase + (HllSize) - 1 <= hi("hll")
    BY SMT, <1>1, <1>2, <1>4
  <2>. QED BY SMTT(30), <1>6, <2>1 DEF Objects
<1>16. Within(Extent(HllBase - KernelDepth, KernelDepth), Zone(im)["hllStack"])
  <2>1. /\ HllBase - KernelDepth \in Int /\ KernelDepth \in Int /\ lo("hllStack") \in Int /\ hi("hllStack") \in Int
        /\ lo("hllStack") <= HllBase - KernelDepth /\ KernelDepth >= 1 /\ HllBase - KernelDepth + (KernelDepth) - 1 <= hi("hllStack")
    BY SMT, <1>1, <1>2, <1>4
  <2>. QED BY SMTT(30), <1>6, <2>1 DEF Objects
<1>17. Within(Extent(\h10000, \h10000), Zone(im)["gdt"])
  <2>1. /\ \h10000 \in Int /\ \h10000 \in Int /\ lo("gdt") \in Int /\ hi("gdt") \in Int
        /\ lo("gdt") <= \h10000 /\ \h10000 >= 1 /\ \h10000 + (\h10000) - 1 <= hi("gdt")
    BY SMT, <1>1, <1>2, <1>4
  <2>. QED BY SMTT(30), <1>6, <2>1 DEF Objects
<1>18. Within(Extent(\hF000, \h800), Zone(im)["idt"])
  <2>1. /\ \hF000 \in Int /\ \h800 \in Int /\ lo("idt") \in Int /\ hi("idt") \in Int
        /\ lo("idt") <= \hF000 /\ \h800 >= 1 /\ \hF000 + (\h800) - 1 <= hi("idt")
    BY SMT, <1>1, <1>2, <1>4
  <2>. QED BY SMTT(30), <1>6, <2>1 DEF Objects
<1>19. Within(Extent(CallStack - 8, 8), Zone(im)["saved"])
  <2>1. /\ CallStack - 8 \in Int /\ 8 \in Int /\ lo("saved") \in Int /\ hi("saved") \in Int
        /\ lo("saved") <= CallStack - 8 /\ 8 >= 1 /\ CallStack - 8 + (8) - 1 <= hi("saved")
    BY SMT, <1>1, <1>2, <1>4
  <2>. QED BY SMTT(30), <1>6, <2>1 DEF Objects
<1>20. \A d \in StackDepths : Within(Extent(CallStack - 8 - d, d), Zone(im)["serviceStack"])
  <2>. TAKE d \in StackDepths
  <2>1. /\ CallStack - 8 - d \in Int /\ d \in Int /\ lo("serviceStack") \in Int /\ hi("serviceStack") \in Int
        /\ lo("serviceStack") <= CallStack - 8 - d /\ d >= 1 /\ CallStack - 8 - d + d - 1 <= hi("serviceStack")
    BY SMT, <1>1, <1>3, <1>4
  <2>. QED BY SMTT(30), <1>6, <2>1 DEF Objects
<1>21. Within(Extent(\h1000, \h200), Zone(im)["vbeInfo"])
  <2>1. /\ \h1000 \in Int /\ \h200 \in Int /\ lo("vbeInfo") \in Int /\ hi("vbeInfo") \in Int
        /\ lo("vbeInfo") <= \h1000 /\ \h200 >= 1 /\ \h1000 + (\h200) - 1 <= hi("vbeInfo")
    BY SMT, <1>1, <1>2, <1>4
  <2>. QED BY SMTT(30), <1>6, <2>1 DEF Objects
<1>22. Within(Extent(ModeInfoAt, \h100), Zone(im)["modeInfo"])
  <2>1. /\ ModeInfoAt \in Int /\ \h100 \in Int /\ lo("modeInfo") \in Int /\ hi("modeInfo") \in Int
        /\ lo("modeInfo") <= ModeInfoAt /\ \h100 >= 1 /\ ModeInfoAt + (\h100) - 1 <= hi("modeInfo")
    BY SMT, <1>1, <1>2, <1>4
  <2>. QED BY SMTT(30), <1>6, <2>1 DEF Objects
<1>. QED BY <1>7, <1>8, <1>9, <1>10, <1>11, <1>12, <1>13, <1>14, <1>15, <1>16, <1>17, <1>18, <1>19, <1>20, <1>21, <1>22 DEF Below, a, n

-----------------------------------------------------------------------------
(* What a step does to the map *)

\* What a step may be told to lay down: objects in their places, and nothing above the
\* first megabyte before address line 20 is on.
Proper(W) ==
    /\ DOMAIN W \subseteq Objects
    /\ \A o \in DOMAIN W : Within(W[o], Zone(image)[o]) /\ (a20 \/ o \notin {"hll", "hllStack"})

\* The objects a step lays down lie in their places, and the others stay.
LEMMA StepLays ==
    ASSUME PlacedAsDesigned, TypeOK, PlaceInv, NEW R, NEW W, R \subseteq Objects, Proper(W), Step(R, W)
    PROVE  /\ DOMAIN laid' = DOMAIN laid \cup DOMAIN W
           /\ \A o \in DOMAIN laid' : Within(laid'[o], Zone(image)[o])
           /\ \A o \in DOMAIN laid' : laid'[o].lo <= laid'[o].hi /\ ~Overlap(laid'[o], NoRam)
           /\ intact' \subseteq DOMAIN laid' /\ misread' \subseteq Objects
<1>. DEFINE placed == [o \in DOMAIN W |-> Seen(W[o])]
<1>1. image \in Images /\ DOMAIN laid \subseteq Objects /\ intact \subseteq DOMAIN laid /\ misread \subseteq Objects
  BY DEF TypeOK
<1>2. /\ laid' = Both(placed, laid)
      /\ intact' \subseteq intact \cup DOMAIN placed
      /\ misread' \subseteq misread \cup R
  BY DEF Step
<1>3. DOMAIN placed = DOMAIN W
  OBVIOUS
<1>4. \A o \in DOMAIN W : placed[o] = W[o]
  BY <1>1, PlaceSeen DEF Proper
<1>. HIDE DEF placed
<1>5. /\ DOMAIN laid' = DOMAIN placed \cup DOMAIN laid
      /\ \A o \in DOMAIN placed : laid'[o] = placed[o]
      /\ \A o \in DOMAIN laid \ DOMAIN placed : laid'[o] = laid[o]
  <2>1. /\ DOMAIN Both(placed, laid) = DOMAIN placed \cup DOMAIN laid
        /\ \A o \in DOMAIN placed : Both(placed, laid)[o] = placed[o]
        /\ \A o \in DOMAIN laid \ DOMAIN placed : Both(placed, laid)[o] = laid[o]
    BY BothLaid
  <2>. QED BY ONLY <2>1, <1>2
<1>6. ASSUME NEW o \in DOMAIN laid' PROVE o \in Objects /\ Within(laid'[o], Zone(image)[o])
  <2>1. CASE o \in DOMAIN W
    BY <2>1, <1>3, <1>4, <1>5 DEF Proper
  <2>2. CASE o \notin DOMAIN W
    BY <2>2, <1>1, <1>3, <1>5 DEF PlaceInv
  <2>. QED BY <2>1, <2>2
<1>7. \A o \in DOMAIN laid' : laid'[o].lo <= laid'[o].hi /\ ~Overlap(laid'[o], NoRam)
  BY <1>1, <1>6, PlaceSeen
<1>. QED BY <1>1, <1>2, <1>3, <1>5, <1>6, <1>7

\* What was intact and lies apart from what is laid down stays intact, and what is laid
\* down is intact; a step that reads what is intact reads what was put.
LEMMA StepKeeps ==
    ASSUME PlacedAsDesigned, TypeOK, PlaceInv, NEW R, NEW W, NEW K, Proper(W), Step(R, W),
           K \subseteq intact,
           \A k \in K, w \in DOMAIN W : k # w => Apart(Zone(image)[k], Zone(image)[w])
    PROVE  /\ K \subseteq intact' /\ DOMAIN W \subseteq intact'
           /\ misread \subseteq {"biosData"} /\ R \subseteq intact \cup {"biosData"}
                => misread' \subseteq {"biosData"}
<1>. DEFINE placed == [o \in DOMAIN W |-> Seen(W[o])]
<1>1. image \in Images /\ DOMAIN laid \subseteq Objects /\ intact \subseteq DOMAIN laid
  BY DEF TypeOK
<1>2. /\ misread' = misread \cup (R \ intact)
      /\ intact' = {o \in intact \ DOMAIN placed : \A w \in DOMAIN placed : ~Overlap(laid[o], placed[w])}
                   \cup {w \in DOMAIN placed : ~Overlap(placed[w], NoRam)}
  BY DEF Step
<1>3. DOMAIN placed = DOMAIN W
  OBVIOUS
<1>4. \A o \in DOMAIN W : placed[o] = W[o] /\ ~Overlap(W[o], NoRam)
  BY <1>1, PlaceSeen DEF Proper
<1>. HIDE DEF placed
<1>5. DOMAIN W \subseteq intact'
  BY <1>2, <1>3, <1>4
<1>6. ASSUME NEW k \in K, k \notin DOMAIN W PROVE k \in intact'
  <2>1. ASSUME NEW w \in DOMAIN W PROVE ~Overlap(laid[k], W[w])
    <3>1. Within(laid[k], Zone(image)[k]) /\ Within(W[w], Zone(image)[w])
      BY <1>1 DEF PlaceInv, Proper
    <3>2. Apart(Zone(image)[k], Zone(image)[w])
      BY <1>6
    <3>3. \A o \in Objects : Zone(image)[o].lo \in Int /\ Zone(image)[o].hi \in Int
      BY <1>1, ZoneSane
    <3>4. k \in Objects /\ w \in Objects
      BY <1>1 DEF Proper
    <3>5. /\ Zone(image)[k].lo \in Int /\ Zone(image)[k].hi \in Int
          /\ Zone(image)[w].lo \in Int /\ Zone(image)[w].hi \in Int
      BY <3>3, <3>4
    <3>. QED BY ONLY <3>1, <3>2, <3>5, WithinApart
  <2>. QED BY <1>2, <1>3, <1>4, <1>6, <2>1
<1>7. K \subseteq intact'
  BY <1>5, <1>6
<1>. QED BY <1>2, <1>5, <1>7

\* Where single objects go, their collections may go.
LEMMA ProperAt ==
    ASSUME NEW o \in Objects, NEW e, Within(e, Zone(image)[o]), a20 \/ o \notin {"hll", "hllStack"}
    PROVE  Proper(At(o, e)) /\ DOMAIN At(o, e) = {o}
<1>1. DOMAIN At(o, e) = {o} /\ At(o, e)[o] = e
  BY OneLaid
<1>. QED BY <1>1 DEF Proper

LEMMA ProperBoth ==
    ASSUME NEW f, NEW g, Proper(f), Proper(g)
    PROVE  Proper(Both(f, g)) /\ DOMAIN Both(f, g) = DOMAIN f \cup DOMAIN g
<1>1. /\ DOMAIN Both(f, g) = DOMAIN f \cup DOMAIN g
      /\ \A o \in DOMAIN f : Both(f, g)[o] = f[o]
      /\ \A o \in DOMAIN g \ DOMAIN f : Both(f, g)[o] = g[o]
  BY BothLaid
<1>2. ASSUME NEW o \in DOMAIN Both(f, g)
      PROVE  o \in Objects /\ Within(Both(f, g)[o], Zone(image)[o]) /\ (a20 \/ o \notin {"hll", "hllStack"})
  <2>1. CASE o \in DOMAIN f
    BY <2>1, <1>1 DEF Proper
  <2>2. CASE o \notin DOMAIN f
    BY <2>2, <1>1, <1>2 DEF Proper
  <2>. QED BY <2>1, <2>2
<1>. QED BY <1>1, <1>2 DEF Proper

LEMMA ProperNothing == Proper(Nothing) /\ DOMAIN Nothing = {}
BY DEF Proper, Nothing

-----------------------------------------------------------------------------
(* The invariant is inductive *)

\* What every action is: a step that reads only what is needed, lays down objects that
\* lie apart from what is needed afterwards, and leaves nothing needed that was not
\* needed before and is not laid down by it.
Moves(R, W, Z) ==
    /\ Proper(W) /\ Step(R, W) /\ image' = image
    /\ Z \in {Early, Late} /\ R \subseteq Objects /\ DOMAIN W \subseteq Z
    /\ pc \in DOMAIN Needs /\ pc' \in DOMAIN Needs
    /\ Needs[pc'] \subseteq (Needs[pc] \cap Z) \cup DOMAIN W
    /\ \A o \in R : \/ o \in Needs[pc] \cup {"biosData"}
                    \/ o = "vbeInfo" /\ o \in DOMAIN laid
                    \/ o = "modeInfo" /\ pc = "return" /\ job = "mode"
    /\ pc' \notin {"record", "load", "jump", "start", "a20"} => a20'
    /\ pc' \in {"limit64k", "service"} => job' \in {"info", "mode", "set"}
    /\ pc' = "return" /\ job' = "mode" => "modeInfo" \in DOMAIN W
    /\ a20' \in BOOLEAN /\ job' \in {"none", "info", "mode", "set"}

LEMMA MovesPreserve ==
    ASSUME PlacedAsDesigned, BootMemoryInv, NEW R, NEW W, NEW Z, Moves(R, W, Z)
    PROVE  BootMemoryInv'
<1>1. TypeOK /\ PlaceInv /\ IntactInv /\ image \in Images
  BY DEF BootMemoryInv, TypeOK
<1>2. /\ Proper(W) /\ Step(R, W) /\ image' = image /\ R \subseteq Objects
      /\ Z \in {Early, Late} /\ DOMAIN W \subseteq Z
  BY DEF Moves
<1>3. /\ DOMAIN laid' = DOMAIN laid \cup DOMAIN W
      /\ \A o \in DOMAIN laid' : Within(laid'[o], Zone(image)[o])
      /\ \A o \in DOMAIN laid' : laid'[o].lo <= laid'[o].hi /\ ~Overlap(laid'[o], NoRam)
      /\ intact' \subseteq DOMAIN laid' /\ misread' \subseteq Objects
  BY ONLY PlacedAsDesigned, <1>1, <1>2, StepLays
<1>4. TypeOK'
  BY <1>1, <1>2, <1>3 DEF TypeOK, Proper, Moves
<1>5. PlaceInv'
  BY <1>2, <1>3 DEF PlaceInv, Moves
<1>6. ASSUME ~Overlap(Extent(image.addr, LoaderSize), Gdt["gdt"])
      PROVE  /\ Needs[pc'] \subseteq intact'
             /\ "vbeInfo" \in DOMAIN laid' => "vbeInfo" \in intact'
             /\ pc' = "return" /\ job' = "mode" => "modeInfo" \in intact'
             /\ misread' \subseteq {"biosData"}
  <2>. DEFINE K == (intact \cap Z) \ DOMAIN W
  <2>1. /\ Needs[pc] \subseteq intact /\ misread \subseteq {"biosData"}
        /\ "vbeInfo" \in DOMAIN laid => "vbeInfo" \in intact
        /\ pc = "return" /\ job = "mode" => "modeInfo" \in intact
    BY <1>1, <1>6 DEF IntactInv
  <2>2. \A k, w \in Z : k # w => Apart(Zone(image)[k], Zone(image)[w])
    <3>1. CASE Z = Early
      BY <3>1, <1>1, EarlyApart
    <3>2. CASE Z = Late
      BY <3>2, <1>1, <1>6, LateApart
    <3>. QED BY <1>2, <3>1, <3>2
  <2>3. \A k \in K, w \in DOMAIN W : k # w => Apart(Zone(image)[k], Zone(image)[w])
    BY <1>2, <2>2
  <2>4. K \subseteq intact
    OBVIOUS
  <2>5. R \subseteq intact \cup {"biosData"}
    BY <2>1 DEF Moves
  <2>. HIDE DEF K
  <2>6. K \subseteq intact' /\ DOMAIN W \subseteq intact' /\ misread' \subseteq {"biosData"}
    BY ONLY PlacedAsDesigned, <1>1, <1>2, <2>1, <2>3, <2>4, <2>5, StepKeeps
  <2>7. Needs[pc'] \subseteq intact'
    BY <2>1, <2>6 DEF Moves, K
  <2>8. "vbeInfo" \in DOMAIN laid' => "vbeInfo" \in intact'
    BY <1>2, <1>3, <2>1, <2>6 DEF K, Early, Late
  <2>9. pc' = "return" /\ job' = "mode" => "modeInfo" \in intact'
    BY <2>6 DEF Moves
  <2>. QED BY <2>6, <2>7, <2>8, <2>9
<1>7. IntactInv'
  BY <1>2, <1>6 DEF IntactInv, Needs
<1>. QED BY <1>4, <1>5, <1>7 DEF BootMemoryInv

\* Each thing the program lays down may go where it goes.
LEMMA ProperPieces ==
    ASSUME PlacedAsDesigned, TypeOK, PlaceInv
    PROVE  /\ \A d \in StackDepths : /\ Proper(At("stack", Below(StackTop, d)))
                                    /\ DOMAIN At("stack", Below(StackTop, d)) = {"stack"}
           /\ \A d \in StackDepths : /\ Proper(At("serviceStack", Below(CallStack - 8, d)))
                                    /\ DOMAIN At("serviceStack", Below(CallStack - 8, d)) = {"serviceStack"}
           /\ Proper(At("vectors", Extent(0, \h400))) /\ DOMAIN At("vectors", Extent(0, \h400)) = {"vectors"}
           /\ Proper(At("biosData", Extent(\h400, \hC00))) /\ DOMAIN At("biosData", Extent(\h400, \hC00)) = {"biosData"}
           /\ Proper(At("record", Extent(\h7C00, RecordSize))) /\ DOMAIN At("record", Extent(\h7C00, RecordSize)) = {"record"}
           /\ Proper(At("bootData", Extent(StackTop, \h100))) /\ DOMAIN At("bootData", Extent(StackTop, \h100)) = {"bootData"}
           /\ Proper(At("loader", Extent(image.addr, LoaderSize))) /\ DOMAIN At("loader", Extent(image.addr, LoaderSize)) = {"loader"}
           /\ Proper(At("hllFile", Extent(image.addr + LoaderSize, image.size - LoaderSize))) /\ DOMAIN At("hllFile", Extent(image.addr + LoaderSize, image.size - LoaderSize)) = {"hllFile"}
           /\ Proper(Packet) /\ DOMAIN Packet = {"packet"}
           /\ Proper(Gdt) /\ DOMAIN Gdt = {"gdt"}
           /\ Proper(Idt) /\ DOMAIN Idt = {"idt"}
           /\ Proper(At("saved", Below(CallStack, 8))) /\ DOMAIN At("saved", Below(CallStack, 8)) = {"saved"}
           /\ Proper(At("vbeInfo", Extent(\h1000, \h200))) /\ DOMAIN At("vbeInfo", Extent(\h1000, \h200)) = {"vbeInfo"}
           /\ Proper(At("modeInfo", Extent(ModeInfoAt, \h100))) /\ DOMAIN At("modeInfo", Extent(ModeInfoAt, \h100)) = {"modeInfo"}
           /\ a20 => /\ Proper(At("hll", Extent(HllBase, HllSize))) /\ DOMAIN At("hll", Extent(HllBase, HllSize)) = {"hll"}
                     /\ Proper(At("hllStack", Below(HllBase, KernelDepth))) /\ DOMAIN At("hllStack", Below(HllBase, KernelDepth)) = {"hllStack"}
<1>1. image \in Images
  BY DEF TypeOK
<1>2. \A o \in Objects : \A e : Within(e, Zone(image)[o]) /\ (a20 \/ o \notin {"hll", "hllStack"})
                              => Proper(At(o, e)) /\ DOMAIN At(o, e) = {o}
  BY ProperAt
<1>3. ASSUME NEW d \in StackDepths
      PROVE  /\ Proper(At("stack", Below(StackTop, d))) /\ DOMAIN At("stack", Below(StackTop, d)) = {"stack"}
             /\ Proper(At("serviceStack", Below(CallStack - 8, d)))
             /\ DOMAIN At("serviceStack", Below(CallStack - 8, d)) = {"serviceStack"}
  <2>1. /\ Within(Below(StackTop, d), Zone(image)["stack"])
        /\ Within(Below(CallStack - 8, d), Zone(image)["serviceStack"])
    BY <1>1, Fits
  <2>. QED BY ONLY <1>2, <2>1 DEF Objects
<1>4. Proper(At("vectors", Extent(0, \h400))) /\ DOMAIN At("vectors", Extent(0, \h400)) = {"vectors"}
  <2>1. Within(Extent(0, \h400), Zone(image)["vectors"])
    BY <1>1, Fits
  <2>. QED BY ONLY <1>2, <2>1 DEF Objects
<1>5. Proper(At("biosData", Extent(\h400, \hC00))) /\ DOMAIN At("biosData", Extent(\h400, \hC00)) = {"biosData"}
  <2>1. Within(Extent(\h400, \hC00), Zone(image)["biosData"])
    BY <1>1, Fits
  <2>. QED BY ONLY <1>2, <2>1 DEF Objects
<1>6. Proper(At("record", Extent(\h7C00, RecordSize))) /\ DOMAIN At("record", Extent(\h7C00, RecordSize)) = {"record"}
  <2>1. Within(Extent(\h7C00, RecordSize), Zone(image)["record"])
    BY <1>1, Fits
  <2>. QED BY ONLY <1>2, <2>1 DEF Objects
<1>7. Proper(At("bootData", Extent(StackTop, \h100))) /\ DOMAIN At("bootData", Extent(StackTop, \h100)) = {"bootData"}
  <2>1. Within(Extent(StackTop, \h100), Zone(image)["bootData"])
    BY <1>1, Fits
  <2>. QED BY ONLY <1>2, <2>1 DEF Objects
<1>8. Proper(At("loader", Extent(image.addr, LoaderSize))) /\ DOMAIN At("loader", Extent(image.addr, LoaderSize)) = {"loader"}
  <2>1. Within(Extent(image.addr, LoaderSize), Zone(image)["loader"])
    BY <1>1, Fits
  <2>. QED BY ONLY <1>2, <2>1 DEF Objects
<1>9. Proper(At("hllFile", Extent(image.addr + LoaderSize, image.size - LoaderSize))) /\ DOMAIN At("hllFile", Extent(image.addr + LoaderSize, image.size - LoaderSize)) = {"hllFile"}
  <2>1. Within(Extent(image.addr + LoaderSize, image.size - LoaderSize), Zone(image)["hllFile"])
    BY <1>1, Fits
  <2>. QED BY ONLY <1>2, <2>1 DEF Objects
<1>10. Proper(Packet) /\ DOMAIN Packet = {"packet"}
  <2>1. Within(Extent(DebugBuffer, 6), Zone(image)["packet"])
    BY <1>1, Fits
  <2>. QED BY ONLY <1>2, <2>1 DEF Objects, Packet
<1>11. Proper(Gdt) /\ DOMAIN Gdt = {"gdt"}
  <2>1. Within(Extent(\h10000, \h10000), Zone(image)["gdt"])
    BY <1>1, Fits
  <2>. QED BY ONLY <1>2, <2>1 DEF Objects, Gdt
<1>12. Proper(Idt) /\ DOMAIN Idt = {"idt"}
  <2>1. Within(Extent(\hF000, \h800), Zone(image)["idt"])
    BY <1>1, Fits
  <2>. QED BY ONLY <1>2, <2>1 DEF Objects, Idt
<1>13. Proper(At("saved", Below(CallStack, 8))) /\ DOMAIN At("saved", Below(CallStack, 8)) = {"saved"}
  <2>1. Within(Below(CallStack, 8), Zone(image)["saved"])
    BY <1>1, Fits
  <2>. QED BY ONLY <1>2, <2>1 DEF Objects
<1>14. Proper(At("vbeInfo", Extent(\h1000, \h200))) /\ DOMAIN At("vbeInfo", Extent(\h1000, \h200)) = {"vbeInfo"}
  <2>1. Within(Extent(\h1000, \h200), Zone(image)["vbeInfo"])
    BY <1>1, Fits
  <2>. QED BY ONLY <1>2, <2>1 DEF Objects
<1>15. Proper(At("modeInfo", Extent(ModeInfoAt, \h100))) /\ DOMAIN At("modeInfo", Extent(ModeInfoAt, \h100)) = {"modeInfo"}
  <2>1. Within(Extent(ModeInfoAt, \h100), Zone(image)["modeInfo"])
    BY <1>1, Fits
  <2>. QED BY ONLY <1>2, <2>1 DEF Objects
<1>16. a20 => Proper(At("hll", Extent(HllBase, HllSize))) /\ DOMAIN At("hll", Extent(HllBase, HllSize)) = {"hll"}
  <2>1. Within(Extent(HllBase, HllSize), Zone(image)["hll"])
    BY <1>1, Fits
  <2>. QED BY ONLY <1>2, <2>1 DEF Objects
<1>17. a20 => Proper(At("hllStack", Below(HllBase, KernelDepth))) /\ DOMAIN At("hllStack", Below(HllBase, KernelDepth)) = {"hllStack"}
  <2>1. Within(Below(HllBase, KernelDepth), Zone(image)["hllStack"])
    BY <1>1, Fits
  <2>. QED BY ONLY <1>2, <2>1 DEF Objects
<1>. QED BY <1>3, <1>4, <1>5, <1>6, <1>7, <1>8, <1>9, <1>10, <1>11, <1>12, <1>13, <1>14, <1>15, <1>16, <1>17

LEMMA BootMemoryNext ==
    ASSUME PlacedAsDesigned, BootMemoryInv, [Next]_vars
    PROVE  BootMemoryInv'
<1>. USE DEF Goto
<1>1. /\ TypeOK /\ PlaceInv
      /\ a20 \in BOOLEAN /\ job \in {"none", "info", "mode", "set"}
      /\ pc \notin {"record", "load", "jump", "start", "a20"} => a20
      /\ pc \in {"limit64k", "service"} => job \in {"info", "mode", "set"}
  BY DEF BootMemoryInv, TypeOK, PlaceInv
<1>2. CASE UNCHANGED vars \/ Finished
  BY <1>2 DEF Finished, vars, BootMemoryInv, TypeOK, PlaceInv, IntactInv, Needs
<1>3. CASE BootRecord
  <2>1. PICK d \in StackDepths : Step({"record", "vectors"}, Both(At("stack", Below(StackTop, d)), At("bootData", Extent(StackTop, \h100))))
    BY <1>3 DEF BootRecord
  <2>. DEFINE W == Both(At("stack", Below(StackTop, d)), At("bootData", Extent(StackTop, \h100)))
  <2>2. Proper(W) /\ DOMAIN W = {"stack", "bootData"}
    <3>1. /\ Proper(At("stack", Below(StackTop, d))) /\ DOMAIN At("stack", Below(StackTop, d)) = {"stack"}
          /\ Proper(At("bootData", Extent(StackTop, \h100))) /\ DOMAIN At("bootData", Extent(StackTop, \h100)) = {"bootData"}
      BY <1>1, <1>3, ProperPieces
    <3>2. Proper(W) /\ DOMAIN W = {"stack"} \cup {"bootData"}
      BY ONLY <3>1, ProperBoth
    <3>. QED BY <3>2
  <2>. HIDE DEF W
  <2>3. Moves({"record", "vectors"}, W, Early)
    BY <1>1, <1>3, <2>1, <2>2 DEF BootRecord, Moves, Needs, Objects, Early, W
  <2>. QED BY ONLY PlacedAsDesigned, BootMemoryInv, <2>3, MovesPreserve
<1>4. CASE LoadImage
  <2>1. PICK d \in StackDepths : Step({"record", "bootData", "vectors"}, Both(At("stack", Below(StackTop, d)), Both(At("loader", Extent(image.addr, LoaderSize)), At("hllFile", Extent(image.addr + LoaderSize, image.size - LoaderSize)))))
    BY <1>4 DEF LoadImage
  <2>. DEFINE W == Both(At("stack", Below(StackTop, d)), Both(At("loader", Extent(image.addr, LoaderSize)), At("hllFile", Extent(image.addr + LoaderSize, image.size - LoaderSize))))
  <2>2. Proper(W) /\ DOMAIN W = {"stack", "loader", "hllFile"}
    <3>1. /\ Proper(At("stack", Below(StackTop, d))) /\ DOMAIN At("stack", Below(StackTop, d)) = {"stack"}
          /\ Proper(At("loader", Extent(image.addr, LoaderSize))) /\ DOMAIN At("loader", Extent(image.addr, LoaderSize)) = {"loader"}
          /\ Proper(At("hllFile", Extent(image.addr + LoaderSize, image.size - LoaderSize))) /\ DOMAIN At("hllFile", Extent(image.addr + LoaderSize, image.size - LoaderSize)) = {"hllFile"}
      BY <1>1, <1>4, ProperPieces
    <3>2. Proper(Both(At("loader", Extent(image.addr, LoaderSize)), At("hllFile", Extent(image.addr + LoaderSize, image.size - LoaderSize)))) /\ DOMAIN Both(At("loader", Extent(image.addr, LoaderSize)), At("hllFile", Extent(image.addr + LoaderSize, image.size - LoaderSize))) = {"loader"} \cup {"hllFile"}
      BY ONLY <3>1, ProperBoth
    <3>. QED BY ONLY <3>1, <3>2, ProperBoth
  <2>. HIDE DEF W
  <2>3. Moves({"record", "bootData", "vectors"}, W, Early)
    BY <1>1, <1>4, <2>1, <2>2 DEF LoadImage, Moves, Needs, Objects, Early, W
  <2>. QED BY ONLY PlacedAsDesigned, BootMemoryInv, <2>3, MovesPreserve
<1>5. CASE Jump
  <2>1. Step({"record", "bootData", "stack"}, Nothing)
    BY <1>5 DEF Jump
  <2>. DEFINE W == Nothing
  <2>2. Proper(W) /\ DOMAIN W = {}
    BY ProperNothing
  <2>. HIDE DEF W
  <2>3. Moves({"record", "bootData", "stack"}, W, Early)
    BY <1>1, <1>5, <2>1, <2>2 DEF Jump, Moves, Needs, Objects, Early, W
  <2>. QED BY ONLY PlacedAsDesigned, BootMemoryInv, <2>3, MovesPreserve
<1>6. CASE LoaderStart
  <2>1. PICK d \in StackDepths : Step({"loader", "bootData", "vectors"}, At("stack", Below(StackTop, d)))
    BY <1>6 DEF LoaderStart
  <2>. DEFINE W == At("stack", Below(StackTop, d))
  <2>2. Proper(W) /\ DOMAIN W = {"stack"}
    BY <1>1, ProperPieces
  <2>. HIDE DEF W
  <2>3. Moves({"loader", "bootData", "vectors"}, W, Early)
    BY <1>1, <1>6, <2>1, <2>2 DEF LoaderStart, Moves, Needs, Objects, Early, W
  <2>. QED BY ONLY PlacedAsDesigned, BootMemoryInv, <2>3, MovesPreserve
<1>7. CASE EnableA20
  <2>1. Step({"loader", "stack"}, Nothing)
    BY <1>7 DEF EnableA20
  <2>. DEFINE W == Nothing
  <2>2. Proper(W) /\ DOMAIN W = {}
    BY ProperNothing
  <2>. HIDE DEF W
  <2>3. Moves({"loader", "stack"}, W, Early)
    BY <1>1, <1>7, <2>1, <2>2 DEF EnableA20, Moves, Needs, Objects, Early, W
  <2>. QED BY ONLY PlacedAsDesigned, BootMemoryInv, <2>3, MovesPreserve
<1>8. CASE ProtectedEntry
  <2>1. PICK d \in StackDepths : Step({"loader", "bootData", "hllFile"}, Both(At("stack", Below(StackTop, d)), Packet))
    BY <1>8 DEF ProtectedEntry
  <2>. DEFINE W == Both(At("stack", Below(StackTop, d)), Packet)
  <2>2. Proper(W) /\ DOMAIN W = {"stack", "packet"}
    <3>1. /\ Proper(At("stack", Below(StackTop, d))) /\ DOMAIN At("stack", Below(StackTop, d)) = {"stack"}
          /\ Proper(Packet) /\ DOMAIN Packet = {"packet"}
      BY <1>1, <1>8, ProperPieces
    <3>2. Proper(W) /\ DOMAIN W = {"stack"} \cup {"packet"}
      BY ONLY <3>1, ProperBoth
    <3>. QED BY <3>2
  <2>. HIDE DEF W
  <2>3. Moves({"loader", "bootData", "hllFile"}, W, Early)
    BY <1>1, <1>8, <2>1, <2>2 DEF ProtectedEntry, Moves, Needs, Objects, Early, W
  <2>. QED BY ONLY PlacedAsDesigned, BootMemoryInv, <2>3, MovesPreserve
<1>9. CASE Relocate
  <2>1. Step({"loader", "bootData", "hllFile", "stack"}, Both(At("hll", Extent(HllBase, HllSize)), Packet))
    BY <1>9 DEF Relocate
  <2>. DEFINE W == Both(At("hll", Extent(HllBase, HllSize)), Packet)
  <2>2. Proper(W) /\ DOMAIN W = {"hll", "packet"}
    <3>1. /\ Proper(At("hll", Extent(HllBase, HllSize))) /\ DOMAIN At("hll", Extent(HllBase, HllSize)) = {"hll"}
          /\ Proper(Packet) /\ DOMAIN Packet = {"packet"}
      BY <1>1, <1>9, ProperPieces DEF Relocate
    <3>2. Proper(W) /\ DOMAIN W = {"hll"} \cup {"packet"}
      BY ONLY <3>1, ProperBoth
    <3>. QED BY <3>2
  <2>. HIDE DEF W
  <2>3. Moves({"loader", "bootData", "hllFile", "stack"}, W, Early)
    BY <1>1, <1>9, <2>1, <2>2 DEF Relocate, Moves, Needs, Objects, Early, W
  <2>. QED BY ONLY PlacedAsDesigned, BootMemoryInv, <2>3, MovesPreserve
<1>10. CASE EnterHLLM
  <2>1. Step({"loader", "bootData", "hll"}, Both(At("hllStack", Below(HllBase, KernelDepth)), Packet))
    BY <1>10 DEF EnterHLLM
  <2>. DEFINE W == Both(At("hllStack", Below(HllBase, KernelDepth)), Packet)
  <2>2. Proper(W) /\ DOMAIN W = {"hllStack", "packet"}
    <3>1. /\ Proper(At("hllStack", Below(HllBase, KernelDepth))) /\ DOMAIN At("hllStack", Below(HllBase, KernelDepth)) = {"hllStack"}
          /\ Proper(Packet) /\ DOMAIN Packet = {"packet"}
      BY <1>1, <1>10, ProperPieces DEF EnterHLLM
    <3>2. Proper(W) /\ DOMAIN W = {"hllStack"} \cup {"packet"}
      BY ONLY <3>1, ProperBoth
    <3>. QED BY <3>2
  <2>. HIDE DEF W
  <2>3. Moves({"loader", "bootData", "hll"}, W, Late)
    BY <1>1, <1>10, <2>1, <2>2 DEF EnterHLLM, Moves, Needs, Objects, Late, W
  <2>. QED BY ONLY PlacedAsDesigned, BootMemoryInv, <2>3, MovesPreserve
<1>11. CASE ClearGdt
  <2>1. Step({"hll", "hllStack", "bootData"}, Gdt)
    BY <1>11 DEF ClearGdt
  <2>. DEFINE W == Gdt
  <2>2. Proper(W) /\ DOMAIN W = {"gdt"}
    BY <1>1, ProperPieces
  <2>. HIDE DEF W
  <2>3. Moves({"hll", "hllStack", "bootData"}, W, Late)
    BY <1>1, <1>11, <2>1, <2>2 DEF ClearGdt, Moves, Needs, Objects, Late, W
  <2>. QED BY ONLY PlacedAsDesigned, BootMemoryInv, <2>3, MovesPreserve
<1>12. CASE CopyGdt
  <2>1. Step({"hll", "hllStack", "bootData", "loader"}, Gdt)
    BY <1>12 DEF CopyGdt
  <2>. DEFINE W == Gdt
  <2>2. Proper(W) /\ DOMAIN W = {"gdt"}
    BY <1>1, ProperPieces
  <2>. HIDE DEF W
  <2>3. Moves({"hll", "hllStack", "bootData", "loader"}, W, Late)
    BY <1>1, <1>12, <2>1, <2>2 DEF CopyGdt, Moves, Needs, Objects, Late, W
  <2>. QED BY ONLY PlacedAsDesigned, BootMemoryInv, <2>3, MovesPreserve
<1>13. CASE setupIdt
  <2>1. Step({"hll", "hllStack", "bootData", "gdt"}, Idt)
    BY <1>13 DEF setupIdt
  <2>. DEFINE W == Idt
  <2>2. Proper(W) /\ DOMAIN W = {"idt"}
    BY <1>1, ProperPieces
  <2>. HIDE DEF W
  <2>3. Moves({"hll", "hllStack", "bootData", "gdt"}, W, Late)
    BY <1>1, <1>13, <2>1, <2>2 DEF setupIdt, Moves, Needs, Objects, Late, W
  <2>. QED BY ONLY PlacedAsDesigned, BootMemoryInv, <2>3, MovesPreserve
<1>14. CASE Interrupt
  <2>1. Step({"idt", "gdt", "hll", "hllStack"}, Nothing)
    BY <1>14 DEF Interrupt
  <2>. DEFINE W == Nothing
  <2>2. Proper(W) /\ DOMAIN W = {}
    BY ProperNothing
  <2>. HIDE DEF W
  <2>3. Moves({"idt", "gdt", "hll", "hllStack"}, W, Late)
    BY <1>1, <1>14, <2>1, <2>2 DEF Interrupt, Moves, Needs, Objects, Late, W
  <2>. QED BY ONLY PlacedAsDesigned, BootMemoryInv, <2>3, MovesPreserve
<1>15. CASE IntCallEnter
  <2>. DEFINE W == At("saved", Below(CallStack, 8))
              R == {"loader", "bootData", "gdt", "hll", "hllStack"} \cup (IF job' = "info" THEN {} ELSE {"vbeInfo"})
  <2>1. Step(R, W)
    BY <1>15 DEF IntCallEnter
  <2>2. Proper(W) /\ DOMAIN W = {"saved"}
    BY <1>1, ProperPieces
  <2>. HIDE DEF W
  <2>3. \A o \in R : o \in Needs[pc] \/ (o = "vbeInfo" /\ o \in DOMAIN laid)
    BY <1>15 DEF IntCallEnter, Needs
  <2>4. R \subseteq Objects
    BY DEF Objects
  <2>. HIDE DEF R
  <2>5. Moves(R, W, Late)
    BY <1>1, <1>15, <2>1, <2>2, <2>3, <2>4 DEF IntCallEnter, Moves, Needs, Objects, Late
  <2>. QED BY ONLY PlacedAsDesigned, BootMemoryInv, <2>5, MovesPreserve
<1>18. CASE IntCallReal
  <2>1. Step({"loader", "bootData", "gdt"}, Nothing)
    BY <1>18 DEF IntCallReal
  <2>. DEFINE W == Nothing
  <2>2. Proper(W) /\ DOMAIN W = {}
    BY ProperNothing
  <2>. HIDE DEF W
  <2>3. Moves({"loader", "bootData", "gdt"}, W, Late)
    BY <1>1, <1>18, <2>1, <2>2 DEF IntCallReal, Moves, Needs, Objects, Late, W
  <2>. QED BY ONLY PlacedAsDesigned, BootMemoryInv, <2>3, MovesPreserve
<1>19. CASE IntCallFault
  <2>1. Step({"gdt", "idt"}, Nothing)
    BY <1>19 DEF IntCallFault
  <2>. DEFINE W == Nothing
  <2>2. Proper(W) /\ DOMAIN W = {}
    BY ProperNothing
  <2>. HIDE DEF W
  <2>3. Moves({"gdt", "idt"}, W, Late)
    BY <1>1, <1>19, <2>1, <2>2 DEF IntCallFault, Moves, Needs, Objects, Late, W
  <2>. QED BY ONLY PlacedAsDesigned, BootMemoryInv, <2>3, MovesPreserve
<1>16. CASE Service
  <2>. DEFINE R == {"vectors", "biosData", "loader"}
  <2>1. PICK d \in StackDepths : Step(R, Both(At("serviceStack", Below(CallStack - 8, d)), Answer))
    BY <1>16 DEF Service
  <2>. DEFINE S == At("serviceStack", Below(CallStack - 8, d))
              W == Both(S, Answer)
  <2>2. Proper(S) /\ DOMAIN S = {"serviceStack"}
    BY <1>1, ProperPieces
  <2>3. /\ Proper(Answer) /\ DOMAIN Answer \subseteq {"vbeInfo", "modeInfo"}
        /\ job = "mode" => "modeInfo" \in DOMAIN Answer
    BY <1>1, ProperPieces, ProperNothing DEF Answer
  <2>. HIDE DEF S
  <2>4. Proper(W) /\ DOMAIN W = {"serviceStack"} \cup DOMAIN Answer
    BY ONLY <2>2, <2>3, ProperBoth
  <2>. HIDE DEF W
  <2>5. Moves(R, W, Late)
    BY <1>1, <1>16, <2>1, <2>3, <2>4 DEF Service, Moves, Needs, Objects, Late, S, W
  <2>. QED BY ONLY PlacedAsDesigned, BootMemoryInv, <2>5, MovesPreserve
<1>17. CASE IntCallReturn
  <2>. DEFINE W == Nothing
              R == {"loader", "bootData", "saved", "gdt", "idt", "hll", "hllStack"}
                     \cup (IF job = "mode" THEN {"modeInfo"} ELSE {})
  <2>1. Step(R, W)
    BY <1>17 DEF IntCallReturn
  <2>2. Proper(W) /\ DOMAIN W = {}
    BY ProperNothing
  <2>3. \A o \in R : o \in Needs[pc] \/ (o = "modeInfo" /\ pc = "return" /\ job = "mode")
    BY <1>17 DEF IntCallReturn, Needs
  <2>4. R \subseteq Objects
    BY DEF Objects
  <2>. HIDE DEF R, W
  <2>5. Moves(R, W, Late)
    BY <1>1, <1>17, <2>1, <2>2, <2>3, <2>4 DEF IntCallReturn, Moves, Needs, Objects, Late
  <2>. QED BY ONLY PlacedAsDesigned, BootMemoryInv, <2>5, MovesPreserve
<1>. QED BY <1>2, <1>3, <1>4, <1>5, <1>6, <1>7, <1>8, <1>9, <1>10, <1>11, <1>12, <1>13, <1>14, <1>15, <1>16, <1>17, <1>18, <1>19
     DEF Next

LEMMA BootMemoryInit ==
    ASSUME PlacedAsDesigned, Init
    PROVE  BootMemoryInv
<1>. DEFINE V == At("vectors", Extent(0, \h400))
            B == At("biosData", Extent(\h400, \hC00))
            C == At("record", Extent(\h7C00, RecordSize))
<1>1. /\ pc = "record" /\ image \in Images /\ a20 \in BOOLEAN /\ job = "none"
      /\ laid = Both(V, Both(B, C)) /\ intact = DOMAIN laid /\ misread = {}
  BY DEF Init
<1>2. \A o \in Objects : \A e : Within(e, Zone(image)[o]) /\ (a20 \/ o \notin {"hll", "hllStack"})
                              => Proper(At(o, e)) /\ DOMAIN At(o, e) = {o}
  BY ProperAt
<1>3. /\ Within(Extent(0, \h400), Zone(image)["vectors"])
      /\ Within(Extent(\h400, \hC00), Zone(image)["biosData"])
      /\ Within(Extent(\h7C00, RecordSize), Zone(image)["record"])
  BY <1>1, Fits
<1>4. /\ Proper(V) /\ DOMAIN V = {"vectors"}
      /\ Proper(B) /\ DOMAIN B = {"biosData"}
      /\ Proper(C) /\ DOMAIN C = {"record"}
  BY ONLY <1>2, <1>3 DEF Objects
<1>. HIDE DEF V, B, C
<1>5. Proper(Both(B, C)) /\ DOMAIN Both(B, C) = {"biosData"} \cup {"record"}
  BY ONLY <1>4, ProperBoth
<1>6. Proper(laid) /\ DOMAIN laid = {"vectors", "biosData", "record"}
  <2>1. Proper(Both(V, Both(B, C))) /\ DOMAIN Both(V, Both(B, C)) = DOMAIN V \cup DOMAIN Both(B, C)
    BY ONLY <1>4, <1>5, ProperBoth
  <2>. QED BY ONLY <2>1, <1>1, <1>4, <1>5
<1>7. \A o \in DOMAIN laid : o \in Objects /\ Within(laid[o], Zone(image)[o])
  BY <1>6 DEF Proper
<1>8. \A o \in DOMAIN laid : laid[o].lo <= laid[o].hi /\ ~Overlap(laid[o], NoRam)
  BY <1>1, <1>7, PlaceSeen
<1>9. TypeOK
  BY <1>1, <1>7, <1>8 DEF TypeOK
<1>10. PlaceInv
  BY <1>1, <1>7 DEF PlaceInv, Needs
<1>11. IntactInv
  BY <1>1, <1>6 DEF IntactInv, Needs
<1>. QED BY <1>9, <1>10, <1>11 DEF BootMemoryInv

-----------------------------------------------------------------------------
(* The theorems *)

\* Wherever an image lies that const.inc has room for, however deep the stacks go and
\* wherever the module lies above the first megabyte, every object the boot code, the
\* loader and the kernel put somewhere lies in memory that is RAM.
THEOREM BootMemoryTypeCorrect == PlacedAsDesigned => (Spec => []TypeOK)
<1>. SUFFICES ASSUME PlacedAsDesigned PROVE Spec => []TypeOK
  OBVIOUS
<1>1. Init => BootMemoryInv
  BY BootMemoryInit
<1>2. BootMemoryInv /\ [Next]_vars => BootMemoryInv'
  BY BootMemoryNext
<1>3. BootMemoryInv => TypeOK
  BY DEF BootMemoryInv
<1>. QED BY <1>1, <1>2, <1>3, PTL DEF Spec

\* And nothing is read after somebody else wrote over it, as long as setupGdt's memset
\* (vkern.cpp:229) spares the loader: not the record under its own stack, not the
\* module's file before kRelocateImage has copied it, not the descriptors and kIntCall
\* in the loader, not the list of modes between two calls of the video BIOS.
THEOREM NothingReadOverwritten == PlacedAsDesigned => (Spec => []ReadsWhatWasPut)
<1>. SUFFICES ASSUME PlacedAsDesigned PROVE Spec => []ReadsWhatWasPut
  OBVIOUS
<1>1. Init => BootMemoryInv
  BY BootMemoryInit
<1>2. BootMemoryInv /\ [Next]_vars => BootMemoryInv'
  BY BootMemoryNext
<1>3. BootMemoryInv => ReadsWhatWasPut
  BY DEF BootMemoryInv, IntactInv, ReadsWhatWasPut
<1>. QED BY <1>1, <1>2, <1>3, PTL DEF Spec
=============================================================================
