--------------------------- MODULE NetBootProofs ---------------------------
(***************************************************************************)
(* Proofs about NetBoot, for every image the host accepts, every size of   *)
(* block, of a word and of the UART, both kinds of line and any number of  *)
(* resets.                                                                 *)
(***************************************************************************)
EXTENDS NetBoot, SequenceTheorems, TLAPS

-----------------------------------------------------------------------------
(* The inductive invariant *)

\* From the request on to the image.
Loading == {"reply", "header", "echo", "image", "next", "block", "jump", "running"}

OnlyDebug(packets) == \A n \in 1..Len(packets) : packets[n] = "debug"

OneOf(packet, packets) ==
    \E n \in 1..Len(packets) :
        packets[n] = packet /\ \A m \in 1..Len(packets) \ {n} : packets[m] = "debug"

\* The host has nothing left to answer, or this one packet.
Quiet == OnlyDebug(up)
Asked(packet) == OneOf(packet, up)

\* How many bytes of the answer the loader has yet to receive ...
Due == CASE pc = "reply"              -> HeaderSize + 1
         [] pc \in {"header", "echo"} -> HeaderSize - Len(hdr)
         [] pc = "block"              -> cl
         [] OTHER                     -> 0

\* ... and the k-th of them.
Expected ==
    [k \in Nat |-> CASE pc = "reply"              -> IF k = 1 THEN Byte("reply", 0) ELSE Byte("hdr", k - 1)
                      [] pc \in {"header", "echo"} -> Byte("hdr", Len(hdr) + k)
                      [] OTHER                     -> Byte("img", di + k - 1)]

InFlight == Len(rx) + Len(down)

\* No byte of the answer under way has been lost.
Lossless == Quiet => InFlight = Due

\* The counters of the loops, however dirty the line.
ControlInv ==
    /\ pc = "header" => Len(hdr) < HeaderSize
    /\ pc = "block" => cl \in 1..Block

\* One answer at a time is under way; what a lost byte leaves of it is too short.
LineInv ==
    \/ /\ ~Quiet
       /\ pc \in {"reply", "block"} /\ rx = <<>> /\ down = <<>>
       /\ pc = "reply" => Asked("read")
       /\ pc = "block" => Asked("next") /\ cl = Block
    \/ Quiet /\ InFlight <= Due

\* On the line, in order, is what is due.
FlightInv ==
    /\ throttled => Lossless
    /\ Quiet /\ Lossless =>
          /\ \A k \in 1..Len(rx) : rx[k] = Expected[k]
          /\ \A k \in 1..Len(down) : down[k] = Expected[Len(rx) + k]

\* What has been stored, and what is left to ask for.
StoredInv ==
    /\ pc \in {"header", "echo"} /\ Lossless => \A k \in 1..Len(hdr) : hdr[k] = Byte("hdr", k)
    /\ pc \in {"image", "next", "block", "jump", "running"} => hdr = Header
    /\ pc \in {"reply", "header", "echo", "image"} /\ Quiet => hostPtr = 0
    /\ pc \in {"next", "block"} =>
          /\ bx > 0
          /\ hostPtr + bx * Block = Size + (IF pc = "block" /\ Quiet THEN Block ELSE 0)
    /\ pc \in {"jump", "running"} => hostPtr = Size /\ di = Size
    /\ pc \in {"next", "block", "jump", "running"} /\ Lossless =>
          /\ di + (IF Quiet THEN Due ELSE 0) = hostPtr
          /\ \A k \in 0..di-1 : mem[k] = Byte("img", k)

CleanInv == ~dirty /\ pc \in Loading => LineInv /\ FlightInv /\ StoredInv

NetBootInv == TypeOK /\ ControlInv /\ CleanInv

-----------------------------------------------------------------------------
(* The line *)

\* What a packet sent changes.
LEMMA Sent ==
    ASSUME NEW q \in Seq(Packets), NEW p \in Packets
    PROVE  /\ Append(q, p) \in Seq(Packets) /\ Len(Append(q, p)) = Len(q) + 1
           /\ p = "debug" => OnlyDebug(Append(q, p)) = OnlyDebug(q)
           /\ p # "debug" => ~OnlyDebug(Append(q, p))
           /\ p = "debug" => \A r \in Packets \ {"debug"} : OneOf(r, q) => OneOf(r, Append(q, p))
           /\ OnlyDebug(q) => OneOf(p, Append(q, p))
<1>1. /\ Append(q, p) \in Seq(Packets) /\ Len(Append(q, p)) = Len(q) + 1 /\ Len(q) \in Nat
      /\ \A n \in 1..Len(q) : Append(q, p)[n] = q[n]
      /\ Append(q, p)[Len(q) + 1] = p
  OBVIOUS
<1>. DEFINE a == Append(q, p)
<1>. HIDE DEF a
<1>2. \A n \in 1..Len(a) : a[n] = IF n = Len(q) + 1 THEN p ELSE q[n]
  BY <1>1 DEF a
<1>3. p = "debug" => OnlyDebug(a) = OnlyDebug(q)
  BY <1>1, <1>2 DEF a, OnlyDebug
<1>4. p # "debug" => ~OnlyDebug(a)
  BY <1>1, <1>2 DEF a, OnlyDebug
<1>5. ASSUME p = "debug", NEW r \in Packets \ {"debug"}, OneOf(r, q) PROVE OneOf(r, a)
  <2>1. PICK n \in 1..Len(q) : q[n] = r /\ \A m \in 1..Len(q) \ {n} : q[m] = "debug"
    BY <1>5 DEF OneOf
  <2>2. n \in 1..Len(a) /\ a[n] = r /\ \A m \in 1..Len(a) \ {n} : a[m] = "debug"
    BY <1>1, <1>2, <1>5, <2>1 DEF a
  <2>. QED BY <2>2 DEF OneOf
<1>6. ASSUME OnlyDebug(q) PROVE OneOf(p, a)
  <2>1. Len(q) + 1 \in 1..Len(a) /\ a[Len(q) + 1] = p
        /\ \A m \in 1..Len(a) \ {Len(q) + 1} : a[m] = "debug"
    BY <1>1, <1>2, <1>6 DEF a, OnlyDebug
  <2>. QED BY <2>1 DEF OneOf
<1>. QED BY <1>1, <1>3, <1>4, <1>5, <1>6 DEF a

\* What a packet read by the host changes.
LEMMA Read ==
    ASSUME NEW q \in Seq(Packets), q # <<>>
    PROVE  /\ Head(q) \in Packets /\ Tail(q) \in Seq(Packets) /\ Len(Tail(q)) = Len(q) - 1
           /\ Head(q) = "debug" => OnlyDebug(Tail(q)) = OnlyDebug(q)
           /\ Head(q) # "debug" => ~OnlyDebug(q)
           /\ \A r \in Packets \ {"debug"} : OneOf(r, q) =>
                 IF Head(q) = "debug" THEN OneOf(r, Tail(q)) ELSE Head(q) = r /\ OnlyDebug(Tail(q))
<1>1. /\ Tail(q) \in Seq(Packets) /\ Len(Tail(q)) = Len(q) - 1 /\ Len(q) \in Nat \ {0}
      /\ Head(q) = q[1] /\ q[1] \in Packets
      /\ \A n \in 1..Len(q)-1 : Tail(q)[n] = q[n + 1]
  BY HeadTailProperties, EmptySeq, ElementOfSeq
<1>. DEFINE t == Tail(q)
<1>. HIDE DEF t
<1>2. Len(t) = Len(q) - 1 /\ \A n \in 1..Len(t) : t[n] = q[n + 1]
  BY <1>1 DEF t
<1>3. \A n \in 2..Len(q) : q[n] = t[n - 1] /\ n - 1 \in 1..Len(t)
  BY <1>1, <1>2
<1>4. q[1] = "debug" => OnlyDebug(t) = OnlyDebug(q)
  BY <1>1, <1>2, <1>3 DEF OnlyDebug
<1>5. q[1] # "debug" => ~OnlyDebug(q)
  BY <1>1 DEF OnlyDebug
<1>6. ASSUME NEW r \in Packets \ {"debug"}, OneOf(r, q)
      PROVE  IF q[1] = "debug" THEN OneOf(r, t) ELSE q[1] = r /\ OnlyDebug(t)
  <2>1. PICK n \in 1..Len(q) : q[n] = r /\ \A m \in 1..Len(q) \ {n} : q[m] = "debug"
    BY <1>6 DEF OneOf
  <2>2. CASE n = 1
    BY <1>1, <1>2, <2>1, <2>2 DEF OnlyDebug
  <2>3. CASE n # 1
    <3>1. n - 1 \in 1..Len(t) /\ t[n - 1] = r /\ \A m \in 1..Len(t) \ {n - 1} : t[m] = "debug"
      BY <1>1, <1>2, <1>3, <2>1, <2>3
    <3>2. q[1] = "debug"
      BY <1>1, <2>1, <2>3
    <3>. QED BY <3>1, <3>2 DEF OneOf
  <2>. QED BY <2>2, <2>3
<1>. QED BY <1>1, <1>4, <1>5, <1>6 DEF t

\* The first byte the UART holds, and the rest.
LEMMA Received ==
    ASSUME NEW q \in Seq(Bytes), q # <<>>
    PROVE  /\ Head(q) = q[1] /\ q[1] \in Bytes /\ Len(q) \in Nat \ {0}
           /\ Tail(q) \in Seq(Bytes) /\ Len(Tail(q)) = Len(q) - 1
           /\ \A k \in 1..Len(q)-1 : Tail(q)[k] = q[k + 1]
BY HeadTailProperties, EmptySeq, ElementOfSeq

-----------------------------------------------------------------------------
(* Types *)

LEMMA ResetsBound == \A t \in BOOLEAN : MaxResets[t] \in Nat
BY NetBootAssumption

LEMMA InitInv == Init => NetBootInv
<1>. SUFFICES ASSUME Init PROVE NetBootInv
  OBVIOUS
<1>1. TypeOK
  <2>1. NoByte \in Bytes
    BY DEF NoByte, Byte, Bytes
  <2>2. mem \in [0..WordSize-1 -> Bytes]
    BY <2>1 DEF Init
  <2>3. throttled \in BOOLEAN /\ MaxResets \in [BOOLEAN -> Nat]
    BY NetBootAssumption DEF Init
  <2>4. resets \in 0..MaxResets[throttled]
    BY <2>3, ResetsBound DEF Init
  <2>5. /\ pc \in Labels /\ hdr \in Seq(Bytes) /\ Len(hdr) <= HeaderSize
        /\ rx \in Seq(Bytes) /\ Len(rx) <= RxDepth /\ down \in Seq(Bytes)
        /\ up \in Seq(Packets) /\ Len(up) <= LineDepth
    BY NetBootAssumption DEF Init, Labels, HeaderSize
  <2>6. /\ bx \in 0..WordSize-1 /\ cl \in 0..Block /\ di \in 0..WordSize-1 /\ hostPtr \in Nat
    BY NetBootAssumption DEF Init
  <2>7. throttled \in Throttled /\ dirty \in BOOLEAN
    BY DEF Init
  <2>. QED BY <2>2, <2>4, <2>5, <2>6, <2>7 DEF TypeOK
<1>2. ControlInv /\ CleanInv
  BY DEF Init, ControlInv, CleanInv, Loading
<1>. QED BY <1>1, <1>2 DEF NetBootInv

LEMMA HeaderType == Header \in Seq(Bytes) /\ Len(Header) = HeaderSize
                    /\ \A k \in 1..HeaderSize : Header[k] = Byte("hdr", k)
BY DEF Header, HeaderSize, Byte, Bytes

LEMMA BlockType ==
    ASSUME NEW p \in Nat
    PROVE  /\ BlockFrom(p) \in Seq(Bytes) /\ Len(BlockFrom(p)) = Block
           /\ \A k \in 1..Block : BlockFrom(p)[k] = Byte("img", p + k - 1)
BY NetBootAssumption DEF BlockFrom, Byte, Bytes

\* What a reset or a debug packet leaves, and the registers of the loader.
LEMMA TypeStep == TypeOK /\ ControlInv /\ [Next]_vars => TypeOK' /\ ControlInv'
<1>. SUFFICES ASSUME TypeOK, ControlInv, [Next]_vars PROVE TypeOK' /\ ControlInv'
  OBVIOUS
<1>. USE NetBootAssumption
<1>1. CASE Banner \/ Request \/ EchoHeader \/ StartImage \/ NextBlock
  <2>1. PICK p \in {"debug", "read", "next"} : Send(p)
    BY <1>1 DEF Banner, Request, EchoHeader, StartImage, NextBlock
  <2>2. up' \in Seq(Packets) /\ Len(up') <= LineDepth
    BY <2>1, Sent DEF Send, TypeOK, Packets
  <2>3. UNCHANGED <<mem, rx, down, hostPtr, throttled, resets, hdr>>
    BY <1>1 DEF Banner, Request, EchoHeader, StartImage, NextBlock, line
  <2>4. dirty' \in BOOLEAN
    BY <1>1 DEF Banner, Request, EchoHeader, StartImage, NextBlock, line, TypeOK
  <2>5. pc' \in Labels /\ cl' \in 0..Block /\ di' \in 0..WordSize-1
        /\ (pc' = "header" => Len(hdr) < HeaderSize) /\ (pc' = "block" => cl' \in 1..Block)
    BY SMTT(30), <1>1 DEF Banner, Request, EchoHeader, StartImage, NextBlock, TypeOK, Labels, ControlInv
  <2>6. bx' \in 0..WordSize-1
    <3>1. ASSUME NEW n \in 0..WordSize-1 PROVE n \div Block \in 0..WordSize-1
      BY <3>1
    <3>2. SizeField \subseteq 0..WordSize-1
      BY DEF SizeField
    <3>3. CASE StartImage
      BY <3>1, <3>2, <3>3 DEF StartImage
    <3>4. CASE ~StartImage
      BY <1>1, <3>4 DEF Banner, Request, EchoHeader, NextBlock, TypeOK
    <3>. QED BY <3>3, <3>4
  <2>. QED BY <2>2, <2>3, <2>4, <2>5, <2>6 DEF TypeOK, ControlInv
<1>2. CASE ReceiveReply \/ ReceiveHeader \/ ReceiveImage
  <2>1. rx # <<>> /\ rx' = Tail(rx) /\ UNCHANGED <<up, down, hostPtr, throttled, resets, dirty>>
    BY <1>2 DEF ReceiveReply, ReceiveHeader, ReceiveImage, Receive, line
  <2>2. rx' \in Seq(Bytes) /\ Len(rx') <= RxDepth /\ Head(rx) \in Bytes
    BY <2>1, Received DEF TypeOK
  <2>3. hdr' \in Seq(Bytes) /\ Len(hdr') <= HeaderSize /\ (pc' = "header" => Len(hdr') < HeaderSize)
    <3>1. CASE ReceiveHeader
      <4>1. Len(hdr) < HeaderSize /\ hdr' = Append(hdr, Head(rx)) /\ pc' = "echo"
        BY <3>1 DEF ReceiveHeader, ControlInv
      <4>. QED BY <2>2, <4>1, AppendProperties DEF TypeOK, HeaderSize
    <3>2. CASE ReceiveReply
      BY <3>2 DEF ReceiveReply, HeaderSize
    <3>3. CASE ReceiveImage
      BY <3>3 DEF ReceiveImage, TypeOK
    <3>. QED BY <1>2, <3>1, <3>2, <3>3
  <2>4. pc' \in Labels
    BY <1>2 DEF ReceiveReply, ReceiveHeader, ReceiveImage, Labels
  <2>5. CASE ReceiveImage
    <3>1. pc = "block" /\ cl \in 1..Block /\ cl' = cl - 1 /\ (pc' = "block" => cl' # 0)
      BY <2>5 DEF ReceiveImage, ControlInv
    <3>2. di' = (di + 1) % WordSize /\ bx' = (IF cl' = 0 THEN (bx - 1) % WordSize ELSE bx)
      BY <2>5 DEF ReceiveImage
    <3>3. mem' = [mem EXCEPT ![di] = Head(rx)]
      BY <2>5 DEF ReceiveImage
    <3>4. mem' \in [0..WordSize-1 -> Bytes]
      BY <2>2, <3>3 DEF TypeOK
    <3>5. di' \in 0..WordSize-1 /\ bx' \in 0..WordSize-1
      BY <3>2 DEF TypeOK
    <3>. QED BY <2>1, <2>2, <2>3, <2>4, <3>1, <3>4, <3>5 DEF TypeOK, ControlInv
  <2>6. CASE ~ReceiveImage
    <3>1. UNCHANGED <<bx, cl, di, mem>> /\ pc' # "block"
      BY <1>2, <2>6 DEF ReceiveReply, ReceiveHeader
    <3>. QED BY <2>1, <2>2, <2>3, <2>4, <3>1 DEF TypeOK, ControlInv
  <2>. QED BY <2>5, <2>6
<1>3. CASE Jump \/ Finished \/ UNCHANGED vars
  BY <1>3 DEF Jump, Finished, vars, line, TypeOK, ControlInv, Labels
<1>4. CASE Arrive
  <2>1. /\ down # <<>> /\ down' = Tail(down)
        /\ UNCHANGED <<pc, hdr, bx, cl, di, mem, up, hostPtr, throttled, resets, dirty>>
        /\ \/ Len(rx) < RxDepth /\ rx' = Append(rx, Head(down))
           \/ Len(rx) = RxDepth /\ rx' = [rx EXCEPT ![RxDepth] = Head(down)]
    BY <1>4 DEF Arrive
  <2>2. down' \in Seq(Bytes) /\ Head(down) \in Bytes
    BY <2>1, Received DEF TypeOK
  <2>3. rx' \in Seq(Bytes) /\ Len(rx') <= RxDepth
    <3>1. CASE Len(rx) < RxDepth /\ rx' = Append(rx, Head(down))
      BY <2>2, <3>1, AppendProperties DEF TypeOK
    <3>2. CASE Len(rx) = RxDepth /\ rx' = [rx EXCEPT ![RxDepth] = Head(down)]
      BY <2>2, <3>2, ExceptSeq DEF TypeOK
    <3>. QED BY <2>1, <3>1, <3>2
  <2>. QED BY <2>1, <2>2, <2>3 DEF TypeOK, ControlInv
<1>5. CASE Host
  <2>1. up # <<>> /\ up' = Tail(up)
        /\ UNCHANGED <<pc, hdr, bx, cl, di, mem, rx, throttled, resets, dirty>>
    BY <1>5 DEF Host
  <2>2. up' \in Seq(Packets) /\ Len(up') <= LineDepth
    BY <2>1, Read DEF TypeOK
  <2>3. down' \in Seq(Bytes) /\ hostPtr' \in Nat
    <3>1. CASE Head(up) = "debug"
      BY <1>5, <3>1 DEF Host, TypeOK
    <3>2. CASE Head(up) = "read"
      <4>1. <<Byte("reply", 0)>> \in Seq(Bytes)
        BY DEF Byte, Bytes
      <4>2. down \o <<Byte("reply", 0)>> \o Header \in Seq(Bytes)
        BY <4>1, HeaderType, ConcatProperties DEF TypeOK
      <4>3. down' = down \o <<Byte("reply", 0)>> \o Header /\ hostPtr' = 0
        BY <1>5, <3>2, Zenon DEF Host
      <4>. QED BY <4>2, <4>3
    <3>3. CASE Head(up) = "next"
      <4>1. down \o BlockFrom(hostPtr) \in Seq(Bytes) /\ hostPtr + Block \in Nat
        BY BlockType, ConcatProperties DEF TypeOK
      <4>. QED BY <1>5, <3>3, <4>1 DEF Host
    <3>. QED BY <1>5, <3>1, <3>2, <3>3 DEF Host
  <2>. QED BY <2>1, <2>2, <2>3 DEF TypeOK, ControlInv
<1>6. CASE Reset
  <2>1. throttled \in BOOLEAN
    BY DEF TypeOK
  <2>2. MaxResets[throttled] \in Nat
    BY <2>1, ResetsBound
  <2>3. resets' \in 0..MaxResets[throttled]
    BY <1>6, <2>2 DEF Reset, TypeOK
  <2>4. rx' \in {rx, <<>>} /\ pc' = "start"
        /\ UNCHANGED <<hdr, bx, cl, di, mem, down, up, hostPtr, throttled, dirty>>
    BY <1>6 DEF Reset
  <2>5. rx' \in Seq(Bytes) /\ Len(rx') <= RxDepth /\ pc' \in Labels
    <3>1. CASE rx' = rx
      BY <2>4, <3>1 DEF TypeOK, Labels
    <3>2. CASE rx' = <<>>
      BY <2>4, <3>2 DEF Labels
    <3>. QED BY <2>4, <3>1, <3>2
  <2>. QED BY <2>3, <2>4, <2>5 DEF TypeOK, ControlInv
<1>. QED BY <1>1, <1>2, <1>3, <1>4, <1>5, <1>6 DEF Next, Loader

-----------------------------------------------------------------------------
(* The answer under way *)

LEMMA DueType == TypeOK => Due \in Nat /\ Len(rx) \in Nat /\ Len(down) \in Nat /\ Len(hdr) \in 0..HeaderSize
<1>. SUFFICES ASSUME TypeOK PROVE Due \in Nat /\ Len(rx) \in Nat /\ Len(down) \in Nat /\ Len(hdr) \in 0..HeaderSize
  OBVIOUS
<1>1. Len(rx) \in Nat /\ Len(down) \in Nat
  BY LenProperties DEF TypeOK
<1>2. Len(hdr) \in 0..HeaderSize /\ HeaderSize \in Nat
  <2>1. HeaderSize \in Nat
    BY DEF HeaderSize
  <2>. QED BY <2>1, LenProperties DEF TypeOK
<1>3. cl \in Nat
  BY NetBootAssumption DEF TypeOK
<1>4. Due \in Nat
  <2>1. CASE pc = "reply"
    BY <2>1 DEF Due, HeaderSize
  <2>2. CASE pc \in {"header", "echo"}
    <3>1. Due = HeaderSize - Len(hdr)
      BY <2>2 DEF Due
    <3>. QED BY <1>2, <3>1
  <2>3. CASE pc \notin {"reply", "header", "echo"}
    <3>1. Due \in {cl, 0}
      BY <2>3 DEF Due
    <3>. QED BY <1>3, <3>1
  <2>. QED BY <2>1, <2>2, <2>3
<1>. QED BY <1>1, <1>2, <1>4

\* A byte taken from the UART was the next one due, if none is lost.
LEMMA ReceiveFlight ==
    ASSUME TypeOK, Quiet, InFlight <= Due, FlightInv,
           rx # <<>>, rx' = Tail(rx), UNCHANGED <<down, up, throttled>>,
           Due' = Due - 1,
           Lossless => \A k \in Nat \ {0} : Expected'[k] = Expected[k + 1]
    PROVE  /\ Quiet' /\ InFlight' <= Due' /\ FlightInv'
           /\ InFlight \in Nat \ {0} /\ (Lossless' <=> Lossless)
           /\ Lossless => Head(rx) = Expected[1]
<1>. USE DueType
<1>1. Quiet'
  BY DEF Quiet
<1>2. Head(rx) = rx[1] /\ Len(rx) \in Nat \ {0} /\ Len(rx') = Len(rx) - 1
      /\ \A k \in 1..Len(rx)-1 : rx'[k] = rx[k + 1]
  BY Received DEF TypeOK
<1>3. InFlight' = InFlight - 1 /\ InFlight \in Nat \ {0} /\ Due \in Nat
  <2>1. Len(down') = Len(down) /\ Len(down) \in Nat /\ Due \in Nat
    OBVIOUS
  <2>2. InFlight = Len(rx) + Len(down) /\ InFlight' = Len(rx') + Len(down')
    BY DEF InFlight
  <2>3. InFlight' = InFlight - 1
    BY <1>2, <2>1, <2>2
  <2>4. InFlight \in Nat /\ InFlight # 0
    BY ONLY <1>2, <2>1, <2>2
  <2>. QED BY <2>1, <2>3, <2>4
<1>4. Lossless' <=> Lossless
  BY <1>1, <1>3 DEF Lossless
<1>5. ASSUME Lossless
      PROVE  /\ Head(rx) = Expected[1]
             /\ \A k \in 1..Len(rx') : rx'[k] = Expected'[k]
             /\ \A k \in 1..Len(down') : down'[k] = Expected'[Len(rx') + k]
  <2>1. /\ \A k \in 1..Len(rx) : rx[k] = Expected[k]
        /\ \A k \in 1..Len(down) : down[k] = Expected[Len(rx) + k]
    BY <1>5 DEF FlightInv
  <2>2. ASSUME NEW k \in 1..Len(rx') PROVE rx'[k] = Expected'[k]
    <3>1. k \in 1..Len(rx)-1 /\ k + 1 \in 1..Len(rx) /\ k \in Nat \ {0}
      BY ONLY <1>2, <2>2
    <3>. QED BY <1>2, <1>5, <2>1, <3>1
  <2>3. ASSUME NEW k \in 1..Len(down') PROVE down'[k] = Expected'[Len(rx') + k]
    <3>1. Len(rx') + k \in Nat /\ Len(rx') + k + 1 = Len(rx) + k /\ k \in 1..Len(down)
      BY <1>2
    <3>2. Expected'[Len(rx') + k] = Expected[Len(rx') + k + 1]
      BY <1>5, <3>1
    <3>. QED BY <2>1, <3>1, <3>2
  <2>4. 1 \in 1..Len(rx)
    BY <1>2
  <2>. QED BY <1>2, <2>1, <2>2, <2>3, <2>4
<1>6. FlightInv'
  BY <1>4, <1>5 DEF FlightInv
<1>. QED BY <1>1, <1>3, <1>4, <1>5, <1>6

\* The loader goes on without touching what the line holds.
LEMMA SameFlight ==
    ASSUME TypeOK, LineInv, FlightInv, Quiet, Quiet',
           UNCHANGED <<rx, down, throttled>>, Due' = Due,
           \A k \in Nat : k \in 1..Due => Expected'[k] = Expected[k]
    PROVE  LineInv' /\ FlightInv' /\ (Lossless' <=> Lossless)
<1>. USE DueType
<1>1. InFlight <= Due /\ InFlight' = InFlight /\ InFlight = Len(rx) + Len(down)
  BY DEF LineInv, InFlight
<1>2. Lossless' <=> Lossless
  BY <1>1 DEF Lossless
<1>3. ASSUME Lossless
      PROVE  /\ \A k \in 1..Len(rx') : rx'[k] = Expected'[k]
             /\ \A k \in 1..Len(down') : down'[k] = Expected'[Len(rx') + k]
  <2>1. ASSUME NEW k \in 1..Len(rx) PROVE rx'[k] = Expected'[k]
    <3>1. k \in Nat /\ k \in 1..Due
      BY <1>1
    <3>. QED BY <1>3, <3>1 DEF FlightInv
  <2>2. ASSUME NEW k \in 1..Len(down) PROVE down'[k] = Expected'[Len(rx) + k]
    <3>1. Len(rx) + k \in Nat /\ Len(rx) + k \in 1..Due
      BY <1>1
    <3>. QED BY <1>3, <3>1 DEF FlightInv
  <2>. QED BY <2>1, <2>2
<1>. QED BY <1>1, <1>2, <1>3 DEF LineInv, FlightInv

LEMMA ArriveStep == TypeOK /\ CleanInv /\ Arrive => CleanInv'
<1>. SUFFICES ASSUME TypeOK, CleanInv, Arrive, ~dirty', pc' \in Loading
              PROVE  LineInv' /\ FlightInv' /\ StoredInv'
  BY DEF CleanInv
<1>. USE DueType
<1>1. /\ down # <<>> /\ down' = Tail(down)
      /\ UNCHANGED <<pc, hdr, bx, cl, di, mem, up, hostPtr, throttled, resets, dirty>>
      /\ \/ Len(rx) < RxDepth /\ rx' = Append(rx, Head(down))
         \/ Len(rx) = RxDepth /\ ~throttled /\ rx' = [rx EXCEPT ![RxDepth] = Head(down)]
  BY DEF Arrive
<1>2. LineInv /\ FlightInv /\ StoredInv
  BY <1>1 DEF CleanInv
<1>3. Quiet /\ InFlight <= Due
  BY <1>1, <1>2 DEF LineInv
<1>4. Quiet' /\ Due' = Due /\ \A k \in Nat : Expected'[k] = Expected[k]
  BY <1>1, <1>3 DEF Quiet, Due, Expected
<1>5. Head(down) = down[1] /\ down[1] \in Bytes /\ Len(down) \in Nat \ {0}
      /\ Len(down') = Len(down) - 1 /\ \A k \in 1..Len(down)-1 : down'[k] = down[k + 1]
  BY <1>1, Received DEF TypeOK
<1>6. CASE rx' = Append(rx, Head(down))
  <2>1. Len(rx') = Len(rx) + 1 /\ (\A k \in 1..Len(rx) : rx'[k] = rx[k]) /\ rx'[Len(rx) + 1] = down[1]
    BY <1>5, <1>6, AppendProperties DEF TypeOK
  <2>2. InFlight' = InFlight
    BY <1>5, <2>1 DEF InFlight
  <2>3. Lossless' <=> Lossless
    BY <1>3, <1>4, <2>2 DEF Lossless
  <2>4. ASSUME Lossless
        PROVE  /\ \A k \in 1..Len(rx') : rx'[k] = Expected'[k]
               /\ \A k \in 1..Len(down') : down'[k] = Expected'[Len(rx') + k]
    <3>1. /\ \A k \in 1..Len(rx) : rx[k] = Expected[k]
          /\ \A k \in 1..Len(down) : down[k] = Expected[Len(rx) + k]
      BY <1>2, <1>3, <2>4 DEF FlightInv
    <3>2. ASSUME NEW k \in 1..Len(rx') PROVE rx'[k] = Expected'[k]
      <4>1. CASE k = Len(rx) + 1
        BY <1>4, <1>5, <2>1, <3>1, <4>1
      <4>2. CASE k # Len(rx) + 1
        BY SMTT(30), <1>4, <2>1, <3>1, <4>2
      <4>. QED BY <4>1, <4>2
    <3>3. ASSUME NEW k \in 1..Len(down') PROVE down'[k] = Expected'[Len(rx') + k]
      <4>1. k \in 1..Len(down)-1 /\ Len(rx) \in Nat
        BY <1>5
      <4>2. k + 1 \in 1..Len(down) /\ Len(rx') + k = Len(rx) + (k + 1) /\ Len(rx') + k \in Nat
        <5>1. Len(down) \in Nat /\ Len(rx') = Len(rx) + 1
          BY <1>5, <2>1
        <5>. QED BY ONLY <4>1, <5>1
      <4>. QED BY <1>4, <1>5, <3>1, <4>1, <4>2
    <3>. QED BY <3>2, <3>3
  <2>5. StoredInv'
    BY <1>1, <1>2, <1>3, <1>4, <2>3 DEF StoredInv
  <2>6. FlightInv'
    BY <1>1, <1>2, <2>3, <2>4 DEF FlightInv
  <2>. QED BY <1>3, <1>4, <2>2, <2>5, <2>6 DEF LineInv
<1>7. CASE Len(rx) = RxDepth /\ ~throttled /\ rx' = [rx EXCEPT ![RxDepth] = Head(down)]
  <2>1. Len(rx') = Len(rx)
    BY <1>5, <1>7, ExceptSeq, NetBootAssumption DEF TypeOK
  <2>2. InFlight' = InFlight - 1 /\ InFlight \in Nat
    BY <1>5, <2>1 DEF InFlight
  <2>3. ~Lossless'
    BY <1>3, <1>4, <2>2 DEF Lossless
  <2>4. StoredInv'
    <3>1. pc \in {"jump", "running", "next", "image"} => FALSE
      BY <1>3, <2>2, <1>5 DEF Due, InFlight
    <3>. QED BY <1>1, <1>2, <1>3, <1>4, <2>3, <3>1 DEF StoredInv
  <2>. QED BY <1>1, <1>3, <1>4, <1>7, <2>2, <2>3, <2>4 DEF LineInv, FlightInv
<1>. QED BY <1>1, <1>6, <1>7

\* The host answers only what it was asked, with what is then due.
LEMMA HostStep == TypeOK /\ CleanInv /\ Host => CleanInv'
<1>. SUFFICES ASSUME TypeOK, CleanInv, Host, ~dirty', pc' \in Loading
              PROVE  LineInv' /\ FlightInv' /\ StoredInv'
  BY DEF CleanInv
<1>. USE DueType
<1>1. /\ up # <<>> /\ up' = Tail(up)
      /\ UNCHANGED <<pc, hdr, bx, cl, di, mem, rx, throttled, dirty>>
  BY DEF Host
<1>2. LineInv /\ FlightInv /\ StoredInv
  BY <1>1 DEF CleanInv
<1>3. Due' = Due /\ Expected' = Expected
  BY <1>1 DEF Due, Expected
<1>4. up \in Seq(Packets) /\ "read" \in Packets \ {"debug"} /\ "next" \in Packets \ {"debug"}
  BY DEF TypeOK, Packets
<1>5. CASE Head(up) = "debug"
  <2>1. UNCHANGED <<down, hostPtr>>
    BY <1>5 DEF Host
  <2>2. Quiet' <=> Quiet
    BY <1>1, <1>4, <1>5, Read DEF Quiet
  <2>3. \A p \in {"read", "next"} : Asked(p) => Asked(p)'
    BY <1>1, <1>4, <1>5, Read DEF Asked
  <2>4. InFlight' = InFlight /\ (Lossless' <=> Lossless)
    BY <1>1, <1>3, <2>1, <2>2 DEF InFlight, Lossless
  <2>5. LineInv'
    BY <1>1, <1>2, <1>3, <2>1, <2>2, <2>3, <2>4 DEF LineInv
  <2>6. FlightInv'
    BY <1>1, <1>2, <1>3, <2>1, <2>2, <2>4 DEF FlightInv
  <2>7. StoredInv'
    BY <1>1, <1>2, <1>3, <2>1, <2>2, <2>4 DEF StoredInv
  <2>. QED BY <2>5, <2>6, <2>7
<1>6. CASE Head(up) # "debug"
  <2>1. ~Quiet
    BY <1>1, <1>4, <1>6, Read DEF Quiet
  <2>2. pc \in {"reply", "block"} /\ rx = <<>> /\ down = <<>>
    BY <1>2, <2>1 DEF LineInv
  <2>3. CASE pc = "reply"
    <3>1. Asked("read")
      BY <1>2, <2>1, <2>3 DEF LineInv
    <3>2. Head(up) = "read" /\ Quiet'
      BY <1>1, <1>4, <1>6, <3>1, Read DEF Asked, Quiet
    <3>3. down' = down \o <<Byte("reply", 0)>> \o Header
      BY <3>2, Zenon DEF Host
    <3>4. /\ Len(down') = HeaderSize + 1
          /\ \A k \in 1..HeaderSize+1 : down'[k] = IF k = 1 THEN Byte("reply", 0) ELSE Byte("hdr", k - 1)
      <4>1. <<Byte("reply", 0)>> \in Seq(Bytes) /\ Len(<<Byte("reply", 0)>>) = 1
            /\ <<Byte("reply", 0)>>[1] = Byte("reply", 0)
        BY DEF Byte, Bytes
      <4>2. down \o <<Byte("reply", 0)>> = <<Byte("reply", 0)>>
        BY <2>2, <4>1, ConcatEmptySeq
      <4>. DEFINE reply == <<Byte("reply", 0)>>
      <4>. HIDE DEF reply
      <4>3. /\ Len(reply \o Header) = Len(reply) + Len(Header)
            /\ \A k \in 1..Len(reply)+Len(Header) :
                  (reply \o Header)[k] = IF k <= Len(reply) THEN reply[k] ELSE Header[k - Len(reply)]
        BY <4>1, HeaderType, ConcatProperties DEF reply
      <4>5. down' = reply \o Header /\ Len(reply) = 1 /\ reply[1] = Byte("reply", 0)
        BY <3>3, <4>1, <4>2 DEF reply
      <4>6. Len(Header) \in Nat /\ Len(Header) = HeaderSize
        BY HeaderType DEF HeaderSize
      <4>7. Len(down') = HeaderSize + 1
        BY <4>3, <4>5, <4>6
      <4>8. ASSUME NEW k \in 1..HeaderSize+1
            PROVE  down'[k] = IF k = 1 THEN Byte("reply", 0) ELSE Byte("hdr", k - 1)
        <5>1. down'[k] = IF k <= 1 THEN reply[k] ELSE Header[k - 1]
          BY <4>3, <4>5, <4>6
        <5>2. k # 1 => (k - 1 \in 1..HeaderSize /\ ~(k <= 1))
          <6>1. k \in 1..7 /\ HeaderSize = 6
            BY DEF HeaderSize
          <6>2. k # 1 => (k - 1 \in 1..6 /\ ~(k <= 1))
            BY <6>1
          <6>. QED BY <6>1, <6>2
        <5>. QED BY <4>5, <5>1, <5>2, HeaderType
      <4>. QED BY <4>7, <4>8
    <3>5. Due' = HeaderSize + 1 /\ InFlight' = HeaderSize + 1
      BY <1>1, <2>2, <2>3, <3>4 DEF Due, InFlight, HeaderSize
    <3>6. \A k \in 1..Len(down') : down'[k] = Expected'[Len(rx') + k]
      <4>1. Len(rx') = 0
        BY <1>1, <2>2
      <4>2. \A k \in 1..HeaderSize+1 : k \in Nat
                /\ Expected[k] = IF k = 1 THEN Byte("reply", 0) ELSE Byte("hdr", k - 1)
        BY <2>3 DEF Expected, HeaderSize
      <4>3. \A k \in 1..HeaderSize+1 : Len(rx') + k = k
        BY <4>1
      <4>. QED BY <1>3, <3>4, <4>2, <4>3
    <3>7. \A k \in 1..Len(rx') : rx'[k] = Expected'[k]
      BY <1>1, <2>2
    <3>8. StoredInv'
      <4>1. hostPtr' = 0
        BY <3>2, Zenon DEF Host
      <4>. QED BY <1>1, <2>3, <4>1 DEF StoredInv
    <3>9. HeaderSize + 1 \in Nat
      BY DEF HeaderSize
    <3>. QED BY <3>2, <3>5, <3>6, <3>7, <3>8, <3>9 DEF LineInv, FlightInv, Lossless
  <2>4. CASE pc = "block"
    <3>1. Asked("next") /\ cl = Block
      BY <1>2, <2>1, <2>4 DEF LineInv
    <3>2. Head(up) = "next" /\ Quiet'
      BY <1>1, <1>4, <1>6, <3>1, Read DEF Asked, Quiet
    <3>3. down' = down \o BlockFrom(hostPtr) /\ hostPtr' = hostPtr + Block
      BY <3>2, Zenon DEF Host
    <3>4. hostPtr \in Nat /\ di \in Nat /\ Block \in Nat
      BY NetBootAssumption DEF TypeOK
    <3>5. down' = BlockFrom(hostPtr)
      BY <2>2, <3>3, <3>4, BlockType, ConcatEmptySeq
    <3>6. Len(down') = Block /\ \A k \in 1..Block : down'[k] = Byte("img", hostPtr + k - 1)
      BY <3>4, <3>5, BlockType
    <3>7. Due' = Block /\ InFlight' = Block
      <4>1. Len(rx') = 0
        BY <1>1, <2>2
      <4>. QED BY <1>1, <2>4, <3>1, <3>4, <3>6, <4>1 DEF Due, InFlight
    <3>8. Lossless /\ di = hostPtr /\ \A k \in 0..di-1 : mem[k] = Byte("img", k)
      <4>1. Lossless
        BY <2>1 DEF Lossless
      <4>2. di + 0 = hostPtr /\ \A k \in 0..di-1 : mem[k] = Byte("img", k)
        BY <1>2, <2>1, <2>4, <4>1 DEF StoredInv
      <4>. QED BY <3>4, <4>1, <4>2
    <3>9. \A k \in 1..Len(down') : down'[k] = Expected'[Len(rx') + k]
      <4>1. Len(rx') = 0
        BY <1>1, <2>2
      <4>2. \A k \in 1..Block : k \in Nat /\ Expected[k] = Byte("img", di + k - 1) /\ 0 + k = k
        BY <2>4, <3>4 DEF Expected
      <4>. QED BY <1>3, <3>6, <3>8, <4>1, <4>2
    <3>10. \A k \in 1..Len(rx') : rx'[k] = Expected'[k]
      BY <1>1, <2>2
    <3>11. StoredInv'
      <4>1. hdr' = Header /\ bx' > 0 /\ hostPtr + bx * Block = Size
        <5>1. hdr = Header /\ bx > 0 /\ hostPtr + bx * Block = Size + 0
          BY <1>2, <2>1, <2>4 DEF StoredInv
        <5>. QED BY <1>1, <5>1, NetBootAssumption
      <4>2. bx \in Nat /\ Size \in Nat /\ bx * Block \in Nat
        BY <3>4, NetBootAssumption DEF TypeOK
      <4>3. hostPtr' + bx' * Block = Size + Block
        BY <1>1, <3>3, <3>4, <4>1, <4>2
      <4>4. di' + Due' = hostPtr'
        BY <1>1, <3>3, <3>4, <3>7, <3>8
      <4>. QED BY <1>1, <2>4, <3>2, <3>8, <4>1, <4>3, <4>4 DEF StoredInv
    <3>. QED BY <3>2, <3>4, <3>7, <3>9, <3>10, <3>11 DEF LineInv, FlightInv, Lossless
  <2>. QED BY <2>2, <2>3, <2>4
<1>. QED BY <1>5, <1>6

\* The answer's type and the header.
LEMMA HeaderStep ==
    TypeOK /\ ControlInv /\ CleanInv /\ (Request \/ ReceiveReply \/ ReceiveHeader \/ EchoHeader) => CleanInv'
<1>. SUFFICES ASSUME TypeOK, ControlInv, CleanInv, ~dirty', pc' \in Loading,
                     Request \/ ReceiveReply \/ ReceiveHeader \/ EchoHeader
              PROVE  LineInv' /\ FlightInv' /\ StoredInv'
  BY DEF CleanInv
<1>. USE DueType
<1>1. CASE Request
  <2>1. /\ pc' = "reply" /\ up' = Append(up, "read") /\ UNCHANGED <<rx, down>>
        /\ rx = <<>> /\ down = <<>> /\ \A n \in DOMAIN up : up[n] = "debug"
    BY <1>1 DEF Request, Send
  <2>2. up \in Seq(Packets) /\ DOMAIN up = 1..Len(up) /\ "read" \in Packets
    BY DEF TypeOK, Packets
  <2>3. OnlyDebug(up)
    BY <2>1, <2>2 DEF OnlyDebug
  <2>4. ~Quiet' /\ Asked("read")'
    BY <2>1, <2>2, <2>3, Sent DEF Quiet, Asked
  <2>. QED BY <2>1, <2>4 DEF LineInv, FlightInv, StoredInv, Lossless
<1>2. CASE ReceiveReply
  <2>1. /\ pc = "reply" /\ pc' \in {"header", "hang"} /\ hdr' = <<>>
        /\ rx # <<>> /\ rx' = Tail(rx) /\ UNCHANGED <<down, up, hostPtr, throttled, dirty>>
    BY <1>2 DEF ReceiveReply, Receive, line
  <2>2. pc' = "header"
    BY <2>1 DEF Loading
  <2>3. LineInv /\ FlightInv /\ StoredInv
    BY <2>1 DEF CleanInv, Loading
  <2>4. Quiet /\ InFlight <= Due
    BY <2>1, <2>3 DEF LineInv
  <2>5. Due' = Due - 1 /\ \A k \in Nat \ {0} : Expected'[k] = Expected[k + 1]
    <3>1. Len(hdr') = 0
      BY <2>1
    <3>2. Due' = HeaderSize - 0 /\ Due = HeaderSize + 1
      BY <2>1, <2>2, <3>1 DEF Due
    <3>3. ASSUME NEW k \in Nat \ {0} PROVE Expected'[k] = Expected[k + 1]
      <4>1. k \in Nat /\ k + 1 \in Nat /\ 0 + k = k /\ (k + 1) - 1 = k /\ k + 1 # 1
        OBVIOUS
      <4>2. Expected'[k] = Byte("hdr", k)
        BY <2>2, <3>1, <4>1 DEF Expected
      <4>3. Expected[k + 1] = Byte("hdr", k)
        BY <2>1, <4>1 DEF Expected
      <4>. QED BY <4>2, <4>3
    <3>. QED BY <3>2, <3>3 DEF HeaderSize
  <2>6. LineInv' /\ FlightInv'
    BY <2>1, <2>3, <2>4, <2>5, ReceiveFlight DEF LineInv
  <2>7. StoredInv'
    <3>1. hostPtr' = 0
      BY <1>2, <2>1, <2>3, <2>4 DEF StoredInv, ReceiveReply, line
    <3>. QED BY <2>1, <2>2, <3>1 DEF StoredInv
  <2>. QED BY <2>6, <2>7
<1>3. CASE ReceiveHeader
  <2>1. /\ pc = "header" /\ pc' = "echo" /\ hdr' = Append(hdr, Head(rx)) /\ Len(hdr) < HeaderSize
        /\ rx # <<>> /\ rx' = Tail(rx) /\ UNCHANGED <<down, up, hostPtr, throttled, dirty>>
    BY <1>3 DEF ReceiveHeader, Receive, ControlInv, line
  <2>2. LineInv /\ FlightInv /\ StoredInv
    BY <2>1 DEF CleanInv, Loading
  <2>3. Quiet /\ InFlight <= Due
    BY <2>1, <2>2 DEF LineInv
  <2>4. /\ Len(hdr') = Len(hdr) + 1 /\ hdr'[Len(hdr) + 1] = Head(rx) /\ Len(hdr) \in Nat
        /\ \A k \in 1..Len(hdr) : hdr'[k] = hdr[k]
    BY <2>1, Received, AppendProperties DEF TypeOK
  <2>5. Due' = Due - 1 /\ \A k \in Nat \ {0} : Expected'[k] = Expected[k + 1]
    <3>1. HeaderSize \in Nat
      BY DEF HeaderSize
    <3>2. Due = HeaderSize - Len(hdr) /\ Due' = HeaderSize - Len(hdr')
      BY <2>1 DEF Due
    <3>3. ASSUME NEW k \in Nat \ {0} PROVE Expected'[k] = Expected[k + 1]
      <4>1. k \in Nat /\ k + 1 \in Nat /\ Len(hdr') + k = Len(hdr) + (k + 1)
        BY <2>4
      <4>. QED BY <2>1, <4>1 DEF Expected
    <3>. QED BY <2>4, <3>1, <3>2, <3>3
  <2>6. LineInv' /\ FlightInv' /\ (Lossless' <=> Lossless) /\ (Lossless => Head(rx) = Expected[1])
    BY <2>1, <2>2, <2>3, <2>5, ReceiveFlight DEF LineInv
  <2>7. Lossless => \A k \in 1..Len(hdr') : hdr'[k] = Byte("hdr", k)
    <3>1. SUFFICES ASSUME Lossless, NEW k \in 1..Len(hdr') PROVE hdr'[k] = Byte("hdr", k)
      OBVIOUS
    <3>2. CASE k = Len(hdr) + 1
      <4>1. Expected[1] = Byte("hdr", Len(hdr) + 1)
        BY <2>1 DEF Expected
      <4>. QED BY <2>4, <2>6, <3>1, <3>2, <4>1
    <3>3. CASE k # Len(hdr) + 1
      <4>1. k \in 1..Len(hdr)
        BY <2>4, <3>3
      <4>. QED BY <2>1, <2>2, <2>4, <3>1, <4>1 DEF StoredInv
    <3>. QED BY <3>2, <3>3
  <2>8. StoredInv'
    BY <2>1, <2>2, <2>3, <2>6, <2>7 DEF StoredInv
  <2>. QED BY <2>6, <2>8
<1>4. CASE EchoHeader
  <2>1. /\ pc = "echo" /\ up' = Append(up, "debug") /\ UNCHANGED <<hdr, rx, down, hostPtr, throttled, dirty>>
        /\ pc' = IF Len(hdr) < HeaderSize THEN "header" ELSE "image"
    BY <1>4 DEF EchoHeader, Send, line
  <2>2. LineInv /\ FlightInv /\ StoredInv
    BY <2>1 DEF CleanInv, Loading
  <2>3. Quiet
    BY <2>1, <2>2 DEF LineInv
  <2>4. Quiet'
    BY <2>1, <2>3, Sent DEF Quiet, TypeOK, Packets
  <2>5. Len(hdr) \in Nat /\ Len(hdr) <= HeaderSize /\ HeaderSize \in Nat
    BY DEF HeaderSize, TypeOK
  <2>6. Due' = Due
    BY <2>1, <2>5 DEF Due
  <2>7. \A k \in Nat : k \in 1..Due => Expected'[k] = Expected[k]
    <3>1. CASE pc' = "header"
      BY <2>1, <3>1 DEF Expected
    <3>2. CASE pc' = "image"
      BY <2>1, <2>5, <3>2 DEF Due
    <3>. QED BY <2>1, <3>1, <3>2
  <2>8. LineInv' /\ FlightInv' /\ (Lossless' <=> Lossless)
    BY <2>1, <2>2, <2>3, <2>4, <2>6, <2>7, SameFlight
  <2>9. StoredInv'
    <3>1. CASE pc' = "header"
      BY <2>1, <2>2, <2>3, <2>8, <3>1 DEF StoredInv
    <3>2. CASE pc' = "image"
      <4>1. Len(hdr) = HeaderSize
        BY <2>1, <2>5, <3>2
      <4>2. Lossless
        <5>1. Due = 0
          BY <2>1, <2>5, <4>1 DEF Due
        <5>2. InFlight \in Nat /\ InFlight <= 0
          BY <2>2, <2>3, <5>1 DEF LineInv, InFlight
        <5>. QED BY <5>1, <5>2 DEF Lossless
      <4>3. \A k \in 1..HeaderSize : hdr[k] = Header[k]
        BY <2>1, <2>2, <4>1, <4>2, HeaderType DEF StoredInv
      <4>4. hdr = Header
        BY <4>1, <4>3, HeaderType, SeqEqual DEF TypeOK
      <4>. QED BY <2>1, <2>2, <2>3, <3>2, <4>4 DEF StoredInv
    <3>. QED BY <2>1, <3>1, <3>2
  <2>. QED BY <2>8, <2>9
<1>. QED BY <1>1, <1>2, <1>3, <1>4

LEMMA WholeBlocks ==
    ASSUME NEW n \in Nat, NEW b \in Nat \ {0}, n % b = 0
    PROVE  n \div b \in Nat /\ (n \div b) * b = n
<1>. DEFINE q == n \div b
<1>1. q \in Nat /\ b * q <= n
  OBVIOUS
<1>2. n = (b * q) + (n % b)
  OBVIOUS
<1>. HIDE DEF q
<1>3. b * q = n
  BY <1>1, <1>2
<1>4. b * q = q * b
  BY <1>1
<1>. QED BY <1>1, <1>3, <1>4 DEF q

\* The blocks of the image, counted down in BX.
LEMMA ImageStep ==
    SizeFits /\ TypeOK /\ ControlInv /\ CleanInv /\ (StartImage \/ NextBlock \/ ReceiveImage \/ Jump) => CleanInv'
<1>. SUFFICES ASSUME SizeFits, TypeOK, ControlInv, CleanInv, ~dirty', pc' \in Loading,
                     StartImage \/ NextBlock \/ ReceiveImage \/ Jump
              PROVE  LineInv' /\ FlightInv' /\ StoredInv'
  BY DEF CleanInv
<1>. USE DueType
<1>1. UNCHANGED <<hdr, down, hostPtr, throttled, dirty>> /\ pc \in {"image", "next", "block", "jump"}
  BY DEF StartImage, NextBlock, ReceiveImage, Jump, line
<1>2. LineInv /\ FlightInv /\ StoredInv /\ hdr = Header
  BY <1>1 DEF CleanInv, Loading, StoredInv
<1>3. /\ Size \in Nat \ {0} /\ Block \in Nat \ {0} /\ WordSize \in Nat /\ Size < WordSize
      /\ bx \in 0..WordSize-1 /\ di \in 0..WordSize-1 /\ hostPtr \in Nat /\ cl \in 0..Block
  BY NetBootAssumption DEF SizeFits, TypeOK
<1>4. ASSUME pc \in {"image", "next", "jump"}
      PROVE  Quiet /\ rx = <<>> /\ down = <<>> /\ InFlight = 0 /\ Due = 0 /\ Lossless
  <2>1. Quiet /\ Due = 0 /\ InFlight <= 0
    BY <1>2, <1>4 DEF LineInv, Due
  <2>2. InFlight = Len(rx) + Len(down)
    BY DEF InFlight
  <2>3. Len(rx) = 0 /\ Len(down) = 0 /\ InFlight = 0
    BY <2>1, <2>2
  <2>. QED BY <2>1, <2>3, EmptySeq DEF TypeOK, Lossless
<1>5. CASE StartImage
  <2>1. /\ pc = "image" /\ pc' = "next" /\ up' = Append(up, "debug") /\ di' = 0 /\ rx' = rx
        /\ \E size \in SizeField : bx' = size \div Block
    BY <1>5 DEF StartImage, Send
  <2>2. Quiet'
    BY <1>4, <2>1, Sent DEF Quiet, TypeOK, Packets
  <2>3. bx' > 0 /\ bx' * Block = Size
    <3>1. Size % WordSize = Size /\ Size % Block = 0
      BY <1>3 DEF SizeFits
    <3>2. bx' = Size \div Block
      BY <1>2, <2>1, <3>1 DEF SizeField
    <3>3. bx' \in Nat /\ bx' * Block = Size
      BY <1>3, <3>1, <3>2, WholeBlocks
    <3>4. bx' # 0
      <4>1. 0 * Block = 0
        BY <1>3
      <4>. QED BY <1>3, <3>3, <4>1
    <3>. QED BY <3>3, <3>4
  <2>4. hostPtr = 0
    BY <1>2, <1>4, <2>1 DEF StoredInv
  <2>5. Due' = 0 /\ Due = 0
    BY <2>1 DEF Due
  <2>6. \A k \in Nat : k \in 1..Due => Expected'[k] = Expected[k]
    BY <2>5
  <2>7. LineInv' /\ FlightInv'
    BY <1>1, <1>2, <1>4, <2>1, <2>2, <2>5, <2>6, SameFlight
  <2>8. hostPtr' + bx' * Block = Size + 0 /\ di' + 0 = hostPtr'
    BY <1>1, <1>3, <2>1, <2>3, <2>4
  <2>9. StoredInv'
    BY <1>1, <1>2, <2>1, <2>2, <2>3, <2>5, <2>8 DEF StoredInv
  <2>. QED BY <2>7, <2>9
<1>6. CASE NextBlock
  <2>1. /\ pc = "next" /\ pc' = "block" /\ up' = Append(up, "next") /\ cl' = Block
        /\ UNCHANGED <<bx, di, mem, rx>>
    BY <1>6 DEF NextBlock, Send
  <2>2. Quiet /\ rx = <<>> /\ down = <<>> /\ Lossless /\ Due = 0
    BY <1>4, <2>1
  <2>3. ~Quiet' /\ Asked("next")'
    BY <2>1, <2>2, Sent DEF Quiet, Asked, TypeOK, Packets
  <2>4. /\ bx > 0 /\ hostPtr + bx * Block = Size + 0
        /\ di + 0 = hostPtr /\ \A k \in 0..di-1 : mem[k] = Byte("img", k)
    BY <1>2, <2>1, <2>2 DEF StoredInv
  <2>5. StoredInv'
    BY <1>1, <1>2, <2>1, <2>3, <2>4 DEF StoredInv
  <2>. QED BY <1>1, <2>1, <2>2, <2>3, <2>5 DEF LineInv, FlightInv, Lossless
<1>7. CASE ReceiveImage
  <2>1. /\ pc = "block" /\ rx # <<>> /\ rx' = Tail(rx) /\ UNCHANGED up
        /\ mem' = [mem EXCEPT ![di] = Head(rx)]
        /\ di' = (di + 1) % WordSize /\ cl' = cl - 1
        /\ bx' = (IF cl' = 0 THEN (bx - 1) % WordSize ELSE bx)
        /\ pc' = (IF cl' # 0 THEN "block" ELSE IF bx' # 0 THEN "next" ELSE "jump")
    BY <1>7 DEF ReceiveImage, Receive
  <2>2. Quiet /\ InFlight <= Due /\ Due = cl /\ cl \in 1..Block
    BY <1>2, <2>1 DEF LineInv, Due, ControlInv
  <2>3. Due' = Due - 1
    BY <1>3, <2>1, <2>2 DEF Due
  <2>4. bx > 0 /\ hostPtr + bx * Block = Size + Block
    BY <1>2, <2>1, <2>2 DEF StoredInv
  <2>5. hostPtr <= Size
    <3>1. bx * Block >= Block
      BY <1>3, <2>4
    <3>2. bx * Block \in Nat
      BY <1>3
    <3>. QED BY <1>3, <2>4, <3>1, <3>2
  <2>6. Lossless => /\ di + Due = hostPtr /\ di' = di + 1
                    /\ \A k \in 0..di-1 : mem[k] = Byte("img", k)
    <3>1. SUFFICES ASSUME Lossless
                   PROVE  /\ di + Due = hostPtr /\ di' = di + 1
                          /\ \A k \in 0..di-1 : mem[k] = Byte("img", k)
      OBVIOUS
    <3>2. di + Due = hostPtr /\ \A k \in 0..di-1 : mem[k] = Byte("img", k)
      BY <1>2, <2>1, <2>2, <3>1 DEF StoredInv
    <3>3. di + 1 \in 0..WordSize-1
      BY <1>3, <2>2, <2>5, <3>2
    <3>. QED BY <1>3, <2>1, <3>2, <3>3
  <2>7. Lossless => \A k \in Nat \ {0} : Expected'[k] = Expected[k + 1]
    <3>1. SUFFICES ASSUME Lossless, NEW k \in Nat \ {0} PROVE Expected'[k] = Expected[k + 1]
      OBVIOUS
    <3>2. k \in Nat /\ k + 1 \in Nat /\ di' + k - 1 = di + (k + 1) - 1
      BY <1>3, <2>6, <3>1
    <3>3. pc' \notin {"reply", "header", "echo"}
      BY <2>1
    <3>. QED BY <2>1, <3>2, <3>3 DEF Expected
  <2>8. /\ Quiet' /\ InFlight' <= Due' /\ FlightInv' /\ InFlight \in Nat \ {0}
        /\ (Lossless' <=> Lossless) /\ (Lossless => Head(rx) = Byte("img", di))
    <3>1. 1 \in Nat /\ Expected[1] = Byte("img", di)
      BY <1>3, <2>1 DEF Expected
    <3>. QED BY <1>1, <1>2, <2>1, <2>2, <2>3, <2>7, <3>1, ReceiveFlight
  <2>9. LineInv'
    BY <2>8 DEF LineInv
  <2>10. Lossless => \A k \in 0..di'-1 : mem'[k] = Byte("img", k)
    <3>1. SUFFICES ASSUME Lossless, NEW k \in 0..di PROVE mem'[k] = Byte("img", k)
      BY <1>3, <2>6
    <3>2. mem' = [mem EXCEPT ![di] = Byte("img", di)]
      BY <2>1, <2>8, <3>1
    <3>3. DOMAIN mem = 0..WordSize-1
      BY DEF TypeOK
    <3>4. k \in DOMAIN mem /\ (k = di \/ k \in 0..di-1)
      BY <1>3, <3>1, <3>3
    <3>. QED BY <2>6, <3>1, <3>2, <3>4
  <2>11. CASE cl' # 0
    <3>1. bx' = bx /\ pc' = "block"
      BY <2>1, <2>11
    <3>2. Lossless => di' + Due' = hostPtr'
      BY <1>1, <1>3, <2>2, <2>3, <2>6
    <3>3. StoredInv'
      BY <1>1, <1>2, <2>4, <2>8, <2>10, <3>1, <3>2 DEF StoredInv
    <3>. QED BY <2>8, <2>9, <3>3
  <2>12. CASE cl' = 0
    <3>1. Due = 1 /\ Due' = 0 /\ Lossless
      BY <1>3, <2>1, <2>2, <2>3, <2>8, <2>12 DEF Lossless
    <3>2. bx' = bx - 1 /\ pc' = IF bx' # 0 THEN "next" ELSE "jump"
      BY <1>3, <2>1, <2>4, <2>12
    <3>3. di' = hostPtr' /\ di' + 0 = hostPtr'
      BY <1>1, <1>3, <2>6, <3>1
    <3>4. hostPtr' + bx' * Block = Size + 0
      <4>1. (bx - 1) * Block = bx * Block - Block /\ bx * Block \in Nat
        BY <1>3
      <4>. QED BY <1>1, <1>3, <2>4, <3>2, <4>1
    <3>5. CASE pc' = "next"
      <4>1. bx' > 0
        BY <1>3, <2>4, <3>2, <3>5
      <4>2. StoredInv'
        BY <1>1, <1>2, <2>8, <2>10, <3>1, <3>3, <3>4, <3>5, <4>1 DEF StoredInv
      <4>. QED BY <2>8, <2>9, <4>2
    <3>6. CASE pc' = "jump"
      <4>1. hostPtr' = Size /\ di' = Size
        BY <1>1, <1>3, <3>2, <3>3, <3>4, <3>6
      <4>2. StoredInv'
        BY <1>1, <1>2, <2>8, <2>10, <3>1, <3>3, <3>6, <4>1 DEF StoredInv
      <4>. QED BY <2>8, <2>9, <4>2
    <3>. QED BY <3>2, <3>5, <3>6
  <2>. QED BY <2>11, <2>12
<1>8. CASE Jump
  <2>1. pc = "jump" /\ pc' = "running" /\ UNCHANGED <<bx, cl, di, mem, rx, up>>
    BY <1>8 DEF Jump
  <2>2. Quiet /\ Quiet' /\ Due = 0 /\ Due' = 0 /\ Lossless
    BY <1>4, <2>1 DEF Quiet, Due
  <2>3. LineInv' /\ FlightInv' /\ (Lossless' <=> Lossless)
    <3>1. \A k \in Nat : k \in 1..Due => Expected'[k] = Expected[k]
      BY <2>2
    <3>. QED BY <1>1, <1>2, <2>1, <2>2, <3>1, SameFlight
  <2>4. StoredInv'
    BY <1>1, <1>2, <2>1, <2>2, <2>3 DEF StoredInv
  <2>. QED BY <2>3, <2>4
<1>. QED BY <1>5, <1>6, <1>7, <1>8

LEMMA CleanStep == SizeFits /\ NetBootInv /\ [Next]_vars => CleanInv'
<1>. SUFFICES ASSUME SizeFits, NetBootInv, [Next]_vars PROVE CleanInv'
  OBVIOUS
<1>1. CASE Banner \/ Reset
  <2>1. pc' \in {"request", "start"}
    BY <1>1 DEF Banner, Reset
  <2>. QED BY <2>1 DEF CleanInv, Loading
<1>2. CASE Finished \/ UNCHANGED vars
  <2>1. UNCHANGED vars
    BY <1>2 DEF Finished
  <2>2. Due' = Due /\ Expected' = Expected /\ InFlight' = InFlight /\ (Quiet' <=> Quiet)
    BY <2>1 DEF vars, Due, Expected, InFlight, Quiet
  <2>3. LineInv => LineInv'
    BY <2>1, <2>2 DEF vars, LineInv, Asked
  <2>4. (FlightInv => FlightInv') /\ (StoredInv => StoredInv')
    BY <2>1, <2>2 DEF vars, FlightInv, StoredInv, Lossless
  <2>. QED BY <2>1, <2>3, <2>4 DEF NetBootInv, CleanInv, vars
<1>3. CASE Arrive
  BY <1>3, ArriveStep DEF NetBootInv
<1>4. CASE Host
  BY <1>4, HostStep DEF NetBootInv
<1>5. CASE Request \/ ReceiveReply \/ ReceiveHeader \/ EchoHeader
  BY <1>5, HeaderStep DEF NetBootInv
<1>6. CASE StartImage \/ NextBlock \/ ReceiveImage \/ Jump
  BY <1>6, ImageStep DEF NetBootInv
<1>. QED BY <1>1, <1>2, <1>3, <1>4, <1>5, <1>6 DEF Next, Loader

-----------------------------------------------------------------------------
(* The theorems *)

LEMMA Stored ==
    ASSUME NetBootInv, ~dirty, pc \in {"next", "block", "jump", "running"}
    PROVE  /\ hdr = Header /\ hostPtr <= Size /\ di \in Nat
           /\ pc \in {"jump", "running"} => di = Size /\ Lossless
           /\ Lossless => \A k \in 0..di-1 : mem[k] = Byte("img", k)
<1>1. LineInv /\ StoredInv /\ TypeOK
  BY DEF NetBootInv, CleanInv, Loading
<1>2. /\ Size \in Nat /\ Block \in Nat \ {0} /\ bx \in Nat /\ hostPtr \in Nat /\ di \in Nat
  BY <1>1, NetBootAssumption DEF TypeOK
<1>3. pc \in {"next", "block"} => hostPtr <= Size
  <2>1. ASSUME pc \in {"next", "block"}
        PROVE  bx > 0 /\ \E b \in {0, Block} : hostPtr + bx * Block = Size + b
    BY <1>1, <1>2, <2>1 DEF StoredInv
  <2>2. bx > 0 => bx * Block >= Block /\ bx * Block \in Nat
    BY <1>2
  <2>. QED BY <1>2, <2>1, <2>2
<1>4. pc \in {"jump", "running"} => Lossless
  <2>1. ASSUME pc \in {"jump", "running"} PROVE Lossless
    <3>1. Due = 0
      BY <2>1 DEF Due
    <3>2. InFlight \in Nat
      BY <1>1 DEF TypeOK, InFlight
    <3>. QED BY <1>1, <2>1, <3>1, <3>2 DEF LineInv, Lossless
  <2>. QED BY <2>1
<1>. QED BY <1>1, <1>2, <1>3, <1>4 DEF StoredInv

LEMMA Preserved == SizeFits /\ NetBootInv /\ [Next]_vars => NetBootInv'
BY TypeStep, CleanStep DEF NetBootInv

LEMMA Invariant == SizeFits => (Spec => []NetBootInv)
<1>. SUFFICES ASSUME SizeFits PROVE Spec => []NetBootInv
  OBVIOUS
<1>1. NetBootInv /\ [Next]_vars => NetBootInv'
  BY Preserved
<1>. QED BY <1>1, InitInv, PTL DEF Spec

\* Whatever the host sends and the line loses, and for a file of any size, the
\* loader's registers and buffers keep their ranges: DI stays an offset, BTDATA
\* is filled with no more than the six bytes of the header.
THEOREM NetBootTypeCorrect == Spec => []TypeOK
<1>1. Init => TypeOK /\ ControlInv
  BY InitInv DEF NetBootInv
<1>. QED BY <1>1, TypeStep, PTL DEF Spec

\* kLoadImage jumps to an image only when all of it is in memory, whatever the
\* UART overran, if its last request went out over a line clear of earlier answers
\* (always, but for resets that interrupted one), for every image whose size the
\* header's word holds and its blocks divide.
THEOREM WholeImageEntered == SizeFits => (Spec => []EntersOnlyWholeImage)
<1>. SUFFICES ASSUME SizeFits PROVE Spec => []EntersOnlyWholeImage
  OBVIOUS
<1>1. NetBootInv => EntersOnlyWholeImage
  <2>1. SUFFICES ASSUME NetBootInv, pc \in {"jump", "running"}, ~dirty PROVE WholeImage
    BY DEF EntersOnlyWholeImage
  <2>2. /\ hdr = Header /\ di = Size
        /\ \A k \in 0..di-1 : mem[k] = Byte("img", k)
    BY <2>1, Stored
  <2>3. Size - 1 < WordSize /\ DOMAIN mem = 0..WordSize-1
    BY <2>1, NetBootAssumption DEF SizeFits, NetBootInv, TypeOK
  <2>. QED BY <2>2, <2>3, NetBootAssumption DEF WholeImage, SizeFits
<1>. QED BY <1>1, Invariant, PTL

\* BX counts the blocks asked for, and BX is the size divided by the block: the
\* host is never asked for one past the end of the file.
THEOREM HostReadsInFile == SizeFits => (Spec => []HostStaysInFile)
<1>. SUFFICES ASSUME SizeFits PROVE Spec => []HostStaysInFile
  OBVIOUS
<1>1. NetBootInv => HostStaysInFile
  BY Stored DEF HostStaysInFile
<1>. QED BY <1>1, Invariant, PTL

\* On a line that waits for the UART, what lies in memory while the image is
\* loaded is always an initial part of it, one byte more at a time; only the whole
\* is entered, and only a reset starts over: loading implements the transfer.
THEOREM LoadingIsATransfer == SizeFits => (Spec => TransferSpec)
<1>. SUFFICES ASSUME SizeFits PROVE Spec => TransferSpec
  OBVIOUS
<1>. DEFINE Shown == throttled /\ ~dirty /\ pc \in {"next", "block", "jump", "running"}
            Got == IF Shown THEN [k \in 1..di |-> mem[k - 1].k] ELSE <<>>
            Entered == throttled /\ ~dirty /\ pc = "running"
            Image(n) == [k \in 1..n |-> k - 1]
<1>1. ASSUME NEW n \in Nat
      PROVE  /\ Image(n) \in Seq(Nat) /\ Len(Image(n)) = n
             /\ Image(n + 1) = Append(Image(n), n)
  <2>1. Image(n) \in Seq(Nat) /\ Len(Image(n)) = n
    OBVIOUS
  <2>2. Image(n + 1) \in Seq(Nat) /\ Len(Image(n + 1)) = n + 1
    OBVIOUS
  <2>3. /\ Append(Image(n), n) \in Seq(Nat) /\ Len(Append(Image(n), n)) = n + 1
        /\ \A k \in 1..n+1 : Append(Image(n), n)[k] = k - 1
    BY <2>1, AppendProperties
  <2>4. \A k \in 1..n+1 : Image(n + 1)[k] = k - 1
    OBVIOUS
  <2>. QED BY <2>1, <2>2, <2>3, <2>4, SeqEqual
<1>2. Image(0) = <<>>
  <2>1. Image(0) \in Seq(Nat) /\ Len(Image(0)) = 0
    BY <1>1
  <2>. QED BY <2>1, EmptySeq
<1>3. NetBootInv /\ Shown =>
          /\ Lossless /\ Got = Image(di) /\ di \in Nat
          /\ pc \in {"jump", "running"} => di = Size
  <2>. SUFFICES ASSUME NetBootInv, Shown
                PROVE  /\ Lossless /\ Got = Image(di) /\ di \in Nat
                       /\ pc \in {"jump", "running"} => di = Size
    OBVIOUS
  <2>1. FlightInv /\ throttled /\ ~dirty /\ pc \in {"next", "block", "jump", "running"}
    BY DEF NetBootInv, CleanInv, Loading
  <2>2. Lossless /\ di \in Nat /\ \A k \in 0..di-1 : mem[k] = Byte("img", k)
    BY <2>1, Stored DEF FlightInv
  <2>3. \A k \in 1..di : mem[k - 1].k = k - 1
    <3>1. \A k \in 1..di : k - 1 \in 0..di-1
      BY <2>2
    <3>2. \A k \in 1..di : mem[k - 1] = Byte("img", k - 1)
      BY <2>2, <3>1
    <3>3. \A i \in Nat : Byte("img", i).k = i
      BY DEF Byte
    <3>4. \A k \in 1..di : k - 1 \in Nat
      BY <2>2
    <3>. QED BY <3>2, <3>3, <3>4
  <2>. QED BY <2>1, <2>2, <2>3, Stored
<1>. HIDE DEF Image
<1>4. Init => Transfer!Init
  BY DEF Init, Transfer!Init
<1>5. NetBootInv /\ NetBootInv' /\ [Next]_vars => [Transfer!Next]_(Transfer!vars)
  <2>. SUFFICES ASSUME NetBootInv, NetBootInv', [Next]_vars
                PROVE  Transfer!Next \/ (Got' = Got /\ Entered' = Entered)
    BY DEF Transfer!vars
  <2>1. CASE ~Shown /\ ~Shown'
    BY <2>1
  <2>2. CASE Shown /\ Reset
    <3>1. pc # "running" /\ pc' = "start"
      BY <2>2 DEF Reset
    <3>. QED BY <3>1 DEF Transfer!Next, Transfer!StartOver
  <2>3. CASE ~Shown /\ StartImage
    <3>1. pc' = "next" /\ di' = 0
      BY <2>3 DEF StartImage
    <3>2. Got' = <<>>
      BY <1>2, <1>3, <3>1
    <3>. QED BY <2>3, <3>1, <3>2
  <2>4. CASE Shown /\ NextBlock
    BY <2>4 DEF NextBlock, line
  <2>5. CASE Shown /\ Jump
    <3>1. pc = "jump" /\ pc' = "running" /\ UNCHANGED <<di, mem, throttled, dirty>>
      BY <2>5 DEF Jump, line
    <3>2. Got' = Got /\ Len(Got) = Size
      BY <1>1, <1>3, <2>5, <3>1
    <3>. QED BY <2>5, <3>1, <3>2 DEF Transfer!Next, Transfer!Enter
  <2>6. CASE Shown /\ ReceiveImage
    <3>1. /\ pc = "block" /\ pc' \in {"next", "block", "jump"} /\ UNCHANGED <<throttled, dirty>>
          /\ di' = (di + 1) % WordSize
      BY <2>6 DEF ReceiveImage, line
    <3>2. di + 1 \in 1..Size
      <4>1. Lossless /\ di \in Nat /\ LineInv /\ StoredInv /\ ControlInv /\ Quiet /\ hostPtr <= Size
        BY <1>3, <2>6, <3>1, Stored DEF NetBootInv, CleanInv, LineInv, Loading, ReceiveImage, Receive
      <4>2. di + cl = hostPtr /\ cl >= 1 /\ cl \in Nat
        BY <3>1, <4>1, NetBootAssumption DEF StoredInv, Due, ControlInv
      <4>. QED BY <4>1, <4>2, NetBootAssumption DEF SizeFits
    <3>3. di \in Nat /\ di' = di + 1 /\ di < Size
      <4>1. di \in Nat /\ WordSize \in Nat /\ Size \in Nat /\ Size < WordSize
        BY <1>3, <2>6, NetBootAssumption DEF SizeFits
      <4>2. di + 1 \in 0..WordSize-1
        BY <3>2, <4>1
      <4>. QED BY <3>1, <3>2, <4>1, <4>2
    <3>4. Got = Image(di) /\ Got' = Image(di + 1)
      <4>1. (NetBootInv /\ Shown => Got = Image(di))'
        BY <1>3, PTL
      <4>. QED BY <1>3, <2>6, <3>1, <3>3, <4>1
    <3>5. Len(Got) = di /\ Got' = Append(Got, di)
      BY <1>1, <3>3, <3>4
    <3>6. ~Entered /\ ~Entered'
      BY <3>1
    <3>7. Transfer!Deliver
      BY <3>3, <3>5, <3>6 DEF Transfer!Deliver
    <3>. QED BY <3>7 DEF Transfer!Next
  <2>7. CASE Shown /\ (Arrive \/ Host \/ Finished \/ UNCHANGED vars)
    <3>1. UNCHANGED <<pc, di, mem, throttled, dirty>>
      BY <2>7, Zenon DEF Arrive, Host, Finished, vars
    <3>. QED BY <3>1
  <2>8. CASE Banner \/ Request \/ ReceiveReply \/ ReceiveHeader \/ EchoHeader
    <3>1. /\ pc \in {"start", "request", "reply", "header", "echo"}
          /\ pc' \in {"request", "reply", "header", "hang", "echo", "image"}
      BY <2>8 DEF Banner, Request, ReceiveReply, ReceiveHeader, EchoHeader
    <3>. QED BY <2>1, <3>1
  <2>9. CASE StartImage
    <3>1. pc = "image"
      BY <2>9 DEF StartImage
    <3>. QED BY <2>3, <2>9, <3>1
  <2>10. CASE ~Shown /\ (NextBlock \/ ReceiveImage \/ Jump)
    <3>1. pc \in {"next", "block", "jump"} /\ UNCHANGED <<throttled, dirty>>
      BY <2>10 DEF NextBlock, ReceiveImage, Jump, line
    <3>. QED BY <2>1, <2>10, <3>1
  <2>11. CASE ~Shown /\ (Arrive \/ Host \/ Reset \/ Finished \/ UNCHANGED vars)
    <3>1. pc' \in {pc, "start"} /\ UNCHANGED <<throttled, dirty>>
      BY <2>11 DEF Arrive, Host, Reset, Finished, vars
    <3>. QED BY <2>1, <2>11, <3>1
  <2>. QED BY <2>2, <2>4, <2>5, <2>6, <2>7, <2>8, <2>9, <2>10, <2>11 DEF Next, Loader
<1>. QED BY <1>4, <1>5, Invariant, PTL DEF Spec, TransferSpec, Transfer!Spec
=============================================================================
