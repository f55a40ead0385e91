------------------------------ MODULE NetBoot ------------------------------
(***************************************************************************)
(* Stage 1 of the loader (bootldr/bl_boot.asm, kLoadImage) fetching the    *)
(* second stage and the kernel over the serial port (bootldr/serial.inc)   *)
(* from the debug host, which is a program outside the sources.            *)
(*                                                                         *)
(* Bytes are abstracted to what they are: the reply type, the k-th header  *)
(* byte, or the image byte of index k.  A packet the loader sends          *)
(* (debug.inc) is one element: its bytes follow each other with nothing of *)
(* the loader's in between, and the host acts on complete packets.         *)
(***************************************************************************)
EXTENDS Integers, Sequences

CONSTANTS
    Size,           \* bytes of the image file
    Block,          \* DBG_READIMAGE_BLOCK, bytes per request (64)
    WordSize,       \* values of a 16-bit register
    RxDepth,        \* bytes the UART holds: 1, kSerialPortInit enables no FIFO
    Throttled,      \* kinds of line: TRUE holds a byte back until the UART has room
    LineDepth,      \* bound: packets on their way to the host
    ReplyBytes,     \* indices of the image bytes that equal DBG_READIMAGE_R
    MaxResets       \* bound, by kind of line: machine resets while loading

ASSUME NetBootAssumption ==
    /\ Size \in Nat /\ Block \in Nat \ {0} /\ WordSize \in Nat /\ WordSize > Block
    /\ RxDepth \in Nat \ {0} /\ Throttled \subseteq BOOLEAN /\ LineDepth \in Nat
    /\ ReplyBytes \subseteq Nat /\ MaxResets \in [BOOLEAN -> Nat]

\* The files the host accepts (a multiple of the block, and it needs one block for
\* the loader's do-while loop) and whose size its header's word can hold.
SizeFits == Size % Block = 0 /\ Size > 0 /\ Size < WordSize

HeaderSize == 6     \* bt_kern_size, bt_kern_seg, bt_kern_entry: three words

VARIABLES
    pc,         \* where kLoadImage is
    hdr,        \* the header bytes stored in BTDATA
    bx, cl, di, \* blocks to go, bytes to go in the block, store offset
    mem,        \* memory at bt_kern_seg, by offset
    rx,         \* the UART's received bytes
    down,       \* bytes from the host on their way to the UART
    up,         \* packets on their way to the host
    hostPtr,    \* the host's position in the image file
    throttled,  \* the kind of line, for good
    resets,     \* machine resets so far
    dirty       \* history: whether something was still on the line, in either
                \* direction, when the image was last requested

vars == <<pc, hdr, bx, cl, di, mem, rx, down, up, hostPtr, throttled, resets, dirty>>

line == <<down, hostPtr, throttled, resets, dirty>>

Byte(kind, k) == [kind |-> kind, k |-> k]

Bytes == [kind : {"none", "reply", "hdr", "img"}, k : Nat]

NoByte == Byte("none", 0)

Packets == {"debug", "read", "next"}

Labels == {"start", "request", "reply", "header", "echo", "image", "next", "block",
           "jump", "running", "hang"}

Header == [k \in 1..HeaderSize |-> Byte("hdr", k)]

Init ==
    /\ pc = "start" /\ hdr = <<>>
    /\ bx = 0 /\ cl = 0 /\ di = 0
    /\ mem = [o \in 0..WordSize-1 |-> NoByte]
    /\ rx = <<>> /\ down = <<>> /\ up = <<>>
    /\ hostPtr = 0
    /\ throttled \in Throttled /\ resets = 0 /\ dirty = FALSE

-----------------------------------------------------------------------------
(* The serial port (serial.inc), polled. *)

\* kSerialPortTransferBuffer, once the transmitter takes the bytes.
Send(packet) ==
    /\ Len(up) < LineDepth
    /\ up' = Append(up, packet)

\* kSerialPortReceiveByte
Receive == rx # <<>> /\ rx' = Tail(rx)

\* A byte reaches the UART.  With no room an unthrottled line overruns it: the
\* last byte it held is lost.
Arrive ==
    /\ down # <<>>
    /\ down' = Tail(down)
    /\ \/ Len(rx) < RxDepth /\ rx' = Append(rx, Head(down))
       \/ /\ Len(rx) = RxDepth /\ ~throttled
          /\ rx' = [rx EXCEPT ![RxDepth] = Head(down)]
    /\ UNCHANGED <<pc, hdr, bx, cl, di, mem, up, hostPtr, throttled, resets, dirty>>

-----------------------------------------------------------------------------
(* kLoadImage *)

\* The "Boot drive" message.
Banner ==
    /\ pc = "start" /\ pc' = "request"
    /\ Send("debug")
    /\ UNCHANGED <<hdr, bx, cl, di, mem, rx, line>>

Request ==
    /\ pc = "request" /\ pc' = "reply"
    /\ Send("read")
    /\ dirty' = (rx # <<>> \/ down # <<>> \/ \E i \in DOMAIN up : up[i] # "debug")
    /\ UNCHANGED <<hdr, bx, cl, di, mem, rx, down, hostPtr, throttled, resets>>

IsReply(byte) ==
    byte.kind = "reply" \/ (byte.kind = "img" /\ byte.k \in ReplyBytes)

\* MUTANT of ReceiveReply: the header is appended to one received before a reset.
ReceiveReplyKeepsHeader ==
    /\ pc = "reply"
    /\ Receive
    /\ pc' = IF IsReply(Head(rx)) THEN "header" ELSE "hang"
    /\ UNCHANGED <<hdr, bx, cl, di, mem, up, line>>

ReceiveReply ==
    /\ pc = "reply"
    /\ Receive
    /\ pc' = IF IsReply(Head(rx)) THEN "header" ELSE "hang"
    /\ hdr' = <<>>
    /\ UNCHANGED <<bx, cl, di, mem, up, line>>

ReceiveHeader ==
    /\ pc = "header" /\ pc' = "echo"
    /\ Receive
    /\ hdr' = Append(hdr, Head(rx))
    /\ UNCHANGED <<bx, cl, di, mem, up, line>>

\* Each header byte is printed before the next is polled for.
EchoHeader ==
    /\ pc = "echo"
    /\ Send("debug")
    /\ pc' = IF Len(hdr) < HeaderSize THEN "header" ELSE "image"
    /\ UNCHANGED <<hdr, bx, cl, di, mem, rx, line>>

\* bt_kern_size as received: the host's word, or whatever other bytes make of it.
SizeField == IF hdr = Header THEN {Size % WordSize} ELSE 0..WordSize-1

\* MUTANT of StartImage: DI is not cleared.
StartImageKeepsDi ==
    /\ pc = "image" /\ pc' = "next"
    /\ Send("debug")
    /\ \E size \in SizeField : bx' = size \div Block
    /\ UNCHANGED <<hdr, cl, di, mem, rx, line>>

StartImage ==
    /\ pc = "image" /\ pc' = "next"
    /\ Send("debug")
    /\ di' = 0
    /\ \E size \in SizeField : bx' = size \div Block
    /\ UNCHANGED <<hdr, cl, mem, rx, line>>

\* MUTANT of NextBlock: every block is stored at the start.
NextBlockRewinds ==
    /\ pc = "next" /\ pc' = "block"
    /\ Send("next")
    /\ cl' = Block /\ di' = 0
    /\ UNCHANGED <<hdr, bx, mem, rx, line>>

\* MUTANT of NextBlock: only the first block is asked for.
NextBlockAskedOnce ==
    /\ pc = "next" /\ pc' = "block"
    /\ IF di = 0 THEN Send("next") ELSE UNCHANGED up
    /\ cl' = Block
    /\ UNCHANGED <<hdr, bx, di, mem, rx, line>>

NextBlock ==
    /\ pc = "next" /\ pc' = "block"
    /\ Send("next")
    /\ cl' = Block
    /\ UNCHANGED <<hdr, bx, di, mem, rx, line>>

\* MUTANT of ReceiveImage: BX is tested before it is decremented.
ReceiveImageExtraBlock ==
    /\ pc = "block"
    /\ Receive
    /\ mem' = [mem EXCEPT ![di] = Head(rx)]
    /\ di' = (di + 1) % WordSize
    /\ cl' = cl - 1
    /\ bx' = IF cl' = 0 THEN (bx - 1) % WordSize ELSE bx
    /\ pc' = IF cl' # 0 THEN "block" ELSE IF bx # 0 THEN "next" ELSE "jump"
    /\ UNCHANGED <<hdr, up, line>>

\* stosb at ES:DI; both loops test their counter after decrementing it.
ReceiveImage ==
    /\ pc = "block"
    /\ Receive
    /\ mem' = [mem EXCEPT ![di] = Head(rx)]
    /\ di' = (di + 1) % WordSize
    /\ cl' = cl - 1
    /\ bx' = IF cl' = 0 THEN (bx - 1) % WordSize ELSE bx
    /\ pc' = IF cl' # 0 THEN "block" ELSE IF bx' # 0 THEN "next" ELSE "jump"
    /\ UNCHANGED <<hdr, up, line>>

Jump ==
    /\ pc = "jump" /\ pc' = "running"
    /\ UNCHANGED <<hdr, bx, cl, di, mem, rx, up, line>>

\* The machine is reset: memory and the line keep what they hold, the UART may.
Reset ==
    /\ resets < MaxResets[throttled] /\ resets' = resets + 1
    /\ pc # "running" /\ pc' = "start"
    /\ rx' \in {rx, <<>>}
    /\ UNCHANGED <<hdr, bx, cl, di, mem, down, up, hostPtr, throttled, dirty>>

-----------------------------------------------------------------------------
(* The host: it prints debug packets, answers a read request with the      *)
(* reply type, the header and its position back at the first byte, and a   *)
(* next request with one block from that position, which it does not check *)
(* against the end of the file.                                            *)

BlockFrom(p) == [k \in 1..Block |-> Byte("img", p + k - 1)]

Host ==
    /\ up # <<>>
    /\ up' = Tail(up)
    /\ \/ Head(up) = "debug" /\ UNCHANGED <<down, hostPtr>>
       \/ /\ Head(up) = "read"
          /\ down' = down \o <<Byte("reply", 0)>> \o Header
          /\ hostPtr' = 0
       \/ /\ Head(up) = "next"
          /\ down' = down \o BlockFrom(hostPtr)
          /\ hostPtr' = hostPtr + Block
    /\ UNCHANGED <<pc, hdr, bx, cl, di, mem, rx, throttled, resets, dirty>>

-----------------------------------------------------------------------------
Loader == \/ Banner \/ Request \/ ReceiveReply \/ ReceiveHeader \/ EchoHeader
          \/ StartImage \/ NextBlock \/ ReceiveImage \/ Jump

\* The image runs, or kLoadImage returned and the boot record halts.
Finished == pc \in {"running", "hang"} /\ UNCHANGED vars

Next == Loader \/ Arrive \/ Host \/ Reset \/ Finished

Spec == Init /\ [][Next]_vars

\* The loader polls, the line delivers and the host reads: none of them stops.
FairSpec == Spec /\ WF_vars(Loader) /\ WF_vars(Arrive) /\ WF_vars(Host)

-----------------------------------------------------------------------------
(* Properties *)

\* The type of every variable.
TypeOK ==
    /\ pc \in Labels /\ hdr \in Seq(Bytes) /\ Len(hdr) <= HeaderSize
    /\ bx \in 0..WordSize-1 /\ cl \in 0..Block /\ di \in 0..WordSize-1
    /\ mem \in [0..WordSize-1 -> Bytes]
    /\ rx \in Seq(Bytes) /\ Len(rx) <= RxDepth /\ down \in Seq(Bytes)
    /\ up \in Seq(Packets) /\ Len(up) <= LineDepth
    /\ hostPtr \in Nat /\ throttled \in Throttled /\ resets \in 0..MaxResets[throttled] /\ dirty \in BOOLEAN

WholeImage ==
    /\ hdr = Header
    /\ \A k \in 0..Size-1 : k \in DOMAIN mem /\ mem[k] = Byte("img", k)

\* If the loader's last request for the image went out with nothing of an earlier answer
\* on the line or still to be sent, what it enters is the image with every byte in
\* place, overruns included: a byte is counted when it is stored, and the host sends
\* only on request, so a lost byte stops the loader instead of shifting the rest.  So
\* it is without resets, and after one that interrupted no answer; one that did
\* leaves the request dirty, the loader drains nothing before it (bl_boot.asm:85), and
\* of that the property says nothing: what is then entered may be wrong.
EntersOnlyWholeImage ==
    pc \in {"jump", "running"} /\ ~dirty => WholeImage

\* The loader never asks for a block past the end of the file, which the host
\* would read out of its own memory (but for a dirty request: with an image byte
\* taken for the size it would).
HostStaysInFile ==
    pc \in {"next", "block", "jump", "running"} /\ ~dirty => hostPtr <= Size

\* On a line that waits for the UART loading implements the abstract transfer,
\* resets included: no byte is stored out of order or twice, unless the request went
\* out dirty.  (A lost byte may misplace the rest of its block, in an image that is
\* never entered: EntersOnlyWholeImage.)
Transfer == INSTANCE ImageTransfer WITH
    got     <- IF throttled /\ ~dirty /\ pc \in {"next", "block", "jump", "running"}
               THEN [k \in 1..di |-> mem[k - 1].k] ELSE <<>>,
    entered <- throttled /\ ~dirty /\ pc = "running"

TransferSpec == Transfer!Spec

\* const.inc:22-24 gives a "kernel equal or greater than 32k" the addresses
\* 010000..08FFFF, 512k: whatever its size, what is entered is the whole kernel.
LargeKernelsLoad == pc = "running" => WholeImage

\* On a line that waits for the UART, loading ends with the image running, if need
\* be after resets, unless a request went out dirty.
Boots == throttled => <>(pc = "running" \/ dirty)
=============================================================================
