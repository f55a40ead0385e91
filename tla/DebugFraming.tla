--------------------------- MODULE DebugFraming ---------------------------
(***************************************************************************)
(* Debug packets, byte by byte, from the two senders (debug.inc and        *)
(* debug32.inc of the loader; kdSendLf, kdSendStr and kdSendKString of     *)
(* vkern.cpp) through the transmitter's one-byte register to the host.     *)
(* The host is not part of the sources: it takes packets apart as their    *)
(* formats in debug.inc and vkern.cpp say.                                 *)
(*                                                                         *)
(* Bytes are numbers; a character of a unicode string is a pair of them.   *)
(***************************************************************************)
EXTENDS Integers, Sequences

CONSTANTS
    LoaderMessages, KernelMessages,     \* what the two may say: [kind, data]
    Following,      \* the bytes behind a string in the loader's image
    MaxMessages     \* bound: messages sent

ASSUME FramingAssumption ==
    /\ Following \in Seq(Nat) /\ Following # <<>> /\ Following[Len(Following)] = 0
    /\ MaxMessages \in Nat

VARIABLES
    stage,          \* who runs: the loader in "real" or "protected" mode, the "kernel"
    dbgbuf16, dbgbuf32,     \* the loader's packet buffers, with what they had before
    pc,             \* "idle", "type", "buffer" (until length and zero), "bytes"
    source, cx,     \* the bytes at SI, the least number to send
    thr,            \* the transmitter's holding register
    packet,         \* the host: bytes of the packet being received
    sent, seen      \* history: messages begun, messages the host has taken

vars == <<stage, dbgbuf16, dbgbuf32, pc, source, cx, thr, packet, sent, seen>>

DBG_LF == 10
DBG_BYTE == 31
DBG_WORD == 32
DBG_DWORD == 34
DBG_ASTR == 41
DBG_WSTR == 42
DBG_END == 0

TypeByte == [lf |-> DBG_LF, byte |-> DBG_BYTE, word |-> DBG_WORD, dword |-> DBG_DWORD,
             char |-> DBG_ASTR, str |-> DBG_ASTR, kstring |-> DBG_WSTR]

Init ==
    /\ stage = "real" /\ pc = "idle"
    /\ dbgbuf16 = [k \in 1..8 |-> 3] /\ dbgbuf32 = [k \in 1..12 |-> 3]
    /\ source = <<>> /\ cx = 0 /\ thr = <<>>
    /\ packet = <<>> /\ sent = <<>> /\ seen = <<>>

-----------------------------------------------------------------------------
(* The loader *)

Begins(m, messages) ==
    /\ pc = "idle" /\ Len(sent) < MaxMessages
    /\ m \in messages
    /\ sent' = Append(sent, m)

\* MUTANT of Packed: the end of the packet is not stored.
PackedUnended(m, buf) ==
    LET bytes == <<TypeByte[m.kind]>> \o m.data
    IN bytes \o SubSeq(buf, Len(bytes) + 1, Len(buf))

\* A packet over what the buffer had: type, data, end.
Packed(m, buf) ==
    LET bytes == <<TypeByte[m.kind]>> \o m.data \o <<DBG_END>>
    IN bytes \o SubSeq(buf, Len(bytes) + 1, Len(buf))

\* kDbgLf, kDbgByte, kDbgWord, kDbgDword, kDbgChar: put together in the buffer and
\* sent from there.
DbgPacket(m) ==
    /\ stage = "real" /\ m.kind \in {"lf", "byte", "word", "dword", "char"}
    /\ Begins(m, LoaderMessages)
    /\ dbgbuf16' = Packed(m, dbgbuf16)
    /\ source' = dbgbuf16' /\ cx' = Len(m.data) + 2 /\ pc' = "buffer"
    /\ UNCHANGED <<stage, dbgbuf32, thr, packet, seen>>

\* kDbgLf32, kDbgWord32, kDbgDword32, kDbgChar32 (nothing calls kDbgByte32).
DbgPacket32(m) ==
    /\ stage = "protected" /\ m.kind \in {"lf", "word", "dword", "char"}
    /\ Begins(m, LoaderMessages)
    /\ dbgbuf32' = Packed(m, dbgbuf32)
    /\ source' = dbgbuf32' /\ cx' = Len(m.data) + 2 /\ pc' = "buffer"
    /\ UNCHANGED <<stage, dbgbuf16, thr, packet, seen>>

\* kDbgStr, kDbgStr32: the type by itself, then from the string's own place at least two bytes.
DbgStr(m) ==
    /\ stage # "kernel" /\ m.kind = "str"
    /\ Begins(m, LoaderMessages)
    /\ source' = m.data \o <<DBG_END>> \o Following
    /\ cx' = 2 /\ pc' = "type"
    /\ UNCHANGED <<stage, dbgbuf16, dbgbuf32, thr, packet, seen>>

\* MUTANT of TransferByte: the transmitter is not waited for.
TransferByteAtOnce(b) == thr' = <<b>>

\* kSerialPortTransferByte: wait for the transmitter, write.
TransferByte(b) == thr = <<>> /\ thr' = <<b>>

\* The type of a string's packet.
SendType ==
    /\ pc = "type" /\ TransferByte(TypeByte[sent[Len(sent)].kind])
    /\ pc' = IF stage = "kernel" THEN "bytes" ELSE "buffer"
    /\ UNCHANGED <<stage, dbgbuf16, dbgbuf32, source, cx, packet, sent, seen>>

\* MUTANT of SendBuffer: the first zero ends it.
SendBufferToZero ==
    /\ pc = "buffer" /\ TransferByte(Head(source))
    /\ source' = Tail(source) /\ cx' = cx - 1
    /\ pc' = IF Head(source) # 0 THEN "buffer" ELSE "idle"
    /\ UNCHANGED <<stage, dbgbuf16, dbgbuf32, packet, sent, seen>>

\* One turn of kSerialPortTransferBuffer: on to the least number of bytes, and to a zero.
SendBuffer ==
    /\ pc = "buffer" /\ TransferByte(Head(source))
    /\ source' = Tail(source) /\ cx' = cx - 1
    /\ pc' = IF cx' > 0 \/ Head(source) # 0 THEN "buffer" ELSE "idle"
    /\ UNCHANGED <<stage, dbgbuf16, dbgbuf32, packet, sent, seen>>

-----------------------------------------------------------------------------
(* The kernel, and the way to it *)

\* The loader goes on to protected mode and to the kernel between messages.
Advance ==
    /\ pc = "idle"
    /\ \/ stage = "real" /\ stage' = "protected"
       \/ stage = "protected" /\ stage' = "kernel"
    /\ UNCHANGED <<dbgbuf16, dbgbuf32, pc, source, cx, thr, packet, sent, seen>>

\* kdSendLf: two bytes of a buffer of its own.
kdSendLf(m) ==
    /\ stage = "kernel" /\ m.kind = "lf"
    /\ Begins(m, KernelMessages)
    /\ source' = <<DBG_LF, DBG_END>> /\ pc' = "bytes"
    /\ UNCHANGED <<stage, dbgbuf16, dbgbuf32, cx, thr, packet, seen>>

\* MUTANT of kdSendStr: an empty string's packet is not padded.
kdSendStrUnpadded(m) ==
    /\ stage = "kernel" /\ m.kind = "str"
    /\ Begins(m, KernelMessages)
    /\ source' = m.data \o <<DBG_END>>
    /\ pc' = "type"
    /\ UNCHANGED <<stage, dbgbuf16, dbgbuf32, cx, thr, packet, seen>>

\* kdSendStr: the characters and their zero, and one more behind an empty string.
kdSendStr(m) ==
    /\ stage = "kernel" /\ m.kind = "str"
    /\ Begins(m, KernelMessages)
    /\ source' = m.data \o <<DBG_END>> \o (IF m.data = <<>> THEN <<DBG_END>> ELSE <<>>)
    /\ pc' = "type"
    /\ UNCHANGED <<stage, dbgbuf16, dbgbuf32, cx, thr, packet, seen>>

\* kdSendKString: strLen pairs (at least one: the counter is tested after it is
\* decremented), a zero pair and the end.
kdSendKString(m) ==
    /\ stage = "kernel" /\ m.kind = "kstring" /\ m.data # <<>>
    /\ Begins(m, KernelMessages)
    /\ source' = m.data \o <<0, 0, DBG_END>>
    /\ pc' = "type"
    /\ UNCHANGED <<stage, dbgbuf16, dbgbuf32, cx, thr, packet, seen>>

\* kSerialPortTransferBuffer of serial.cpp, and the loops over TransferByte.
SendBytes ==
    /\ pc = "bytes" /\ TransferByte(Head(source))
    /\ source' = Tail(source)
    /\ pc' = IF source' # <<>> THEN "bytes" ELSE "idle"
    /\ UNCHANGED <<stage, dbgbuf16, dbgbuf32, cx, packet, sent, seen>>

-----------------------------------------------------------------------------
(* The host *)

\* Whether the bytes received make a packet.
Complete(bytes) ==
    LET n == Len(bytes) IN
    \/ bytes[1] = DBG_LF /\ n = 2
    \/ bytes[1] = DBG_BYTE /\ n = 3
    \/ bytes[1] = DBG_WORD /\ n = 4
    \/ bytes[1] = DBG_DWORD /\ n = 6
    \/ bytes[1] = DBG_ASTR /\ n >= 3 /\ bytes[n] = 0
    \/ /\ bytes[1] = DBG_WSTR /\ n >= 4 /\ n % 2 = 0
       /\ bytes[n] = 0 /\ bytes[n - 1] = 0 /\ bytes[n - 2] = 0

Payload(bytes) ==
    LET data == SubSeq(bytes, 2, Len(bytes) - 1) IN
    CASE bytes[1] = DBG_ASTR /\ data = <<0>> -> <<>>
      [] bytes[1] = DBG_WSTR -> SubSeq(data, 1, Len(data) - 2)
      [] OTHER -> data

\* What a message looks like to the host: a type and its data.
Shown(m) == [type |-> TypeByte[m.kind], data |-> m.data]

HostByte ==
    /\ thr # <<>> /\ thr' = <<>>
    /\ LET bytes == packet \o thr IN
       IF Complete(bytes)
       THEN /\ seen' = Append(seen, [type |-> bytes[1], data |-> Payload(bytes)])
            /\ packet' = <<>>
       ELSE packet' = bytes /\ UNCHANGED seen
    /\ UNCHANGED <<stage, dbgbuf16, dbgbuf32, pc, source, cx, sent>>

-----------------------------------------------------------------------------

Sender ==
    \/ \E m \in LoaderMessages : DbgPacket(m) \/ DbgPacket32(m) \/ DbgStr(m)
    \/ \E m \in KernelMessages : kdSendLf(m) \/ kdSendStr(m) \/ kdSendKString(m)
    \/ SendType \/ SendBuffer \/ SendBytes

\* Every message has been sent, or the sender has none at the moment.
Silent == pc = "idle" /\ thr = <<>> /\ UNCHANGED vars

Next == Sender \/ Advance \/ HostByte \/ Silent

Spec == Init /\ [][Next]_vars

\* A begun packet is sent to its end, polling; the line carries every byte away.
FairSpec == Spec /\ WF_vars(SendType \/ SendBuffer \/ SendBytes) /\ WF_vars(HostByte)

-----------------------------------------------------------------------------
(* What the callers send *)

Sizes == [lf |-> 0, byte |-> 1, word |-> 2, dword |-> 4, char |-> 1]

\* Numbers have the size of their kind and text holds no zero: in a unicode string
\* no zero pair.
Sound(m) ==
    /\ m.kind \in DOMAIN TypeByte /\ m.data \in Seq(Nat)
    /\ m.kind \in DOMAIN Sizes => Len(m.data) = Sizes[m.kind]
    /\ m.kind \in {"char", "str"} => \A k \in 1..Len(m.data) : m.data[k] # 0
    /\ m.kind = "kstring" =>
          \E n \in 1..Len(m.data) : /\ Len(m.data) = 2 * n
                                    /\ \A k \in 1..n : m.data[2 * k - 1] # 0 \/ m.data[2 * k] # 0

\* The loader's strings, constants of its image, are not empty either: behind the
\* zero of an empty one SendBuffer would go on into what follows it.
MessagesSound ==
    /\ \A m \in LoaderMessages \cup KernelMessages : Sound(m)
    /\ \A m \in LoaderMessages : m.kind = "str" => m.data # <<>>

-----------------------------------------------------------------------------
(* Refinement of the channel *)

\* A message begun and one shown are steps of the channel; every byte between, and
\* the loader going on, is none.
Channel == INSTANCE MessageChannel WITH
    Messages <- {Shown(m) : m \in LoaderMessages \cup KernelMessages},
    Room <- 2,
    sent <- [n \in DOMAIN sent |-> Shown(sent[n])],
    shown <- seen

-----------------------------------------------------------------------------
(* Properties *)

\* The type of every variable.
TypeOK ==
    /\ stage \in {"real", "protected", "kernel"} /\ pc \in {"idle", "type", "buffer", "bytes"}
    /\ dbgbuf16 \in [1..8 -> Nat] /\ dbgbuf32 \in [1..12 -> Nat]
    /\ source \in Seq(Nat) /\ cx \in Int
    /\ pc \in {"buffer", "bytes"} => source # <<>>
    /\ thr \in Seq(Nat) /\ Len(thr) <= 1 /\ packet \in Seq(Nat)
    /\ sent \in Seq(LoaderMessages \cup KernelMessages)
    /\ seen \in Seq([type : Nat, data : Seq(Nat)])

\* The host shows the messages that were sent, in order, and nothing else: no
\* data byte, whatever its value, ends a packet or starts one, and none is lost.
ShowsWhatWasSent ==
    /\ Len(seen) <= Len(sent)
    /\ \A n \in DOMAIN seen : seen[n] = Shown(sent[n])

\* The two ends and the line make a channel: the host takes one message at a time, the
\* next in order, and what was begun or shown stays as it was; no sender (its last
\* byte may still be in the transmitter) is more than two messages ahead of it.
IsChannel == Channel!Spec

\* Between messages the two ends agree where a packet starts: with the line empty
\* the host has shown them all and waits for a type byte.
InStep == pc = "idle" /\ thr = <<>> => packet = <<>> /\ Len(seen) = Len(sent)

\* Every message is shown.
EachIsShown == \A n \in 1..MaxMessages : (Len(sent) >= n) ~> (Len(seen) >= n)
=============================================================================
