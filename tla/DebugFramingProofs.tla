------------------------- MODULE DebugFramingProofs -------------------------
(***************************************************************************)
(* Proofs about DebugFraming, for every set of messages as the callers     *)
(* send them, data and strings of any values, and any number of messages.  *)
(***************************************************************************)
EXTENDS DebugFraming, SequenceTheorems, TLAPS

-----------------------------------------------------------------------------
(* The inductive invariant *)

\* How many bytes stand behind the data of a message.
Ending(m) == CASE m.kind = "kstring"                   -> 3
               [] m.kind = "str" /\ m.data = <<>>      -> 2
               [] OTHER                                -> 1

WireSize(m) == 1 + Len(m.data) + Ending(m)

\* The bytes of a message on the wire, in their order.
Wire(m) ==
    [k \in 1..WireSize(m) |->
        IF k = 1 THEN TypeByte[m.kind] ELSE IF k - 1 <= Len(m.data) THEN m.data[k - 1] ELSE 0]

\* The host is receiving this message, or waits for it.
Due == sent[Len(seen) + 1]

\* The message the sender is at.
Current == sent[Len(sent)]

\* The bytes the sender has yet to write: of the message it is at, all but this many.
Written == IF Len(sent) = Len(seen) + 1 THEN Len(packet) + Len(thr) ELSE 0
ToWrite == WireSize(Current) - Written

\* What lies at SI is what has to be written next.
SenderInv ==
    /\ pc = "type" => Written = 0 /\ \A k \in 1..ToWrite-1 : source[k] = Wire(Current)[k + 1]
    /\ pc \in {"buffer", "bytes"} =>
          ToWrite > 0 /\ \A k \in 1..ToWrite : source[k] = Wire(Current)[Written + k]
    /\ pc = "type" => Current.kind \in {"str", "kstring"}
    /\ pc = "type" /\ stage # "kernel" =>
          Len(source) >= ToWrite - 1 /\ Current.kind = "str" /\ Current.data # <<>> /\ cx = 2
    /\ pc = "type" /\ stage = "kernel" => Len(source) = ToWrite - 1
    /\ pc = "bytes" => Len(source) = ToWrite
    /\ pc = "buffer" =>
          /\ Len(source) >= ToWrite /\ cx <= ToWrite
          /\ cx = ToWrite \/ (Current.kind = "str" /\ Current.data # <<>> /\ Written > 0)

\* The host has an initial part of the message it receives; the transmitter holds
\* the byte that follows.  Only the last byte of a message may still be there when
\* the next is begun.
HostInv ==
    /\ Len(sent) - Len(seen) \in 0..2
    /\ Len(seen) = Len(sent) => pc = "idle" /\ packet = <<>> /\ thr = <<>>
    /\ Len(seen) < Len(sent) =>
          /\ Len(packet) < WireSize(Due)
          /\ \A k \in 1..Len(packet) : packet[k] = Wire(Due)[k]
          /\ thr # <<>> => thr[1] = Wire(Due)[Len(packet) + 1]
    /\ Len(seen) = Len(sent) - 1 /\ pc = "idle" => thr # <<>> /\ Len(packet) + 1 = WireSize(Due)
    /\ Len(seen) = Len(sent) - 2 => pc # "idle" /\ thr # <<>> /\ Len(packet) + 1 = WireSize(Due)

FramingInv ==
    TypeOK /\ SenderInv /\ HostInv /\ ShowsWhatWasSent

-----------------------------------------------------------------------------
(* Sequences of bytes *)

LEMMA Joined ==
    ASSUME NEW a \in Seq(Nat), NEW b \in Seq(Nat), NEW c, c = a \o b
    PROVE  /\ c \in Seq(Nat) /\ Len(c) = Len(a) + Len(b)
           /\ \A k \in 1..Len(a) : c[k] = a[k]
           /\ \A k \in 1..Len(b) : c[Len(a) + k] = b[k]
<1>1. /\ c \in Seq(Nat) /\ Len(c) = Len(a) + Len(b)
      /\ \A k \in 1..Len(a)+Len(b) : c[k] = IF k <= Len(a) THEN a[k] ELSE b[k - Len(a)]
  BY ConcatProperties
<1>2. Len(a) \in Nat /\ Len(b) \in Nat
  OBVIOUS
<1>3. ASSUME NEW k \in 1..Len(a) PROVE c[k] = a[k]
  <2>1. k \in 1..Len(a)+Len(b) /\ k <= Len(a)
    BY <1>2
  <2>. QED BY <1>1, <2>1
<1>4. ASSUME NEW k \in 1..Len(b) PROVE c[Len(a) + k] = b[k]
  <2>1. Len(a) + k \in 1..Len(a)+Len(b) /\ ~(Len(a) + k <= Len(a)) /\ Len(a) + k - Len(a) = k
    BY <1>2
  <2>. QED BY <1>1, <2>1
<1>. QED BY <1>1, <1>3, <1>4

LEMMA JoinedThrice ==
    ASSUME NEW a \in Seq(Nat), NEW b \in Seq(Nat), NEW c \in Seq(Nat)
    PROVE  (a \o b) \o c = a \o (b \o c)
BY ConcatAssociative

LEMMA OneByte ==
    ASSUME NEW b \in Nat
    PROVE  <<b>> \in Seq(Nat) /\ Len(<<b>>) = 1 /\ <<b>>[1] = b /\ <<b>> # <<>>
OBVIOUS

LEMMA TypeBytes ==
    /\ \A kind \in DOMAIN TypeByte : TypeByte[kind] \in Nat
    /\ \A kind \in {"lf", "byte", "word", "dword", "char", "str", "kstring"} : kind \in DOMAIN TypeByte
    /\ TypeByte["lf"] = DBG_LF /\ TypeByte["byte"] = DBG_BYTE /\ TypeByte["word"] = DBG_WORD
    /\ TypeByte["dword"] = DBG_DWORD /\ TypeByte["char"] = DBG_ASTR /\ TypeByte["str"] = DBG_ASTR
    /\ TypeByte["kstring"] = DBG_WSTR
BY DEF TypeByte, DBG_LF, DBG_BYTE, DBG_WORD, DBG_DWORD, DBG_ASTR, DBG_WSTR

\* The kinds and the sizes of their data.
LEMMA Kinds ==
    ASSUME NEW m, Sound(m)
    PROVE  /\ m.kind \in {"lf", "byte", "word", "dword", "char", "str", "kstring"}
           /\ m.data \in Seq(Nat) /\ Len(m.data) \in Nat /\ TypeByte[m.kind] \in Nat
           /\ m.kind = "lf" => Len(m.data) = 0
           /\ m.kind = "byte" => Len(m.data) = 1
           /\ m.kind = "word" => Len(m.data) = 2
           /\ m.kind = "dword" => Len(m.data) = 4
           /\ m.kind = "char" => Len(m.data) = 1
           /\ m.kind = "kstring" => Len(m.data) >= 2
<1>1. m.kind \in DOMAIN TypeByte /\ m.data \in Seq(Nat)
  BY DEF Sound
<1>2. m.kind \in {"lf", "byte", "word", "dword", "char", "str", "kstring"}
  BY <1>1 DEF TypeByte
<1>3. /\ m.kind = "lf" => Len(m.data) = 0
      /\ m.kind = "byte" => Len(m.data) = 1
      /\ m.kind = "word" => Len(m.data) = 2
      /\ m.kind = "dword" => Len(m.data) = 4
      /\ m.kind = "char" => Len(m.data) = 1
  <2>1. \A kind \in {"lf", "byte", "word", "dword", "char"} : kind \in DOMAIN Sizes
    BY DEF Sizes
  <2>2. /\ Sizes["lf"] = 0 /\ Sizes["byte"] = 1 /\ Sizes["word"] = 2 /\ Sizes["dword"] = 4
        /\ Sizes["char"] = 1
    BY DEF Sizes
  <2>3. m.kind \in DOMAIN Sizes => Len(m.data) = Sizes[m.kind]
    BY DEF Sound
  <2>. QED BY <2>1, <2>2, <2>3
<1>4. m.kind = "kstring" => Len(m.data) >= 2
  BY <1>1 DEF Sound
<1>. QED BY <1>1, <1>2, <1>3, <1>4, TypeBytes

\* The bytes of a message.
LEMMA WireFacts ==
    ASSUME NEW m, Sound(m)
    PROVE  /\ Ending(m) \in 1..3 /\ WireSize(m) \in Nat /\ WireSize(m) = 1 + Len(m.data) + Ending(m)
           /\ Wire(m)[1] = TypeByte[m.kind]
           /\ \A k \in 1..Len(m.data) : Wire(m)[k + 1] = m.data[k]
           /\ \A k \in Len(m.data)+2..WireSize(m) : Wire(m)[k] = 0
           /\ \A k \in 1..WireSize(m) : Wire(m)[k] \in Nat
<1>1. Len(m.data) \in Nat /\ m.data \in Seq(Nat) /\ TypeByte[m.kind] \in Nat
  BY Kinds
<1>2. Ending(m) \in 1..3
  BY DEF Ending
<1>3. WireSize(m) \in Nat /\ WireSize(m) = 1 + Len(m.data) + Ending(m)
  BY <1>1, <1>2 DEF WireSize
<1>4. \A k \in 1..WireSize(m) :
         Wire(m)[k] = IF k = 1 THEN TypeByte[m.kind] ELSE IF k - 1 <= Len(m.data) THEN m.data[k - 1] ELSE 0
  BY DEF Wire
<1>5. 1 \in 1..WireSize(m)
  BY <1>1, <1>2, <1>3
<1>6. ASSUME NEW k \in 1..Len(m.data) PROVE Wire(m)[k + 1] = m.data[k]
  <2>1. k + 1 \in 1..WireSize(m) /\ k + 1 # 1 /\ k + 1 - 1 <= Len(m.data) /\ k + 1 - 1 = k
    BY <1>1, <1>2, <1>3
  <2>. QED BY <1>4, <2>1
<1>7. ASSUME NEW k \in Len(m.data)+2..WireSize(m) PROVE Wire(m)[k] = 0
  <2>1. k \in 1..WireSize(m) /\ k # 1 /\ ~(k - 1 <= Len(m.data))
    BY <1>1, <1>2, <1>3
  <2>. QED BY <1>4, <2>1
<1>8. ASSUME NEW k \in 1..WireSize(m) PROVE Wire(m)[k] \in Nat
  <2>1. CASE k = 1
    BY <1>1, <1>4, <2>1
  <2>2. CASE k # 1 /\ k - 1 <= Len(m.data)
    <3>1. k - 1 \in 1..Len(m.data)
      BY <1>1, <1>3, <2>2
    <3>2. m.data[k - 1] \in Nat
      BY <1>1, <3>1
    <3>. QED BY <1>4, <2>2, <3>2
  <2>3. CASE k # 1 /\ ~(k - 1 <= Len(m.data))
    BY <1>4, <2>3
  <2>. QED BY <2>1, <2>2, <2>3
<1>. QED BY <1>2, <1>3, <1>4, <1>5, <1>6, <1>7, <1>8

-----------------------------------------------------------------------------
(* The host *)

\* When the bytes received make a packet, type by type.
LEMMA CompleteByType ==
    ASSUME NEW b, NEW n \in Nat, n = Len(b)
    PROVE  /\ b[1] = DBG_LF => (Complete(b) <=> n = 2)
           /\ b[1] = DBG_BYTE => (Complete(b) <=> n = 3)
           /\ b[1] = DBG_WORD => (Complete(b) <=> n = 4)
           /\ b[1] = DBG_DWORD => (Complete(b) <=> n = 6)
           /\ b[1] = DBG_ASTR => (Complete(b) <=> n >= 3 /\ b[n] = 0)
           /\ b[1] = DBG_WSTR => (Complete(b) <=> /\ n >= 4 /\ n % 2 = 0
                                                 /\ b[n] = 0 /\ b[n - 1] = 0 /\ b[n - 2] = 0)
BY DEF Complete, DBG_LF, DBG_BYTE, DBG_WORD, DBG_DWORD, DBG_ASTR, DBG_WSTR

\* Of the initial parts of a message's bytes only the whole makes a packet.
LEMMA OnlyWholeComplete ==
    ASSUME NEW m, Sound(m), NEW b \in Seq(Nat), Len(b) \in 1..WireSize(m),
           \A k \in 1..Len(b) : b[k] = Wire(m)[k]
    PROVE  Complete(b) <=> Len(b) = WireSize(m)
<1>. DEFINE n == Len(b)
            d == Len(m.data)
<1>data. /\ m.data \in Seq(Nat) /\ n = Len(b)
         /\ m.kind = "lf" => d = 0
         /\ m.kind = "byte" => d = 1
         /\ m.kind = "word" => d = 2
         /\ m.kind = "dword" => d = 4
         /\ m.kind = "char" => d = 1
         /\ m.data # <<>> => d # 0
         /\ d = 0 => m.data = <<>>
  BY Kinds, EmptySeq
<1>1. /\ m.kind \in {"lf", "byte", "word", "dword", "char", "str", "kstring"} /\ d \in Nat
      /\ WireSize(m) = 1 + d + Ending(m) /\ Ending(m) \in 1..3 /\ n \in Nat /\ n >= 1 /\ n <= WireSize(m)
  BY Kinds, WireFacts
<1>2. 1 \in 1..n /\ b[1] = TypeByte[m.kind]
  BY <1>1, WireFacts
<1>bytes. /\ \A k \in 1..n : b[k] = Wire(m)[k]
          /\ \A k \in 1..d : Wire(m)[k + 1] = m.data[k]
          /\ \A k \in d+2..WireSize(m) : Wire(m)[k] = 0
  BY WireFacts
<1>text. m.kind \in {"char", "str"} => \A k \in 1..d : m.data[k] # 0
  BY DEF Sound
<1>pairs. m.kind = "kstring" =>
         \E p \in 1..d : d = 2 * p /\ \A k \in 1..p : m.data[2 * k - 1] # 0 \/ m.data[2 * k] # 0
  BY DEF Sound
<1>. HIDE DEF n, d
<1>3. \A k \in 1..d : k + 1 <= n => b[k + 1] = m.data[k]
  <2>. SUFFICES ASSUME NEW k \in 1..d, k + 1 <= n PROVE b[k + 1] = m.data[k]
    OBVIOUS
  <2>1. k + 1 \in 1..n
    BY <1>1
  <2>. QED BY <1>bytes, <2>1
<1>4. \A k \in d+2..n : b[k] = 0
  <2>. SUFFICES ASSUME NEW k \in d+2..n PROVE b[k] = 0
    OBVIOUS
  <2>1. k \in 1..n /\ k \in d+2..WireSize(m)
    BY <1>1
  <2>. QED BY <1>bytes, <2>1
<1>5. CASE m.kind \in {"lf", "byte", "word", "dword"}
  <2>1. Ending(m) = 1
    BY <1>5 DEF Ending
  <2>2. CASE m.kind = "lf"
    <3>1. b[1] = DBG_LF /\ WireSize(m) = 2
      BY <1>data, <1>1, <1>2, <2>1, <2>2, TypeBytes
    <3>. QED BY <1>data, <1>1, <3>1, CompleteByType
  <2>3. CASE m.kind = "byte"
    <3>1. b[1] = DBG_BYTE /\ WireSize(m) = 3
      BY <1>data, <1>1, <1>2, <2>1, <2>3, TypeBytes
    <3>. QED BY <1>data, <1>1, <3>1, CompleteByType
  <2>4. CASE m.kind = "word"
    <3>1. b[1] = DBG_WORD /\ WireSize(m) = 4
      BY <1>data, <1>1, <1>2, <2>1, <2>4, TypeBytes
    <3>. QED BY <1>data, <1>1, <3>1, CompleteByType
  <2>5. CASE m.kind = "dword"
    <3>1. b[1] = DBG_DWORD /\ WireSize(m) = 6
      BY <1>data, <1>1, <1>2, <2>1, <2>5, TypeBytes
    <3>. QED BY <1>data, <1>1, <3>1, CompleteByType
  <2>. QED BY <1>5, <2>2, <2>3, <2>4, <2>5
<1>6. CASE m.kind \in {"char", "str"}
  <2>1. Complete(b) <=> n >= 3 /\ b[n] = 0
    BY SMTT(30), <1>data, <1>1, <1>2, <1>6, TypeBytes, CompleteByType
  <2>2. \A k \in 1..d : m.data[k] # 0
    BY <1>6, <1>text
  <2>3. CASE d = 0
    <3>1. m.data = <<>> /\ m.kind = "str"
      BY <1>data, <1>6, <2>3
    <3>2. Ending(m) = 2
      BY <3>1 DEF Ending
    <3>3. n >= 3 => b[n] = 0
      BY <1>1, <1>4, <2>3
    <3>4. WireSize(m) = 3
      BY <1>1, <2>3, <3>2
    <3>. QED BY <1>data, <1>1, <2>1, <3>3, <3>4
  <2>4. CASE d > 0
    <3>1. Ending(m) = 1
      <4>1. d # 0 /\ m.kind # "kstring"
        BY <1>1, <1>6, <2>4
      <4>2. m.data # <<>>
        BY <4>1 DEF d
      <4>. QED BY <4>1, <4>2 DEF Ending
    <3>2. n = d + 2 => b[n] = 0 /\ n >= 3
      BY <1>1, <1>4, <2>4
    <3>3. n >= 3 /\ n < d + 2 => b[n] # 0
      <4>. SUFFICES ASSUME n >= 3, n < d + 2 PROVE b[n] # 0
        OBVIOUS
      <4>1. n - 1 \in 1..d /\ (n - 1) + 1 = n
        BY <1>1
      <4>. QED BY SMTT(30), <1>3, <2>2, <4>1
    <3>4. WireSize(m) = d + 2
      BY <1>1, <3>1
    <3>. QED BY <1>data, <1>1, <2>1, <3>2, <3>3, <3>4
  <2>. QED BY <1>1, <2>3, <2>4
<1>7. CASE m.kind = "kstring"
  <2>1. Complete(b) <=> n >= 4 /\ n % 2 = 0 /\ b[n] = 0 /\ b[n - 1] = 0 /\ b[n - 2] = 0
    <3>1. n \in Nat /\ n = Len(b) /\ b[1] = DBG_WSTR
      BY <1>data, <1>1, <1>2, <1>7, TypeBytes
    <3>. QED BY <3>1, CompleteByType
  <2>2. Ending(m) = 3
    BY <1>7 DEF Ending
  <2>3. PICK p \in 1..d : d = 2 * p /\ \A k \in 1..p : m.data[2 * k - 1] # 0 \/ m.data[2 * k] # 0
    BY <1>7, <1>pairs
  <2>4. n = d + 4 => n >= 4 /\ n % 2 = 0 /\ b[n] = 0 /\ b[n - 1] = 0 /\ b[n - 2] = 0
    <3>. SUFFICES ASSUME n = d + 4
                  PROVE  n >= 4 /\ n % 2 = 0 /\ b[n] = 0 /\ b[n - 1] = 0 /\ b[n - 2] = 0
      OBVIOUS
    <3>1. n \in d+2..n /\ n - 1 \in d+2..n /\ n - 2 \in d+2..n
      BY <1>1
    <3>2. p \in Nat /\ n = 2 * (p + 2)
      BY <1>1, <2>3
    <3>3. n % 2 = 0 /\ n >= 4
      <4>1. \A q \in Nat : (2 * (q + 2)) % 2 = 0 /\ 2 * (q + 2) >= 4
        OBVIOUS
      <4>. QED BY ONLY <3>2, <4>1
    <3>. QED BY <1>4, <3>1, <3>3
  <2>5. n >= 4 /\ n % 2 = 0 /\ n < d + 4 => b[n - 1] # 0 \/ b[n - 2] # 0
    <3>. SUFFICES ASSUME n >= 4, n % 2 = 0, n < d + 4 PROVE b[n - 1] # 0 \/ b[n - 2] # 0
      OBVIOUS
    <3>1. PICK q \in Nat : n = 2 * q
      <4>1. \A s \in Nat : s % 2 = 0 => \E q \in Nat : s = 2 * q
        <5>. SUFFICES ASSUME NEW s \in Nat, s % 2 = 0 PROVE \E q \in Nat : s = 2 * q
          OBVIOUS
        <5>1. s \div 2 \in Nat /\ s = 2 * (s \div 2)
          OBVIOUS
        <5>. QED BY <5>1
      <4>. QED BY <1>1, <4>1
    <3>. DEFINE k == q - 1
    <3>2. k \in 1..p
      <4>1. p \in Nat /\ d = 2 * p /\ n >= 4 /\ n < d + 4
        BY <1>1, <2>3
      <4>2. 2 * q >= 4 /\ 2 * q < 2 * p + 4
        BY <3>1, <4>1
      <4>. QED BY ONLY <3>1, <4>1, <4>2, q \in Nat
    <3>3. 2 * k - 1 \in 1..d /\ 2 * k \in 1..d /\ (2 * k - 1) + 1 = n - 2 /\ 2 * k + 1 = n - 1
      BY <2>3, <3>1, <3>2
    <3>4. (2 * k - 1) + 1 <= n /\ 2 * k + 1 <= n
      BY <1>1, <3>3
    <3>. HIDE DEF k
    <3>5. b[n - 2] = m.data[2 * k - 1] /\ b[n - 1] = m.data[2 * k]
      BY <1>3, <3>3, <3>4
    <3>. QED BY <2>3, <3>2, <3>5
  <2>6. WireSize(m) = d + 4
    BY <1>1, <2>2
  <2>. QED BY <1>data, <1>1, <2>1, <2>4, <2>5, <2>6
<1>. QED BY <1>1, <1>5, <1>6, <1>7

LEMMA Middle ==
    ASSUME NEW b \in Seq(Nat), NEW i \in Nat, NEW n \in Nat, i + n - 1 <= Len(b), i >= 1
    PROVE  /\ SubSeq(b, i, i + n - 1) \in Seq(Nat) /\ Len(SubSeq(b, i, i + n - 1)) = n
           /\ \A k \in 1..n : SubSeq(b, i, i + n - 1)[k] = b[i + k - 1]
<1>. DEFINE j == i + n - 1
<1>1. j \in Int /\ j - i + 1 = n /\ (i <= j <=> n > 0)
  OBVIOUS
<1>2. \A k \in i..j : b[k] \in Nat
  <2>. SUFFICES ASSUME NEW k \in i..j PROVE b[k] \in Nat
    OBVIOUS
  <2>1. Len(b) \in Nat /\ k \in 1..Len(b)
    OBVIOUS
  <2>. QED BY <2>1
<1>. HIDE DEF j
<1>3. /\ SubSeq(b, i, j) \in Seq(Nat)
      /\ Len(SubSeq(b, i, j)) = IF i <= j THEN j - i + 1 ELSE 0
      /\ \A k \in 1..j-i+1 : SubSeq(b, i, j)[k] = b[i + k - 1]
  BY <1>1, <1>2, SubSeqProperties
<1>4. Len(SubSeq(b, i, j)) = n
  BY <1>1, <1>3
<1>5. \A k \in 1..n : SubSeq(b, i, j)[k] = b[i + k - 1]
  BY <1>1, <1>3
<1>. QED BY <1>3, <1>4, <1>5 DEF j

\* What the host takes out of the bytes of a message is the message.
LEMMA WholeShows ==
    ASSUME NEW m, Sound(m), NEW b \in Seq(Nat), Len(b) = WireSize(m),
           \A k \in 1..Len(b) : b[k] = Wire(m)[k]
    PROVE  [type |-> b[1], data |-> Payload(b)] = Shown(m)
<1>. DEFINE d == Len(m.data)
            all == SubSeq(b, 2, Len(b) - 1)
<1>1. /\ m.kind \in {"lf", "byte", "word", "dword", "char", "str", "kstring"} /\ d \in Nat
      /\ m.data \in Seq(Nat) /\ d = Len(m.data)
      /\ Len(b) = 1 + d + Ending(m) /\ Ending(m) \in 1..3
      /\ m.kind = "kstring" => d >= 2
  BY Kinds, WireFacts
<1>2. b[1] = TypeByte[m.kind] /\ \A k \in 1..d : b[k + 1] = m.data[k]
  <2>. HIDE DEF d
  <2>1. 1 \in 1..Len(b) /\ \A k \in 1..d : k + 1 \in 1..Len(b)
    BY <1>1
  <2>2. Wire(m)[1] = TypeByte[m.kind] /\ \A k \in 1..d : Wire(m)[k + 1] = m.data[k]
    BY WireFacts DEF d
  <2>. QED BY <2>1, <2>2
<1>3. \A k \in d+2..Len(b) : b[k] = 0
  <2>1. \A k \in d+2..Len(b) : k \in 1..Len(b)
    BY <1>1
  <2>2. \A k \in d+2..Len(b) : Wire(m)[k] = 0
    BY WireFacts
  <2>. QED BY <2>1, <2>2
<1>. HIDE DEF d
<1>4. /\ all \in Seq(Nat) /\ Len(all) = Len(b) - 2 /\ Len(b) - 2 \in Nat
      /\ \A k \in 1..Len(b)-2 : all[k] = b[k + 1]
  <2>. DEFINE n == Len(b) - 2
  <2>1. n \in Nat /\ 2 + n - 1 = Len(b) - 1 /\ 2 + n - 1 <= Len(b)
    BY <1>1
  <2>. HIDE DEF n
  <2>2. SubSeq(b, 2, 2 + n - 1) \in Seq(Nat) /\ Len(SubSeq(b, 2, 2 + n - 1)) = n
        /\ \A k \in 1..n : SubSeq(b, 2, 2 + n - 1)[k] = b[2 + k - 1]
    BY <2>1, Middle
  <2>3. all = SubSeq(b, 2, 2 + n - 1)
    BY <2>1
  <2>. HIDE DEF all
  <2>4. \A k \in 1..n : all[k] = b[k + 1]
    <3>1. \A k \in 1..n : 2 + k - 1 = k + 1
      BY <2>1
    <3>. QED BY <2>2, <2>3, <3>1
  <2>. QED BY <2>1, <2>2, <2>3, <2>4 DEF n
<1>5. Payload(b) = CASE b[1] = DBG_ASTR /\ all = <<0>> -> <<>>
                     [] b[1] = DBG_WSTR -> SubSeq(all, 1, Len(all) - 2)
                     [] OTHER -> all
  BY DEF Payload
<1>6. (DBG_ASTR # DBG_WSTR) /\ \A kind \in {"lf", "byte", "word", "dword"} :
         TypeByte[kind] # DBG_ASTR /\ TypeByte[kind] # DBG_WSTR
  BY DEF TypeByte, DBG_ASTR, DBG_WSTR, DBG_LF, DBG_BYTE, DBG_WORD, DBG_DWORD
<1>. HIDE DEF all
<1>7. Payload(b) = m.data
  <2>1. CASE m.kind = "kstring"
    <3>1. Ending(m) = 3 /\ b[1] = DBG_WSTR
      BY <1>2, <2>1, TypeBytes DEF Ending
    <3>2. Len(all) = d + 2 /\ 1 + d - 1 = d /\ 1 + d - 1 <= Len(all) /\ Len(all) - 2 = d
      BY <1>1, <1>4, <3>1
    <3>3. Payload(b) = SubSeq(all, 1, 1 + d - 1)
      BY <1>5, <1>6, <3>1, <3>2
    <3>4. /\ SubSeq(all, 1, 1 + d - 1) \in Seq(Nat) /\ Len(SubSeq(all, 1, 1 + d - 1)) = d
          /\ \A k \in 1..d : SubSeq(all, 1, 1 + d - 1)[k] = all[1 + k - 1]
      <4>1. 1 \in Nat /\ 1 >= 1 /\ all \in Seq(Nat) /\ d \in Nat /\ 1 + d - 1 <= Len(all)
        BY <1>1, <1>4, <3>2
      <4>. QED BY ONLY <4>1, Middle
    <3>5. \A k \in 1..d : all[1 + k - 1] = m.data[k]
      <4>1. \A k \in 1..d : 1 + k - 1 = k /\ k \in 1..Len(b)-2
        BY <1>1, <1>4, <3>2
      <4>. QED BY <1>2, <1>4, <4>1
    <3>. QED BY <1>1, <3>3, <3>4, <3>5, SeqEqual
  <2>2. CASE m.kind = "str" /\ m.data = <<>>
    <3>1. Ending(m) = 2 /\ b[1] = DBG_ASTR /\ d = 0
      BY <1>2, <2>2, TypeBytes DEF Ending, d
    <3>2. Len(all) = 1 /\ 1 \in 1..Len(b)-2 /\ 2 \in d+2..Len(b)
      BY <1>1, <1>4, <3>1
    <3>3. all[1] = 0
      BY <1>3, <1>4, <3>2
    <3>4. all = <<0>>
      <4>1. <<0>> \in Seq(Nat) /\ Len(<<0>>) = 1 /\ <<0>>[1] = 0
        OBVIOUS
      <4>2. \A k \in 1..Len(all) : all[k] = <<0>>[k]
        BY <3>2, <3>3, <4>1
      <4>3. all \in Seq(Nat) /\ Len(all) = Len(<<0>>)
        BY <1>4, <3>2, <4>1
      <4>. QED BY ONLY <4>1, <4>2, <4>3, SeqEqual
    <3>. QED BY <1>5, <2>2, <3>1, <3>4
  <2>3. CASE m.kind # "kstring" /\ ~(m.kind = "str" /\ m.data = <<>>)
    <3>1. Ending(m) = 1 /\ b[1] # DBG_WSTR
      BY <1>1, <1>2, <1>6, <2>3, TypeBytes DEF Ending
    <3>2. Len(all) = d
      BY <1>1, <1>4, <3>1
    <3>3. \A k \in 1..Len(all) : all[k] = m.data[k]
      <4>1. \A k \in 1..d : k \in 1..Len(b)-2
        BY <1>4, <3>2
      <4>. QED BY <1>2, <1>4, <3>2, <4>1
    <3>4. all = m.data
      BY <1>1, <1>4, <3>2, <3>3, SeqEqual
    <3>5. ~(b[1] = DBG_ASTR /\ all = <<0>>)
      <4>. DEFINE zero == <<0>>
      <4>. SUFFICES ASSUME b[1] = DBG_ASTR, m.data = zero PROVE FALSE
        BY <3>4
      <4>1. m.kind \in {"char", "str"}
        BY <1>1, <1>2, <1>6, <2>3
      <4>2. 1 \in 1..Len(m.data) /\ m.data[1] = 0
        OBVIOUS
      <4>. QED BY <4>1, <4>2 DEF Sound
    <3>. QED BY <1>5, <3>1, <3>4, <3>5
  <2>. QED BY <2>1, <2>2, <2>3
<1>. QED BY <1>2, <1>7 DEF Shown

-----------------------------------------------------------------------------
(* The sender's packets *)

Messages == LoaderMessages \cup KernelMessages

\* A packet put together in a buffer starts with the bytes of its message.
LEMMA PackedStarts ==
    ASSUME NEW m, Sound(m), m.kind \in {"lf", "byte", "word", "dword", "char"},
           NEW size \in Nat, size >= 6, NEW buf \in [1..size -> Nat]
    PROVE  /\ Packed(m, buf) \in [1..size -> Nat]
           /\ Packed(m, buf) \in Seq(Nat) /\ Len(Packed(m, buf)) = size
           /\ WireSize(m) = Len(m.data) + 2 /\ WireSize(m) <= size
           /\ \A k \in 1..WireSize(m) : Packed(m, buf)[k] = Wire(m)[k]
<1>. DEFINE d == Len(m.data)
            a == <<TypeByte[m.kind]>>
            b == a \o m.data
            c == b \o <<DBG_END>>
            rest == SubSeq(buf, Len(c) + 1, Len(buf))
<1>1. /\ m.data \in Seq(Nat) /\ d \in Nat /\ d <= 4 /\ d = Len(m.data)
      /\ a \in Seq(Nat) /\ Len(a) = 1 /\ a[1] = TypeByte[m.kind]
  <2>1. TypeByte[m.kind] \in Nat /\ m.data \in Seq(Nat) /\ d \in Nat /\ d = Len(m.data)
    BY Kinds
  <2>2. a \in Seq(Nat) /\ Len(a) = 1 /\ a[1] = TypeByte[m.kind]
    BY <2>1, OneByte
  <2>3. d <= 4
    <3>1. /\ m.kind = "lf" => d = 0
          /\ m.kind = "byte" => d = 1
          /\ m.kind = "word" => d = 2
          /\ m.kind = "dword" => d = 4
          /\ m.kind = "char" => d = 1
      BY Kinds
    <3>. HIDE DEF d
    <3>. QED BY <3>1
  <2>. QED BY <2>1, <2>2, <2>3
<1>2. WireSize(m) = d + 2 /\ Wire(m)[1] = TypeByte[m.kind]
      /\ (\A k \in 1..d : Wire(m)[k + 1] = m.data[k]) /\ \A k \in d+2..WireSize(m) : Wire(m)[k] = 0
  <2>1. Ending(m) = 1
    BY DEF Ending
  <2>2. WireSize(m) = 1 + d + Ending(m)
    BY WireFacts
  <2>. QED BY <1>1, <2>1, <2>2, WireFacts
<1>3. <<DBG_END>> \in Seq(Nat) /\ Len(<<DBG_END>>) = 1 /\ <<DBG_END>>[1] = 0
  BY OneByte DEF DBG_END
<1>. HIDE DEF d, a
<1>4. b \in Seq(Nat) /\ Len(b) = 1 + d /\ b[1] = TypeByte[m.kind]
      /\ \A k \in 1..d : b[1 + k] = m.data[k]
  <2>0. b = a \o m.data
    OBVIOUS
  <2>. HIDE DEF b
  <2>1. /\ b \in Seq(Nat) /\ Len(b) = Len(a) + Len(m.data)
        /\ (\A k \in 1..Len(a) : b[k] = a[k]) /\ \A k \in 1..Len(m.data) : b[Len(a) + k] = m.data[k]
    <3>1. a \in Seq(Nat) /\ m.data \in Seq(Nat)
      BY <1>1
    <3>. QED BY ONLY <2>0, <3>1, Joined
  <2>2. 1 \in 1..Len(a)
    BY <1>1
  <2>. QED BY <1>1, <2>1, <2>2
<1>. HIDE DEF b
<1>5. /\ c \in Seq(Nat) /\ Len(c) = 2 + d
      /\ (\A k \in 1..Len(b) : c[k] = b[k]) /\ c[d + 2] = 0
  <2>. DEFINE e == <<DBG_END>>
  <2>1. e \in Seq(Nat) /\ Len(e) = 1 /\ e[1] = 0 /\ 1 \in 1..Len(e) /\ c = b \o e
    BY <1>3
  <2>. HIDE DEF e, c
  <2>2. /\ c \in Seq(Nat) /\ Len(c) = Len(b) + Len(e)
        /\ (\A k \in 1..Len(b) : c[k] = b[k]) /\ \A k \in 1..Len(e) : c[Len(b) + k] = e[k]
    <3>1. b \in Seq(Nat) /\ e \in Seq(Nat) /\ c = b \o e
      BY <1>4, <2>1
    <3>. QED BY ONLY <3>1, Joined
  <2>3. Len(b) + 1 = d + 2 /\ Len(b) + Len(e) = 2 + d
    BY <1>1, <1>4, <2>1
  <2>4. c[d + 2] = 0
    BY ONLY <2>1, <2>2, <2>3
  <2>. QED BY <2>2, <2>3, <2>4
<1>6. \A k \in 1..d+2 : c[k] = Wire(m)[k]
  <2>. SUFFICES ASSUME NEW k \in 1..d+2 PROVE c[k] = Wire(m)[k]
    OBVIOUS
  <2>1. CASE k = 1
    BY <1>1, <1>2, <1>4, <1>5, <2>1
  <2>2. CASE k \in 2..d+1
    <3>1. k - 1 \in 1..d /\ k \in 1..Len(b) /\ 1 + (k - 1) = k /\ (k - 1) + 1 = k
      <4>1. d \in Nat /\ Len(b) = d + 1 /\ k \in 2..d+1
        BY <1>1, <1>4, <2>2
      <4>. QED BY ONLY <4>1
    <3>2. b[1 + (k - 1)] = m.data[k - 1] /\ Wire(m)[(k - 1) + 1] = m.data[k - 1] /\ c[k] = b[k]
      BY <1>2, <1>4, <1>5, <3>1
    <3>. QED BY <3>1, <3>2
  <2>3. CASE k = d + 2
    <3>1. k \in d+2..WireSize(m)
      BY <1>1, <1>2, <2>3
    <3>. QED BY <1>2, <1>5, <2>3, <3>1
  <2>4. k = 1 \/ k \in 2..d+1 \/ k = d + 2
    BY <1>1
  <2>. QED BY <2>1, <2>2, <2>3, <2>4
<1>. HIDE DEF c
<1>7. buf \in Seq(Nat) /\ Len(buf) = size
  OBVIOUS
<1>8. rest \in Seq(Nat) /\ Len(rest) = size - Len(c)
  <2>. DEFINE i == Len(c) + 1
              n == size - Len(c)
  <2>1. i \in Nat /\ n \in Nat /\ i >= 1 /\ i + n - 1 = Len(buf) /\ i + n - 1 <= Len(buf)
    <3>1. Len(c) = 2 + d /\ d \in Nat /\ d <= 4 /\ Len(buf) = size /\ size >= 6
      BY <1>1, <1>5, <1>7
    <3>2. Len(c) \in Nat
      BY <3>1
    <3>. QED BY <3>1, <3>2
  <2>. HIDE DEF i, n
  <2>2. SubSeq(buf, i, i + n - 1) \in Seq(Nat) /\ Len(SubSeq(buf, i, i + n - 1)) = n
    BY ONLY <1>7, <2>1, Middle
  <2>. QED BY <2>1, <2>2 DEF i, n
<1>9. Packed(m, buf) = c \o rest
  BY DEF Packed, a, b, c
<1>. HIDE DEF rest
<1>10. /\ Packed(m, buf) \in Seq(Nat) /\ Len(Packed(m, buf)) = Len(c) + Len(rest)
       /\ \A k \in 1..Len(c) : Packed(m, buf)[k] = c[k]
  <2>1. c \in Seq(Nat) /\ rest \in Seq(Nat)
    BY <1>5, <1>8
  <2>. QED BY <1>9, <2>1, Joined
<1>11. Len(Packed(m, buf)) = size
  BY <1>1, <1>5, <1>8, <1>10
<1>12. Packed(m, buf) \in [1..size -> Nat]
  BY <1>10, <1>11
<1>13. \A k \in 1..WireSize(m) : Packed(m, buf)[k] = Wire(m)[k]
  <2>1. WireSize(m) = Len(c) /\ Len(c) = d + 2
    BY <1>1, <1>2, <1>5
  <2>. QED BY <1>6, <1>10, <2>1
<1>14. WireSize(m) <= size
  BY <1>1, <1>2
<1>. QED BY <1>1, <1>2, <1>10, <1>11, <1>12, <1>13, <1>14

\* Data and the zeros of its ending are what follows the type.
LEMMA DataStarts ==
    ASSUME NEW m, Sound(m), NEW zeros \in Seq(Nat), Ending(m) <= Len(zeros),
           \A k \in 1..Ending(m) : zeros[k] = 0
    PROVE  /\ m.data \o zeros \in Seq(Nat) /\ m.data \o zeros # <<>>
           /\ Len(m.data \o zeros) = Len(m.data) + Len(zeros)
           /\ \A k \in 1..WireSize(m)-1 : (m.data \o zeros)[k] = Wire(m)[k + 1]
<1>. DEFINE d == Len(m.data)
            s == m.data \o zeros
<1>1. m.data \in Seq(Nat) /\ d \in Nat /\ Ending(m) \in 1..3 /\ WireSize(m) = 1 + d + Ending(m)
      /\ (\A k \in 1..d : Wire(m)[k + 1] = m.data[k]) /\ \A k \in d+2..WireSize(m) : Wire(m)[k] = 0
  BY Kinds, WireFacts
<1>2. s \in Seq(Nat) /\ Len(s) = d + Len(zeros) /\ (\A k \in 1..d : s[k] = m.data[k])
      /\ \A k \in 1..Len(zeros) : s[d + k] = zeros[k]
  BY <1>1, Joined
<1>. HIDE DEF s, d
<1>3. s # <<>>
  BY <1>1, <1>2, EmptySeq
<1>4. ASSUME NEW k \in 1..WireSize(m)-1 PROVE s[k] = Wire(m)[k + 1]
  <2>1. CASE k <= d
    <3>1. k \in 1..d
      BY <2>1, <1>1
    <3>. QED BY <1>1, <1>2, <3>1
  <2>2. CASE k > d
    <3>1. k - d \in 1..Ending(m) /\ k - d \in 1..Len(zeros) /\ d + (k - d) = k /\ k + 1 \in d+2..WireSize(m)
      BY SMTT(30), <1>1, <2>2
    <3>. QED BY <1>1, <1>2, <3>1
  <2>. QED BY <1>1, <2>1, <2>2
<1>. QED BY <1>2, <1>3, <1>4 DEF s, d

-----------------------------------------------------------------------------
(* Steps of the two ends *)

LEMMA Known ==
    ASSUME MessagesSound, FramingInv
    PROVE  /\ Len(sent) \in Nat /\ Len(seen) \in Nat /\ Len(packet) \in Nat
           /\ Len(sent) - Len(seen) \in 0..2
           /\ (thr = <<>> => Len(thr) = 0)
           /\ (thr # <<>> => Len(thr) = 1 /\ thr[1] \in Nat)
           /\ \A n \in 1..Len(sent) : sent[n] \in Messages /\ Sound(sent[n])
<1>1. /\ Len(sent) \in Nat /\ Len(seen) \in Nat /\ Len(packet) \in Nat
      /\ thr \in Seq(Nat) /\ Len(thr) \in Nat /\ Len(thr) <= 1
  <2>1. /\ sent \in Seq(Messages) /\ seen \in Seq([type : Nat, data : Seq(Nat)])
        /\ packet \in Seq(Nat) /\ thr \in Seq(Nat) /\ Len(thr) <= 1
    BY DEF FramingInv, TypeOK, Messages
  <2>. QED BY <2>1, LenProperties
<1>2. Len(sent) - Len(seen) \in 0..2
  BY DEF FramingInv, HostInv
<1>3. \A n \in 1..Len(sent) : sent[n] \in Messages
  <2>1. sent \in Seq(Messages)
    BY DEF FramingInv, TypeOK, Messages
  <2>. QED BY <2>1
<1>4. \A m \in Messages : Sound(m)
  BY DEF MessagesSound, Messages
<1>5. thr # <<>> => Len(thr) = 1 /\ thr[1] \in Nat
  <2>. SUFFICES ASSUME thr # <<>> PROVE Len(thr) = 1 /\ thr[1] \in Nat
    OBVIOUS
  <2>1. Len(thr) # 0
    BY <1>1, EmptySeq
  <2>2. Len(thr) = 1
    <3>1. \A n \in Nat : n <= 1 /\ n # 0 => n = 1
      OBVIOUS
    <3>. QED BY <1>1, <2>1, <3>1
  <2>3. 1 \in 1..Len(thr)
    BY <2>2
  <2>. QED BY <1>1, <2>2, <2>3
<1>. QED BY <1>1, <1>2, <1>3, <1>4, <1>5, EmptySeq

\* A message begun is the sender's; the host's stays what it was.
LEMMA Begun ==
    ASSUME MessagesSound, FramingInv, NEW m \in Messages, pc = "idle", pc' # "idle",
           sent' = Append(sent, m), thr' = thr, packet' = packet, seen' = seen
    PROVE  /\ Sound(m) /\ sent' \in Seq(Messages)
           /\ Current' = m /\ Written' = 0 /\ ToWrite' = WireSize(m)
           /\ HostInv' /\ ShowsWhatWasSent'
<1>1. sent \in Seq(Messages) /\ Sound(m)
  BY DEF FramingInv, TypeOK, MessagesSound, Messages
<1>2. /\ sent' \in Seq(Messages) /\ Len(sent') = Len(sent) + 1 /\ sent'[Len(sent) + 1] = m
      /\ \A n \in 1..Len(sent) : sent'[n] = sent[n]
  BY <1>1, AppendProperties
<1>3. Current' = m
  BY <1>2 DEF Current
<1>4. /\ Len(sent) \in Nat /\ Len(seen) \in Nat /\ Len(seen) <= Len(sent)
      /\ Len(seen) = Len(sent) \/ Len(seen) = Len(sent) - 1
  <2>1. ~(Len(seen) = Len(sent) - 2)
    BY DEF FramingInv, HostInv
  <2>. QED BY <2>1, Known
<1>5. WireSize(m) \in Nat /\ WireSize(m) >= 2
  BY <1>1, WireFacts, Kinds
<1>6. ASSUME Len(seen) = Len(sent) PROVE Written' = 0 /\ HostInv'
  <2>1. packet = <<>> /\ thr = <<>> /\ Len(packet) = 0 /\ Len(thr) = 0
    BY <1>6, EmptySeq DEF FramingInv, HostInv
  <2>2. Len(sent') = Len(seen') + 1 /\ Len(packet') = 0 /\ Len(thr') = 0
    BY <1>2, <1>6, <2>1
  <2>3. Written' = 0
    BY <2>2 DEF Written
  <2>4. Due' = m
    BY <1>2, <1>6 DEF Due
  <2>5. HostInv'
    <3>1. Len(sent') - Len(seen') = 1 /\ Len(seen') = Len(sent') - 1 /\ Len(seen') < Len(sent')
      BY <1>4, <2>2
    <3>2. Len(packet') < WireSize(Due')
      BY <1>5, <2>2, <2>4
    <3>3. thr' = <<>> /\ 1..Len(packet') = {}
      BY <2>1, <2>2
    <3>4. Len(sent') - Len(seen') \in 0..2 /\ Len(seen') # Len(sent') /\ Len(seen') # Len(sent') - 2
      BY <1>4, <3>1
    <3>5. \A k \in 1..Len(packet') : packet'[k] = Wire(Due')[k]
      BY <3>3
    <3>. QED BY ONLY <3>1, <3>2, <3>3, <3>4, <3>5, pc' # "idle" DEF HostInv
  <2>. QED BY <2>3, <2>5
<1>7. ASSUME Len(seen) = Len(sent) - 1 PROVE Written' = 0 /\ HostInv'
  <2>1. Len(sent') = Len(seen') + 2
    BY <1>2, <1>4, <1>7
  <2>2. Written' = 0
    <3>1. Len(sent') # Len(seen') + 1
      BY <1>4, <2>1
    <3>. QED BY <3>1 DEF Written
  <2>3. Due' = Due
    <3>1. Len(seen) + 1 \in 1..Len(sent)
      BY <1>4, <1>7
    <3>. QED BY <1>2, <3>1 DEF Due
  <2>4. HostInv'
    <3>1. Len(sent') - Len(seen') = 2 /\ Len(seen') = Len(sent') - 2 /\ Len(seen') < Len(sent')
          /\ Len(seen') # Len(sent') /\ Len(seen') # Len(sent') - 1
      BY <1>4, <2>1
    <3>2. Len(seen) < Len(sent)
      BY <1>4, <1>7
    <3>3. /\ Len(packet) < WireSize(Due)
          /\ \A k \in 1..Len(packet) : packet[k] = Wire(Due)[k]
          /\ thr # <<>> => thr[1] = Wire(Due)[Len(packet) + 1]
      BY <3>2 DEF FramingInv, HostInv
    <3>4. thr # <<>> /\ Len(packet) + 1 = WireSize(Due)
      BY <1>7 DEF FramingInv, HostInv
    <3>5. Len(sent') - Len(seen') \in 0..2
      BY <3>1
    <3>6. /\ Len(packet') < WireSize(Due')
          /\ \A k \in 1..Len(packet') : packet'[k] = Wire(Due')[k]
          /\ thr' # <<>> => thr'[1] = Wire(Due')[Len(packet') + 1]
          /\ thr' # <<>> /\ Len(packet') + 1 = WireSize(Due')
      BY <2>3, <3>3, <3>4
    <3>. QED BY ONLY <3>1, <3>5, <3>6, pc' # "idle" DEF HostInv
  <2>. QED BY <2>2, <2>4
<1>8. ToWrite' = WireSize(m)
  <2>1. ToWrite' = WireSize(Current') - Written'
    BY DEF ToWrite
  <2>. QED BY <1>3, <1>4, <1>5, <1>6, <1>7, <2>1
<1>9. ShowsWhatWasSent'
  <2>1. Len(seen') <= Len(sent')
    BY <1>2, <1>4
  <2>2. DOMAIN seen = 1..Len(seen)
    BY DEF FramingInv, TypeOK
  <2>3. \A n \in DOMAIN seen : sent'[n] = sent[n] /\ seen[n] = Shown(sent[n])
    BY <1>2, <1>4, <2>2 DEF FramingInv, ShowsWhatWasSent
  <2>. QED BY <2>1, <2>3 DEF ShowsWhatWasSent
<1>. QED BY <1>1, <1>2, <1>3, <1>4, <1>6, <1>7, <1>8, <1>9

\* A byte written is the message's next; it is the last if the sender is done.
LEMMA OneWritten ==
    ASSUME MessagesSound, FramingInv, pc # "idle", thr = <<>>, ToWrite > 0,
           thr' = <<Wire(Current)[Written + 1]>>, packet' = packet, seen' = seen, sent' = sent,
           pc' = "idle" => ToWrite = 1
    PROVE  /\ Sound(Current) /\ Written \in Nat /\ Written + ToWrite = WireSize(Current)
           /\ thr' \in Seq(Nat) /\ Len(thr') = 1
           /\ Current' = Current /\ Written' = Written + 1 /\ ToWrite' = ToWrite - 1
           /\ HostInv' /\ ShowsWhatWasSent'
<1>1. Len(sent) \in Nat /\ Len(seen) \in Nat /\ Len(sent) = Len(seen) + 1 /\ Len(packet) \in Nat
      /\ Len(thr) = 0
  <2>1. Len(seen) # Len(sent) /\ Len(seen) # Len(sent) - 2
    BY DEF FramingInv, HostInv
  <2>. QED BY <2>1, Known
<1>2. Due = Current /\ Due' = Due /\ Current' = Current
  BY <1>1 DEF Due, Current
<1>3. Sound(Current)
  <2>1. Len(sent) \in 1..Len(sent)
    BY <1>1
  <2>. QED BY <2>1, Known DEF Current
<1>4. Written = Len(packet) /\ Written \in Nat
  BY <1>1 DEF Written
<1>5. WireSize(Current) \in Nat /\ Written + ToWrite = WireSize(Current) /\ ToWrite \in Nat
  <2>1. WireSize(Current) \in Nat
    BY <1>3, WireFacts
  <2>2. ToWrite = WireSize(Current) - Written
    BY DEF ToWrite
  <2>. QED BY <1>4, <2>1, <2>2
<1>6. Wire(Current)[Written + 1] \in Nat
  <2>1. Written + 1 \in 1..WireSize(Current)
    BY <1>4, <1>5
  <2>. QED BY <1>3, <2>1, WireFacts
<1>7. thr' \in Seq(Nat) /\ Len(thr') = 1 /\ thr'[1] = Wire(Current)[Written + 1] /\ thr' # <<>>
  BY <1>6, OneByte
<1>8. Written' = Written + 1
  <2>1. Len(sent') = Len(seen') + 1 /\ Len(packet') + Len(thr') = Written + 1
    BY <1>1, <1>4, <1>7
  <2>. QED BY <2>1 DEF Written
<1>9. ToWrite' = ToWrite - 1
  <2>1. ToWrite' = WireSize(Current') - Written'
    BY DEF ToWrite
  <2>. QED BY <1>2, <1>4, <1>5, <1>8, <2>1
<1>10. HostInv'
  <2>1. Len(sent') - Len(seen') = 1 /\ Len(seen') # Len(sent') /\ Len(seen') # Len(sent') - 2
        /\ Len(seen') < Len(sent')
    BY <1>1
  <2>2. /\ Len(packet) < WireSize(Due)
        /\ \A k \in 1..Len(packet) : packet[k] = Wire(Due)[k]
    BY <1>1 DEF FramingInv, HostInv
  <2>3. thr'[1] = Wire(Due)[Len(packet) + 1]
    BY <1>2, <1>4, <1>7
  <2>4. pc' = "idle" => thr' # <<>> /\ Len(packet) + 1 = WireSize(Due)
    BY <1>2, <1>4, <1>5, <1>7
  <2>. QED BY <1>2, <2>1, <2>2, <2>3, <2>4 DEF HostInv
<1>11. ShowsWhatWasSent'
  BY DEF FramingInv, ShowsWhatWasSent
<1>. QED BY <1>2, <1>3, <1>4, <1>5, <1>7, <1>8, <1>9, <1>10, <1>11

\* What the sender has left stands still while neither it nor its message moves.
LEMMA SenderStands ==
    ASSUME SenderInv, Current' = Current, Written' = Written,
           stage' = stage, pc' = pc, source' = source, cx' = cx
    PROVE  SenderInv'
<1>1. ToWrite' = ToWrite
  BY DEF ToWrite
<1>. QED BY <1>1 DEF SenderInv

\* A byte for the host: the last of a message and no other completes a packet.
LEMMA HostStep ==
    ASSUME MessagesSound, FramingInv, HostByte
    PROVE  FramingInv'
<1>. DEFINE bytes == packet \o thr
            n == Len(seen)
            w == WireSize(Due)
<1>1. /\ thr # <<>> /\ thr' = <<>>
      /\ stage' = stage /\ dbgbuf16' = dbgbuf16 /\ dbgbuf32' = dbgbuf32 /\ pc' = pc
      /\ source' = source /\ cx' = cx /\ sent' = sent
  BY DEF HostByte
<1>2. /\ TypeOK /\ SenderInv /\ HostInv /\ ShowsWhatWasSent
      /\ packet \in Seq(Nat) /\ thr \in Seq(Nat) /\ seen \in Seq([type : Nat, data : Seq(Nat)])
  BY DEF FramingInv, TypeOK
<1>3. /\ n \in Nat /\ Len(sent) \in Nat /\ Len(packet) \in Nat /\ Len(thr) = 1 /\ thr[1] \in Nat
      /\ Len(sent) = n + 1 \/ Len(sent) = n + 2
  <2>1. Len(seen) # Len(sent)
    BY <1>1, <1>2 DEF HostInv
  <2>2. /\ Len(sent) \in Nat /\ Len(seen) \in Nat /\ Len(packet) \in Nat
        /\ Len(sent) - Len(seen) \in 0..2 /\ Len(thr) = 1 /\ thr[1] \in Nat
    BY <1>1, Known
  <2>. QED BY <2>1, <2>2
<1>4. Due \in Messages /\ Sound(Due)
  <2>1. n + 1 \in 1..Len(sent)
    BY <1>3
  <2>. QED BY <2>1, Known DEF Due
<1>5. w \in Nat /\ w >= 2 /\ \A k \in 1..w : Wire(Due)[k] \in Nat
  BY <1>4, WireFacts, Kinds
<1>6. /\ Len(packet) < w
      /\ \A k \in 1..Len(packet) : packet[k] = Wire(Due)[k]
      /\ thr[1] = Wire(Due)[Len(packet) + 1]
      /\ Len(sent) = n + 1 /\ pc = "idle" => Len(packet) + 1 = w
      /\ Len(sent) = n + 2 => pc # "idle" /\ Len(packet) + 1 = w
  <2>1. Len(seen) < Len(sent)
    BY <1>3
  <2>2. /\ Len(packet) < WireSize(Due)
        /\ \A k \in 1..Len(packet) : packet[k] = Wire(Due)[k]
        /\ thr # <<>> => thr[1] = Wire(Due)[Len(packet) + 1]
    BY <1>2, <2>1 DEF HostInv
  <2>3. Len(sent) = n + 1 => Len(seen) = Len(sent) - 1
    BY <1>3
  <2>4. Len(sent) = n + 2 => Len(seen) = Len(sent) - 2
    BY <1>3
  <2>5. Len(seen) = Len(sent) - 1 /\ pc = "idle" => Len(packet) + 1 = WireSize(Due)
    BY <1>2 DEF HostInv
  <2>6. Len(seen) = Len(sent) - 2 => pc # "idle" /\ Len(packet) + 1 = WireSize(Due)
    BY <1>2 DEF HostInv
  <2>. QED BY <1>1, <2>2, <2>3, <2>4, <2>5, <2>6
<1>7. /\ bytes \in Seq(Nat) /\ Len(bytes) = Len(packet) + 1
      /\ \A k \in 1..Len(bytes) : bytes[k] = Wire(Due)[k]
  <2>0. bytes = packet \o thr
    OBVIOUS
  <2>. HIDE DEF bytes, w, n
  <2>1. /\ bytes \in Seq(Nat) /\ Len(bytes) = Len(packet) + Len(thr)
        /\ \A k \in 1..Len(packet) : bytes[k] = packet[k]
        /\ \A k \in 1..Len(thr) : bytes[Len(packet) + k] = thr[k]
    BY ONLY <1>2, <2>0, Joined
  <2>2. Len(bytes) = Len(packet) + 1
    BY <1>3, <2>1
  <2>3. ASSUME NEW k \in 1..Len(bytes) PROVE bytes[k] = Wire(Due)[k]
    <3>1. CASE k \in 1..Len(packet)
      BY <1>6, <2>1, <3>1
    <3>2. CASE k = Len(packet) + 1
      <4>1. 1 \in 1..Len(thr)
        BY <1>3
      <4>. QED BY <1>6, <2>1, <3>2, <4>1
    <3>3. k \in 1..Len(packet) \/ k = Len(packet) + 1
      BY <1>3, <2>2
    <3>. QED BY <3>1, <3>2, <3>3
  <2>. QED BY <2>1, <2>2, <2>3
<1>8. Complete(bytes) <=> Len(packet) + 1 = w
  <2>1. Len(bytes) \in 1..WireSize(Due)
    BY <1>3, <1>5, <1>6, <1>7
  <2>2. Complete(bytes) <=> Len(bytes) = WireSize(Due)
    BY <1>4, <1>7, <2>1, OnlyWholeComplete
  <2>. QED BY <1>7, <2>2
<1>9. CASE Len(packet) + 1 = w
  <2>1. seen' = Append(seen, Shown(Due)) /\ packet' = <<>>
    <3>1. [type |-> bytes[1], data |-> Payload(bytes)] = Shown(Due)
      BY <1>4, <1>7, <1>9, WholeShows
    <3>. QED BY <1>8, <1>9, <3>1 DEF HostByte
  <2>2. Shown(Due) \in [type : Nat, data : Seq(Nat)]
    BY <1>4, Kinds DEF Shown
  <2>3. /\ seen' \in Seq([type : Nat, data : Seq(Nat)]) /\ Len(seen') = n + 1
        /\ \A k \in 1..n : seen'[k] = seen[k]
        /\ seen'[n + 1] = Shown(Due)
    BY <1>2, <2>1, <2>2, AppendProperties
  <2>4. packet' \in Seq(Nat) /\ Len(packet') = 0 /\ thr' \in Seq(Nat) /\ Len(thr') = 0
    BY <1>1, <2>1, EmptySeq
  <2>5. TypeOK'
    BY <1>1, <1>2, <2>3, <2>4 DEF TypeOK
  <2>6. ShowsWhatWasSent'
    <3>1. Len(seen') <= Len(sent')
      BY <1>1, <1>3, <2>3
    <3>2. DOMAIN seen' = 1..n+1 /\ DOMAIN seen = 1..n
      BY <1>2, <2>3, LenProperties
    <3>3. ASSUME NEW k \in 1..n+1 PROVE seen'[k] = Shown(sent[k])
      <4>1. CASE k = n + 1
        BY <2>3, <4>1 DEF Due
      <4>2. CASE k \in 1..n
        BY <1>2, <2>3, <3>2, <4>2 DEF ShowsWhatWasSent
      <4>3. k = n + 1 \/ k \in 1..n
        BY <1>3
      <4>. QED BY <4>1, <4>2, <4>3
    <3>. QED BY <1>1, <3>1, <3>2, <3>3 DEF ShowsWhatWasSent
  <2>7. SenderInv' /\ HostInv'
    <3>1. CASE Len(sent) = n + 1
      <4>1. Current = Due /\ Written = w /\ ToWrite = 0
        <5>1. Current = Due
          BY <3>1 DEF Current, Due
        <5>2. Written = w
          BY <1>3, <1>9, <3>1 DEF Written
        <5>. QED BY <1>5, <5>1, <5>2 DEF ToWrite
      <4>2. pc = "idle"
        <5>1. pc # "type"
          BY <1>2, <1>5, <4>1 DEF SenderInv
        <5>2. pc \notin {"buffer", "bytes"}
          BY <1>2, <4>1 DEF SenderInv
        <5>. QED BY <1>2, <5>1, <5>2 DEF TypeOK
      <4>3. SenderInv'
        BY <1>1, <4>2 DEF SenderInv
      <4>4. Len(sent') - Len(seen') = 0 /\ Len(seen') = Len(sent') /\ ~(Len(seen') < Len(sent'))
            /\ Len(seen') # Len(sent') - 1 /\ Len(seen') # Len(sent') - 2
        BY <1>1, <1>3, <2>3, <3>1
      <4>5. Len(sent') - Len(seen') \in 0..2
        BY <4>4
      <4>6. pc' = "idle" /\ packet' = <<>> /\ thr' = <<>>
        BY <1>1, <2>1, <4>2
      <4>. QED BY <4>3, <4>4, <4>5, <4>6 DEF HostInv
    <3>2. CASE Len(sent) = n + 2
      <4>1. Len(sent') = Len(seen') + 1 /\ Len(sent) # Len(seen) + 1
        BY <1>1, <1>3, <2>3, <3>2
      <4>2. Written = 0 /\ Written' = 0
        BY <2>4, <4>1 DEF Written
      <4>3. Current' = Current /\ Due' = Current
        BY <1>1, <4>1 DEF Current, Due
      <4>4. SenderInv'
        BY <1>1, <1>2, <4>2, <4>3, SenderStands
      <4>5. Sound(Current)
        <5>1. Len(sent) \in 1..Len(sent)
          BY <1>3, <3>2
        <5>. QED BY <5>1, Known DEF Current
      <4>6. /\ Len(sent') - Len(seen') \in 0..2
            /\ Len(seen') # Len(sent') /\ Len(seen') # Len(sent') - 2
        BY <1>1, <1>3, <2>3, <3>2
      <4>7. Len(packet') < WireSize(Due')
        BY <2>4, <4>3, <4>5, WireFacts, Kinds
      <4>8. 1..Len(packet') = {} /\ thr' = <<>> /\ pc' # "idle"
        BY <1>1, <1>6, <2>4, <3>2
      <4>. QED BY <4>4, <4>6, <4>7, <4>8 DEF HostInv
    <3>. QED BY <1>3, <3>1, <3>2
  <2>. QED BY <2>5, <2>6, <2>7 DEF FramingInv
<1>10. CASE Len(packet) + 1 # w
  <2>1. packet' = bytes /\ seen' = seen
    BY <1>8, <1>10 DEF HostByte
  <2>2. Len(sent) = n + 1 /\ pc # "idle"
    BY <1>3, <1>6, <1>10
  <2>3. thr' \in Seq(Nat) /\ Len(thr') = 0
    BY <1>1, EmptySeq
  <2>4. TypeOK'
    BY <1>1, <1>2, <1>7, <2>1, <2>3 DEF TypeOK
  <2>5. Written' = Written
    <3>1. Written = Len(packet) + Len(thr) /\ Written' = Len(packet') + Len(thr')
      BY <1>1, <2>1, <2>2 DEF Written
    <3>. QED BY <1>3, <1>7, <2>1, <2>3, <3>1
  <2>6. Current' = Current /\ Due' = Due
    BY <1>1, <2>1 DEF Current, Due
  <2>7. SenderInv'
    BY <1>1, <1>2, <2>5, <2>6, SenderStands
  <2>8. HostInv'
    <3>1. /\ Len(sent') - Len(seen') \in 0..2
          /\ Len(seen') # Len(sent') /\ Len(seen') # Len(sent') - 2
      BY <1>1, <1>3, <2>1, <2>2
    <3>2. Len(packet') < WireSize(Due')
      BY <1>3, <1>5, <1>6, <1>7, <1>10, <2>1, <2>6
    <3>3. /\ \A k \in 1..Len(packet') : packet'[k] = Wire(Due')[k]
          /\ thr' = <<>> /\ pc' # "idle"
      BY <1>1, <1>7, <2>1, <2>2, <2>6
    <3>. QED BY <3>1, <3>2, <3>3 DEF HostInv
  <2>9. ShowsWhatWasSent'
    BY <1>1, <1>2, <2>1 DEF ShowsWhatWasSent
  <2>. QED BY <2>4, <2>7, <2>8, <2>9 DEF FramingInv
<1>. QED BY <1>9, <1>10

-----------------------------------------------------------------------------
(* Steps of the senders *)

\* The types TypeOK gives, by name.
LEMMA Types ==
    ASSUME FramingInv
    PROVE  /\ TypeOK /\ SenderInv /\ HostInv /\ ShowsWhatWasSent
           /\ source \in Seq(Nat) /\ cx \in Int
           /\ dbgbuf16 \in [1..8 -> Nat] /\ dbgbuf32 \in [1..12 -> Nat]
BY DEF FramingInv, TypeOK

\* A packet in a buffer, as long as it has to be, makes the sender's part.
LEMMA BufferBegun ==
    ASSUME NEW m, Sound(m), Current' = m, Written' = 0, ToWrite' = WireSize(m), pc' = "buffer",
           source' \in Seq(Nat), WireSize(m) <= Len(source'), cx' = WireSize(m),
           \A k \in 1..WireSize(m) : source'[k] = Wire(m)[k]
    PROVE  SenderInv' /\ source' # <<>>
<1>1. WireSize(m) \in Nat /\ WireSize(m) > 0
  BY WireFacts, Kinds
<1>2. source' # <<>>
  BY <1>1, EmptySeq
<1>3. \A k \in 1..ToWrite' : source'[k] = Wire(Current')[Written' + k]
  <2>1. \A k \in 1..WireSize(m) : 0 + k = k
    BY <1>1
  <2>. QED BY <2>1
<1>4. ToWrite' > 0 /\ Len(source') >= ToWrite' /\ cx' <= ToWrite' /\ cx' = ToWrite'
  BY <1>1
<1>5. pc' # "type" /\ pc' # "bytes"
  OBVIOUS
<1>. QED BY <1>2, <1>3, <1>4, <1>5 DEF SenderInv

LEMMA DbgPacketStep ==
    ASSUME MessagesSound, FramingInv, NEW m \in LoaderMessages, DbgPacket(m) \/ DbgPacket32(m)
    PROVE  FramingInv'
<1>1. /\ m \in Messages /\ pc = "idle" /\ pc' = "buffer" /\ sent' = Append(sent, m)
      /\ stage' = stage /\ thr' = thr /\ packet' = packet /\ seen' = seen
      /\ m.kind \in {"lf", "byte", "word", "dword", "char"} /\ cx' = Len(m.data) + 2
  BY DEF DbgPacket, DbgPacket32, Begins, Messages
<1>2. /\ Sound(m) /\ sent' \in Seq(Messages)
      /\ Current' = m /\ Written' = 0 /\ ToWrite' = WireSize(m)
      /\ HostInv' /\ ShowsWhatWasSent'
  <2>1. pc' # "idle"
    BY <1>1
  <2>. QED BY <1>1, <2>1, Begun
<1>3. /\ dbgbuf16' \in [1..8 -> Nat] /\ dbgbuf32' \in [1..12 -> Nat]
      /\ source' \in Seq(Nat) /\ WireSize(m) <= Len(source') /\ cx' = WireSize(m)
      /\ \A k \in 1..WireSize(m) : source'[k] = Wire(m)[k]
  <2>1. CASE DbgPacket(m)
    <3>1. dbgbuf16' = Packed(m, dbgbuf16) /\ source' = Packed(m, dbgbuf16) /\ dbgbuf32' = dbgbuf32
      BY <2>1 DEF DbgPacket
    <3>2. dbgbuf16 \in [1..8 -> Nat] /\ dbgbuf32 \in [1..12 -> Nat] /\ 8 \in Nat /\ 8 >= 6
      BY Types
    <3>3. /\ Packed(m, dbgbuf16) \in [1..8 -> Nat]
          /\ Packed(m, dbgbuf16) \in Seq(Nat) /\ Len(Packed(m, dbgbuf16)) = 8
          /\ WireSize(m) = Len(m.data) + 2 /\ WireSize(m) <= 8
          /\ \A k \in 1..WireSize(m) : Packed(m, dbgbuf16)[k] = Wire(m)[k]
      BY <1>1, <1>2, <3>2, PackedStarts
    <3>. QED BY <1>1, <3>1, <3>2, <3>3
  <2>2. CASE DbgPacket32(m)
    <3>1. dbgbuf32' = Packed(m, dbgbuf32) /\ source' = Packed(m, dbgbuf32) /\ dbgbuf16' = dbgbuf16
      BY <2>2 DEF DbgPacket32
    <3>2. dbgbuf16 \in [1..8 -> Nat] /\ dbgbuf32 \in [1..12 -> Nat] /\ 12 \in Nat /\ 12 >= 6
      BY Types
    <3>3. /\ Packed(m, dbgbuf32) \in [1..12 -> Nat]
          /\ Packed(m, dbgbuf32) \in Seq(Nat) /\ Len(Packed(m, dbgbuf32)) = 12
          /\ WireSize(m) = Len(m.data) + 2 /\ WireSize(m) <= 12
          /\ \A k \in 1..WireSize(m) : Packed(m, dbgbuf32)[k] = Wire(m)[k]
      BY <1>1, <1>2, <3>2, PackedStarts
    <3>. QED BY <1>1, <3>1, <3>2, <3>3
  <2>. QED BY <2>1, <2>2
<1>4. SenderInv' /\ source' # <<>>
  BY <1>1, <1>2, <1>3, BufferBegun
<1>5. TypeOK'
  <2>1. cx' \in Int
    BY <1>2, <1>3, WireFacts
  <2>. QED BY <1>1, <1>2, <1>3, <1>4, <2>1, Types DEF TypeOK, Messages
<1>. QED BY <1>2, <1>4, <1>5 DEF FramingInv

\* A string, or a line break of the kernel, begun: what lies at the source is the
\* message without its type.
LEMMA DataBegun ==
    ASSUME NEW m, Sound(m), m.kind \in {"str", "kstring"}, NEW zeros \in Seq(Nat),
           Ending(m) <= Len(zeros), \A k \in 1..Ending(m) : zeros[k] = 0,
           Current' = m, Written' = 0, ToWrite' = WireSize(m), pc' = "type",
           source' = m.data \o zeros,
           stage' # "kernel" => m.kind = "str" /\ m.data # <<>> /\ cx' = 2,
           stage' = "kernel" => Ending(m) = Len(zeros)
    PROVE  SenderInv' /\ source' \in Seq(Nat)
<1>1. /\ source' \in Seq(Nat) /\ Len(source') = Len(m.data) + Len(zeros)
      /\ \A k \in 1..WireSize(m)-1 : source'[k] = Wire(m)[k + 1]
  BY DataStarts
<1>2. WireSize(m) = 1 + Len(m.data) + Ending(m) /\ Len(m.data) \in Nat /\ Ending(m) \in 1..3
  BY WireFacts, Kinds
<1>3. Len(zeros) \in Nat
  OBVIOUS
<1>4. Len(source') >= WireSize(m) - 1 /\ (stage' = "kernel" => Len(source') = WireSize(m) - 1)
  BY SMTT(30), <1>1, <1>2, <1>3
<1>5. pc' # "buffer" /\ pc' # "bytes"
  OBVIOUS
<1>. QED BY <1>1, <1>4, <1>5 DEF SenderInv

LEMMA DbgStrStep ==
    ASSUME MessagesSound, FramingInv, NEW m \in LoaderMessages, DbgStr(m)
    PROVE  FramingInv'
<1>1. /\ m \in Messages /\ pc = "idle" /\ pc' = "type" /\ sent' = Append(sent, m)
      /\ stage' = stage /\ thr' = thr /\ packet' = packet /\ seen' = seen
      /\ dbgbuf16' = dbgbuf16 /\ dbgbuf32' = dbgbuf32
      /\ stage # "kernel" /\ m.kind = "str" /\ cx' = 2
      /\ source' = m.data \o <<DBG_END>> \o Following
  BY DEF DbgStr, Begins, Messages
<1>2. /\ Sound(m) /\ sent' \in Seq(Messages)
      /\ Current' = m /\ Written' = 0 /\ ToWrite' = WireSize(m)
      /\ HostInv' /\ ShowsWhatWasSent'
  <2>1. pc' # "idle"
    BY <1>1
  <2>. QED BY <1>1, <2>1, Begun
<1>3. m.data # <<>> /\ m.data \in Seq(Nat) /\ Ending(m) = 1
  <2>1. m.data # <<>>
    BY <1>1 DEF MessagesSound
  <2>. QED BY <1>1, <1>2, <2>1, Kinds DEF Ending
<1>. DEFINE zeros == <<DBG_END>> \o Following
<1>4. zeros \in Seq(Nat) /\ 1 <= Len(zeros) /\ zeros[1] = 0
  <2>. DEFINE e == <<DBG_END>>
  <2>1. e \in Seq(Nat) /\ Len(e) = 1 /\ e[1] = 0 /\ Following \in Seq(Nat) /\ zeros = e \o Following
    BY FramingAssumption, OneByte DEF DBG_END
  <2>. HIDE DEF e, zeros
  <2>2. /\ zeros \in Seq(Nat) /\ Len(zeros) = Len(e) + Len(Following)
        /\ \A k \in 1..Len(e) : zeros[k] = e[k]
    <3>1. e \in Seq(Nat) /\ Following \in Seq(Nat) /\ zeros = e \o Following
      BY <2>1
    <3>. QED BY ONLY <3>1, Joined
  <2>3. Len(Following) \in Nat /\ 1 \in 1..Len(e)
    BY <2>1
  <2>. QED BY <2>1, <2>2, <2>3
<1>5. source' = m.data \o zeros
  <2>1. <<DBG_END>> \in Seq(Nat) /\ Following \in Seq(Nat)
    BY FramingAssumption, OneByte DEF DBG_END
  <2>2. (m.data \o <<DBG_END>>) \o Following = m.data \o (<<DBG_END>> \o Following)
    BY <1>3, <2>1, JoinedThrice
  <2>. QED BY <1>1, <2>2
<1>. HIDE DEF zeros
<1>6. SenderInv' /\ source' \in Seq(Nat)
  <2>1. Ending(m) <= Len(zeros) /\ \A k \in 1..Ending(m) : zeros[k] = 0
    BY <1>3, <1>4
  <2>2. /\ stage' # "kernel" => m.kind = "str" /\ m.data # <<>> /\ cx' = 2
        /\ stage' = "kernel" => Ending(m) = Len(zeros)
        /\ m.kind \in {"str", "kstring"}
    BY <1>1, <1>3
  <2>. QED BY <1>1, <1>2, <1>4, <1>5, <2>1, <2>2, DataBegun
<1>7. TypeOK'
  BY <1>1, <1>2, <1>6, Types DEF TypeOK, Messages
<1>. QED BY <1>2, <1>6, <1>7 DEF FramingInv

LEMMA kdSendLfStep ==
    ASSUME MessagesSound, FramingInv, NEW m \in KernelMessages, kdSendLf(m)
    PROVE  FramingInv'
<1>1. /\ m \in Messages /\ pc = "idle" /\ pc' = "bytes" /\ sent' = Append(sent, m)
      /\ stage' = stage /\ thr' = thr /\ packet' = packet /\ seen' = seen /\ cx' = cx
      /\ dbgbuf16' = dbgbuf16 /\ dbgbuf32' = dbgbuf32
      /\ m.kind = "lf" /\ source' = <<DBG_LF, DBG_END>>
  BY DEF kdSendLf, Begins, Messages
<1>2. /\ Sound(m) /\ sent' \in Seq(Messages)
      /\ Current' = m /\ Written' = 0 /\ ToWrite' = WireSize(m)
      /\ HostInv' /\ ShowsWhatWasSent'
  <2>1. pc' # "idle"
    BY <1>1
  <2>. QED BY <1>1, <2>1, Begun
<1>3. /\ source' \in Seq(Nat) /\ Len(source') = 2 /\ source' # <<>>
      /\ source'[1] = DBG_LF /\ source'[2] = 0
  BY <1>1 DEF DBG_LF, DBG_END
<1>4. WireSize(m) = 2 /\ Wire(m)[1] = DBG_LF /\ Wire(m)[2] = 0
  <2>1. Ending(m) = 1 /\ Len(m.data) = 0
    BY <1>1, <1>2, Kinds DEF Ending
  <2>2. WireSize(m) = 2
    BY <1>2, <2>1, WireFacts
  <2>3. 2 \in Len(m.data)+2..WireSize(m)
    BY <2>1, <2>2
  <2>. QED BY <1>1, <1>2, <2>2, <2>3, WireFacts, TypeBytes
<1>5. SenderInv'
  <2>1. \A k \in 1..ToWrite' : source'[k] = Wire(Current')[Written' + k]
    <3>1. \A k \in 1..2 : (k = 1 \/ k = 2) /\ 0 + k = k
      OBVIOUS
    <3>. QED BY <1>2, <1>3, <1>4, <3>1
  <2>2. ToWrite' > 0 /\ Len(source') = ToWrite'
    BY <1>2, <1>3, <1>4
  <2>3. pc' = "bytes" /\ pc' # "type" /\ pc' # "buffer"
    BY <1>1
  <2>. QED BY <2>1, <2>2, <2>3 DEF SenderInv
<1>6. TypeOK'
  BY <1>1, <1>2, <1>3, Types DEF TypeOK, Messages
<1>. QED BY <1>2, <1>5, <1>6 DEF FramingInv

LEMMA kdSendStrStep ==
    ASSUME MessagesSound, FramingInv, NEW m \in KernelMessages, kdSendStr(m) \/ kdSendKString(m)
    PROVE  FramingInv'
<1>1. /\ m \in Messages /\ pc = "idle" /\ pc' = "type" /\ sent' = Append(sent, m)
      /\ stage' = stage /\ thr' = thr /\ packet' = packet /\ seen' = seen /\ cx' = cx
      /\ dbgbuf16' = dbgbuf16 /\ dbgbuf32' = dbgbuf32
      /\ stage = "kernel" /\ m.kind \in {"str", "kstring"}
  BY DEF kdSendStr, kdSendKString, Begins, Messages
<1>2. /\ Sound(m) /\ sent' \in Seq(Messages)
      /\ Current' = m /\ Written' = 0 /\ ToWrite' = WireSize(m)
      /\ HostInv' /\ ShowsWhatWasSent'
  <2>1. pc' # "idle"
    BY <1>1
  <2>. QED BY <1>1, <2>1, Begun
<1>3. \E zeros \in Seq(Nat) : /\ source' = m.data \o zeros /\ Len(zeros) = Ending(m)
                              /\ \A k \in 1..Ending(m) : zeros[k] = 0
  <2>1. CASE kdSendStr(m) /\ m.data = <<>>
    <3>. DEFINE e == <<DBG_END>>
                z == e \o e
    <3>1. Ending(m) = 2 /\ source' = (m.data \o e) \o e
      BY <2>1 DEF kdSendStr, Ending
    <3>2. m.data \in Seq(Nat) /\ e \in Seq(Nat) /\ Len(e) = 1 /\ e[1] = 0 /\ z = e \o e
      BY <1>2, Kinds, OneByte DEF DBG_END
    <3>. HIDE DEF e, z
    <3>3. source' = m.data \o z
      <4>1. m.data \in Seq(Nat) /\ e \in Seq(Nat)
        BY <3>2
      <4>2. (m.data \o e) \o e = m.data \o (e \o e)
        BY ONLY <4>1, JoinedThrice
      <4>. QED BY <3>1, <3>2, <4>2
    <3>4. /\ z \in Seq(Nat) /\ Len(z) = Len(e) + Len(e)
          /\ \A k \in 1..Len(e) : z[k] = e[k]
          /\ \A k \in 1..Len(e) : z[Len(e) + k] = e[k]
      <4>1. e \in Seq(Nat) /\ z = e \o e
        BY <3>2
      <4>. QED BY ONLY <4>1, Joined
    <3>5. Len(z) = 2 /\ z[1] = 0 /\ z[2] = 0
      <4>1. 1 \in 1..1 /\ 1 + 1 = 2
        OBVIOUS
      <4>. QED BY <3>2, <3>4, <4>1
    <3>6. \A k \in 1..2 : k = 1 \/ k = 2
      OBVIOUS
    <3>. QED BY <3>1, <3>3, <3>4, <3>5, <3>6
  <2>2. CASE kdSendStr(m) /\ m.data # <<>>
    <3>1. Ending(m) = 1 /\ source' = m.data \o <<DBG_END>> \o <<>>
      BY <2>2 DEF kdSendStr, Ending
    <3>2. m.data \o <<DBG_END>> \in Seq(Nat) /\ <<DBG_END>> \in Seq(Nat) /\ Len(<<DBG_END>>) = 1
          /\ \A k \in 1..1 : <<DBG_END>>[k] = 0
      <4>1. m.data \in Seq(Nat)
        BY <1>2, Kinds
      <4>2. <<DBG_END>> \in Seq(Nat) /\ Len(<<DBG_END>>) = 1 /\ <<DBG_END>>[1] = 0
        BY OneByte DEF DBG_END
      <4>3. m.data \o <<DBG_END>> \in Seq(Nat)
        BY <4>1, <4>2, ConcatProperties
      <4>4. \A k \in 1..1 : k = 1
        OBVIOUS
      <4>. QED BY <4>2, <4>3, <4>4
    <3>3. source' = m.data \o <<DBG_END>>
      BY <3>1, <3>2, ConcatEmptySeq
    <3>. QED BY <3>1, <3>2, <3>3
  <2>3. CASE kdSendKString(m)
    <3>1. Ending(m) = 3 /\ source' = m.data \o <<0, 0, 0>>
      BY <2>3 DEF kdSendKString, Ending, DBG_END
    <3>2. /\ <<0, 0, 0>> \in Seq(Nat) /\ Len(<<0, 0, 0>>) = 3
          /\ \A k \in 1..3 : <<0, 0, 0>>[k] = 0
      OBVIOUS
    <3>. QED BY <3>1, <3>2
  <2>. QED BY <2>1, <2>2, <2>3
<1>4. PICK zeros \in Seq(Nat) : /\ source' = m.data \o zeros /\ Len(zeros) = Ending(m)
                                /\ \A k \in 1..Ending(m) : zeros[k] = 0
  BY <1>3
<1>5. SenderInv' /\ source' \in Seq(Nat)
  <2>1. Ending(m) <= Len(zeros)
    BY <1>4
  <2>. QED BY <1>1, <1>2, <1>4, <2>1, DataBegun
<1>6. TypeOK'
  BY <1>1, <1>2, <1>5, Types DEF TypeOK, Messages
<1>. QED BY <1>2, <1>5, <1>6 DEF FramingInv

\* The sender is at a message, and its bytes.
LEMMA CurrentSound ==
    ASSUME MessagesSound, FramingInv, pc # "idle"
    PROVE  /\ Sound(Current) /\ WireSize(Current) \in Nat /\ WireSize(Current) >= 2
           /\ Written \in Nat /\ ToWrite = WireSize(Current) - Written
<1>1. Len(sent) \in 1..Len(sent)
  <2>1. Len(seen) # Len(sent)
    BY DEF FramingInv, HostInv
  <2>. QED BY <2>1, Known
<1>2. Sound(Current)
  BY <1>1, Known DEF Current
<1>3. WireSize(Current) \in Nat /\ WireSize(Current) >= 2
  BY <1>2, WireFacts, Kinds
<1>4. Written \in Nat
  BY Known DEF Written
<1>. QED BY <1>2, <1>3, <1>4 DEF ToWrite

LEMMA SendTypeStep ==
    ASSUME MessagesSound, FramingInv, SendType
    PROVE  FramingInv'
<1>1. /\ pc = "type" /\ thr = <<>> /\ thr' = <<TypeByte[Current.kind]>>
      /\ stage' = stage /\ packet' = packet /\ seen' = seen /\ sent' = sent
      /\ source' = source /\ cx' = cx /\ dbgbuf16' = dbgbuf16 /\ dbgbuf32' = dbgbuf32
      /\ stage = "kernel" => pc' = "bytes"
      /\ stage # "kernel" => pc' = "buffer"
  BY DEF SendType, TransferByte, Current
<1>2. /\ Written = 0 /\ Current.kind \in {"str", "kstring"}
      /\ \A k \in 1..ToWrite-1 : source[k] = Wire(Current)[k + 1]
      /\ stage # "kernel" => /\ Len(source) >= ToWrite - 1
                             /\ Current.kind = "str" /\ Current.data # <<>> /\ cx = 2
      /\ stage = "kernel" => Len(source) = ToWrite - 1
  BY <1>1, Types DEF SenderInv
<1>3. Sound(Current) /\ WireSize(Current) \in Nat /\ WireSize(Current) >= 2 /\ ToWrite = WireSize(Current)
  <2>1. pc # "idle"
    BY <1>1
  <2>. QED BY <1>2, <2>1, CurrentSound
<1>4. /\ thr' \in Seq(Nat) /\ Len(thr') = 1
      /\ Current' = Current /\ Written' = 1 /\ ToWrite' = ToWrite - 1
      /\ HostInv' /\ ShowsWhatWasSent'
  <2>1. thr' = <<Wire(Current)[Written + 1]>>
    BY <1>1, <1>2, <1>3, WireFacts
  <2>2. pc # "idle" /\ pc' # "idle" /\ ToWrite > 0
    BY <1>1, <1>3
  <2>. QED BY <1>1, <1>2, <2>1, <2>2, OneWritten
<1>5. ToWrite' > 0 /\ source \in Seq(Nat) /\ Len(source) >= ToWrite' /\ source # <<>>
  <2>1. source \in Seq(Nat) /\ Len(source) \in Nat
    BY Types
  <2>2. ToWrite \in Nat /\ ToWrite >= 2 /\ ToWrite' = ToWrite - 1
    BY <1>3, <1>4
  <2>3. Len(source) >= ToWrite - 1
    BY <1>2, <2>1, <2>2
  <2>4. ToWrite' > 0 /\ Len(source) >= ToWrite' /\ Len(source) # 0
    BY <2>1, <2>2, <2>3
  <2>. QED BY <2>1, <2>4, EmptySeq
<1>6. \A k \in 1..ToWrite' : source'[k] = Wire(Current')[Written' + k]
  <2>1. \A k \in 1..ToWrite' : k + 1 = Written' + k
    BY <1>3, <1>4
  <2>. QED BY <1>1, <1>2, <1>4, <2>1
<1>7. SenderInv'
  <2>1. CASE stage = "kernel"
    <3>1. pc' = "bytes" /\ pc' # "type" /\ pc' # "buffer" /\ Len(source') = ToWrite'
      BY <1>1, <1>2, <1>4, <2>1
    <3>. QED BY <1>5, <1>6, <3>1 DEF SenderInv
  <2>2. CASE stage # "kernel"
    <3>1. Ending(Current) = 1 /\ Len(Current.data) \in Nat /\ Len(Current.data) # 0
      <4>1. Len(Current.data) \in Nat /\ Current.data \in Seq(Nat)
        BY <1>3, Kinds
      <4>. QED BY <1>2, <2>2, <4>1, EmptySeq DEF Ending
    <3>2. ToWrite' >= 2
      <4>1. WireSize(Current) = 1 + Len(Current.data) + Ending(Current)
        BY <1>3, WireFacts
      <4>. QED BY <1>3, <1>4, <3>1, <4>1
    <3>3. /\ pc' = "buffer" /\ pc' # "type" /\ pc' # "bytes" /\ Len(source') >= ToWrite' /\ cx' <= ToWrite'
          /\ Current'.kind = "str" /\ Current'.data # <<>> /\ Written' > 0
      BY <1>1, <1>2, <1>4, <1>5, <2>2, <3>2
    <3>. QED BY <1>5, <1>6, <3>3 DEF SenderInv
  <2>. QED BY <2>1, <2>2
<1>8. TypeOK'
  BY <1>1, <1>4, <1>5, Types DEF TypeOK
<1>. QED BY <1>4, <1>7, <1>8, Types DEF FramingInv

\* The rest of the source after a byte of it.
LEMMA OneTaken ==
    ASSUME NEW s \in Seq(Nat), s # <<>>
    PROVE  /\ Head(s) = s[1] /\ Head(s) \in Nat /\ Tail(s) \in Seq(Nat)
           /\ Len(s) \in Nat /\ Len(s) > 0 /\ Len(Tail(s)) = Len(s) - 1
           /\ \A k \in 1..Len(s)-1 : Tail(s)[k] = s[k + 1]
<1>1. Len(s) \in Nat /\ Len(s) # 0
  BY EmptySeq
<1>2. Len(s) > 0
  BY <1>1
<1>. QED BY <1>1, <1>2, HeadTailProperties

LEMMA SendBufferStep ==
    ASSUME MessagesSound, FramingInv, SendBuffer
    PROVE  FramingInv'
<1>1. /\ pc = "buffer" /\ thr = <<>> /\ thr' = <<Head(source)>>
      /\ source' = Tail(source) /\ cx' = cx - 1
      /\ stage' = stage /\ packet' = packet /\ seen' = seen /\ sent' = sent
      /\ dbgbuf16' = dbgbuf16 /\ dbgbuf32' = dbgbuf32
      /\ cx - 1 > 0 \/ Head(source) # 0 => pc' = "buffer"
      /\ ~(cx - 1 > 0 \/ Head(source) # 0) => pc' = "idle"
  BY DEF SendBuffer, TransferByte
<1>2. /\ ToWrite > 0 /\ \A k \in 1..ToWrite : source[k] = Wire(Current)[Written + k]
      /\ Len(source) >= ToWrite /\ cx <= ToWrite
      /\ cx = ToWrite \/ (Current.kind = "str" /\ Current.data # <<>> /\ Written > 0)
  BY <1>1, Types DEF SenderInv
<1>3. /\ Sound(Current) /\ WireSize(Current) \in Nat /\ WireSize(Current) >= 2
      /\ Written \in Nat /\ ToWrite = WireSize(Current) - Written /\ ToWrite \in Nat
  <2>1. pc # "idle"
    BY <1>1
  <2>. QED BY <1>2, <2>1, CurrentSound
<1>4. source \in Seq(Nat) /\ source # <<>> /\ cx \in Int
  BY <1>1, Types DEF TypeOK
<1>5. /\ Head(source) = source[1] /\ Head(source) \in Nat /\ Tail(source) \in Seq(Nat)
      /\ Len(source) \in Nat /\ Len(Tail(source)) = Len(source) - 1
      /\ \A k \in 1..Len(source)-1 : Tail(source)[k] = source[k + 1]
  BY <1>4, OneTaken
<1>6. Head(source) = Wire(Current)[Written + 1]
  <2>1. 1 \in 1..ToWrite
    BY <1>2, <1>3
  <2>. QED BY <1>2, <1>5, <2>1
\* The last byte and no other ends the loop.
<1>7. pc' \in {"buffer", "idle"} /\ (pc' = "idle" <=> ToWrite = 1)
  <2>1. pc' \in {"buffer", "idle"} /\ (pc' = "idle" <=> ~(cx - 1 > 0 \/ Head(source) # 0))
    BY <1>1
  <2>2. ToWrite = 1 => ~(cx - 1 > 0) /\ Head(source) = 0
    <3>. SUFFICES ASSUME ToWrite = 1 PROVE ~(cx - 1 > 0) /\ Head(source) = 0
      OBVIOUS
    <3>1. Written + 1 = WireSize(Current) /\ cx <= 1
      BY <1>2, <1>3
    <3>2. Written + 1 \in Len(Current.data)+2..WireSize(Current)
      <4>1. Len(Current.data) \in Nat /\ Ending(Current) \in 1..3
            /\ WireSize(Current) = 1 + Len(Current.data) + Ending(Current)
        BY <1>3, Kinds, WireFacts
      <4>. QED BY <1>3, <3>1, <4>1
    <3>3. Wire(Current)[Written + 1] = 0
      BY <1>3, <3>2, WireFacts
    <3>. QED BY <1>4, <1>6, <3>1, <3>3
  <2>3. ToWrite # 1 => cx - 1 > 0 \/ Head(source) # 0
    <3>. SUFFICES ASSUME ToWrite # 1, cx # ToWrite PROVE Head(source) # 0
      BY <1>2, <1>3, <1>4
    <3>1. Current.kind = "str" /\ Current.data # <<>> /\ Written > 0
      BY <1>2
    <3>2. Ending(Current) = 1
      BY <3>1 DEF Ending
    <3>3. Written \in 1..Len(Current.data)
      <4>1. Len(Current.data) \in Nat /\ WireSize(Current) = 1 + Len(Current.data) + Ending(Current)
        BY <1>3, Kinds, WireFacts
      <4>2. ToWrite >= 2
        BY <1>2, <1>3
      <4>. QED BY <1>3, <3>1, <3>2, <4>1, <4>2
    <3>4. Wire(Current)[Written + 1] = Current.data[Written]
      BY <1>3, <3>3, WireFacts
    <3>5. Current.data[Written] # 0
      BY <1>3, <3>1, <3>3 DEF Sound
    <3>. QED BY <1>6, <3>4, <3>5
  <2>. QED BY <2>1, <2>2, <2>3
<1>8. /\ thr' \in Seq(Nat) /\ Len(thr') = 1
      /\ Current' = Current /\ Written' = Written + 1 /\ ToWrite' = ToWrite - 1
      /\ HostInv' /\ ShowsWhatWasSent'
  <2>1. thr' = <<Wire(Current)[Written + 1]>> /\ pc # "idle" /\ (pc' = "idle" => ToWrite = 1)
    BY <1>1, <1>6, <1>7
  <2>. QED BY <1>1, <1>2, <2>1, OneWritten
<1>9. source' \in Seq(Nat) /\ Len(source') = Len(source) - 1 /\ (pc' = "buffer" => source' # <<>>)
  <2>1. source' \in Seq(Nat) /\ Len(source') = Len(source) - 1
    BY <1>1, <1>5
  <2>2. pc' = "buffer" => Len(source') # 0
    BY <1>2, <1>3, <1>5, <1>7, <2>1
  <2>. QED BY <2>1, <2>2, EmptySeq
<1>10. SenderInv'
  <2>1. CASE pc' = "idle"
    BY <2>1 DEF SenderInv
  <2>2. CASE pc' = "buffer"
    <3>1. ToWrite' > 0 /\ Len(source') >= ToWrite' /\ cx' <= ToWrite'
      <4>1. ToWrite # 1 /\ ToWrite \in Nat /\ ToWrite > 0 /\ ToWrite' = ToWrite - 1
        BY <1>2, <1>3, <1>7, <1>8, <2>2
      <4>2. Len(source) \in Nat /\ Len(source) >= ToWrite /\ Len(source') = Len(source) - 1
        BY <1>2, <1>5, <1>9
      <4>3. cx \in Int /\ cx <= ToWrite /\ cx' = cx - 1
        BY <1>1, <1>2, <1>4
      <4>4. ToWrite' > 0
        BY <4>1
      <4>. QED BY <4>1, <4>2, <4>3, <4>4
    <3>2. cx' = ToWrite' \/ (Current'.kind = "str" /\ Current'.data # <<>> /\ Written' > 0)
      <4>1. CASE cx = ToWrite
        BY <1>1, <1>8, <4>1
      <4>2. CASE cx # ToWrite
        <5>1. Current.kind = "str" /\ Current.data # <<>>
          BY <1>2, <4>2
        <5>2. Written + 1 > 0
          BY <1>3
        <5>. QED BY <1>8, <5>1, <5>2
      <4>. QED BY <4>1, <4>2
    <3>3. \A k \in 1..ToWrite' : source'[k] = Wire(Current')[Written' + k]
      <4>. SUFFICES ASSUME NEW k \in 1..ToWrite' PROVE source'[k] = Wire(Current')[Written' + k]
        OBVIOUS
      <4>1. k + 1 \in 1..ToWrite /\ k \in 1..Len(source)-1 /\ Written' + k = Written + (k + 1)
        BY SMTT(30), <1>2, <1>3, <1>5, <1>8
      <4>. QED BY <1>1, <1>2, <1>5, <1>8, <4>1
    <3>4. pc' # "type" /\ pc' # "bytes"
      BY <2>2
    <3>. QED BY <2>2, <3>1, <3>2, <3>3, <3>4 DEF SenderInv
  <2>. QED BY <1>7, <2>1, <2>2
<1>11. TypeOK'
  <2>1. cx' \in Int /\ pc' \in {"idle", "type", "buffer", "bytes"} /\ pc' # "bytes"
    BY <1>1, <1>4, <1>7
  <2>2. pc' \in {"buffer", "bytes"} => source' # <<>>
    BY <1>9, <2>1
  <2>3. Len(thr') <= 1
    BY <1>8
  <2>. QED BY <1>1, <1>8, <1>9, <2>1, <2>2, <2>3, Types DEF TypeOK
<1>. QED BY <1>8, <1>10, <1>11 DEF FramingInv

LEMMA SendBytesStep ==
    ASSUME MessagesSound, FramingInv, SendBytes
    PROVE  FramingInv'
<1>1. /\ pc = "bytes" /\ thr = <<>> /\ thr' = <<Head(source)>>
      /\ source' = Tail(source) /\ cx' = cx
      /\ stage' = stage /\ packet' = packet /\ seen' = seen /\ sent' = sent
      /\ dbgbuf16' = dbgbuf16 /\ dbgbuf32' = dbgbuf32
      /\ source' # <<>> => pc' = "bytes"
      /\ source' = <<>> => pc' = "idle"
  BY DEF SendBytes, TransferByte
<1>2. /\ ToWrite > 0 /\ \A k \in 1..ToWrite : source[k] = Wire(Current)[Written + k]
      /\ Len(source) = ToWrite
  BY <1>1, Types DEF SenderInv
<1>3. /\ Sound(Current) /\ WireSize(Current) \in Nat
      /\ Written \in Nat /\ ToWrite = WireSize(Current) - Written /\ ToWrite \in Nat
  <2>1. pc # "idle"
    BY <1>1
  <2>. QED BY <1>2, <2>1, CurrentSound
<1>4. source \in Seq(Nat) /\ source # <<>>
  BY <1>1, Types DEF TypeOK
<1>5. /\ Head(source) = source[1] /\ Head(source) \in Nat /\ source' \in Seq(Nat)
      /\ Len(source') = ToWrite - 1
      /\ \A k \in 1..ToWrite-1 : source'[k] = source[k + 1]
  BY <1>1, <1>2, <1>4, OneTaken
<1>6. pc' \in {"bytes", "idle"} /\ (pc' = "idle" => ToWrite = 1) /\ (pc' = "bytes" => ToWrite # 1)
  <2>1. source' = <<>> => Len(source') = 0
    BY EmptySeq
  <2>2. source' # <<>> => Len(source') # 0
    BY <1>5, EmptySeq
  <2>. QED BY <1>1, <1>3, <1>5, <2>1, <2>2
<1>7. /\ thr' \in Seq(Nat) /\ Len(thr') = 1
      /\ Current' = Current /\ Written' = Written + 1 /\ ToWrite' = ToWrite - 1
      /\ HostInv' /\ ShowsWhatWasSent'
  <2>1. 1 \in 1..ToWrite
    BY <1>2, <1>3
  <2>2. thr' = <<Wire(Current)[Written + 1]>> /\ pc # "idle" /\ (pc' = "idle" => ToWrite = 1)
    BY <1>1, <1>2, <1>5, <1>6, <2>1
  <2>. QED BY <1>1, <1>2, <2>2, OneWritten
<1>8. SenderInv'
  <2>1. CASE pc' = "idle"
    BY <2>1 DEF SenderInv
  <2>2. CASE pc' = "bytes"
    <3>1. ToWrite' > 0 /\ Len(source') = ToWrite'
      BY <1>2, <1>3, <1>5, <1>6, <1>7, <2>2
    <3>2. \A k \in 1..ToWrite' : source'[k] = Wire(Current')[Written' + k]
      <4>. SUFFICES ASSUME NEW k \in 1..ToWrite' PROVE source'[k] = Wire(Current')[Written' + k]
        OBVIOUS
      <4>1. k + 1 \in 1..ToWrite /\ k \in 1..ToWrite-1 /\ Written' + k = Written + (k + 1)
        BY <1>2, <1>3, <1>7
      <4>. QED BY <1>2, <1>5, <1>7, <4>1
    <3>3. pc' # "type" /\ pc' # "buffer"
      BY <2>2
    <3>. QED BY <2>2, <3>1, <3>2, <3>3 DEF SenderInv
  <2>. QED BY <1>6, <2>1, <2>2
<1>9. TypeOK'
  <2>1. pc' \in {"idle", "type", "buffer", "bytes"} /\ (pc' \in {"buffer", "bytes"} => source' # <<>>)
    BY <1>1, <1>6
  <2>2. Len(thr') <= 1
    BY <1>7
  <2>. QED BY <1>1, <1>5, <1>7, <2>1, <2>2, Types DEF TypeOK
<1>. QED BY <1>7, <1>8, <1>9 DEF FramingInv

\* The loader going on touches no message.
LEMMA AdvanceStep ==
    ASSUME FramingInv, Advance
    PROVE  FramingInv'
<1>1. /\ pc = "idle" /\ stage' \in {"real", "protected", "kernel"}
      /\ UNCHANGED <<dbgbuf16, dbgbuf32, pc, source, cx, thr, packet, sent, seen>>
  BY DEF Advance
<1>2. TypeOK'
  BY <1>1, Types DEF TypeOK
<1>3. SenderInv'
  BY <1>1 DEF SenderInv
<1>4. HostInv'
  <2>1. Due' = Due
    BY <1>1 DEF Due
  <2>. QED BY <1>1, <2>1, Types DEF HostInv
<1>5. ShowsWhatWasSent'
  BY <1>1, Types DEF ShowsWhatWasSent
<1>. QED BY <1>2, <1>3, <1>4, <1>5 DEF FramingInv

LEMMA NothingStep ==
    ASSUME FramingInv, UNCHANGED vars
    PROVE  FramingInv'
<1>1. /\ stage' = stage /\ dbgbuf16' = dbgbuf16 /\ dbgbuf32' = dbgbuf32 /\ pc' = pc
      /\ source' = source /\ cx' = cx /\ thr' = thr /\ packet' = packet /\ sent' = sent /\ seen' = seen
  BY DEF vars
<1>2. TypeOK'
  BY <1>1, Types DEF TypeOK
<1>3. Current' = Current /\ Written' = Written /\ Due' = Due
  BY <1>1 DEF Current, Written, Due
<1>4. SenderInv'
  BY <1>1, <1>3, Types, SenderStands
<1>5. HostInv'
  BY <1>1, <1>3, Types DEF HostInv
<1>6. ShowsWhatWasSent'
  BY <1>1, Types DEF ShowsWhatWasSent
<1>. QED BY <1>2, <1>4, <1>5, <1>6 DEF FramingInv

-----------------------------------------------------------------------------
(* Theorems *)

LEMMA FramingInit == Init => FramingInv
<1>. SUFFICES ASSUME Init PROVE FramingInv
  OBVIOUS
<1>. USE DEF Init
<1>1. sent = <<>> /\ seen = <<>> /\ Len(sent) = 0 /\ Len(seen) = 0 /\ Len(thr) = 0
  OBVIOUS
<1>2. TypeOK
  BY DEF TypeOK
<1>3. SenderInv
  BY DEF SenderInv
<1>4. HostInv
  BY <1>1 DEF HostInv
<1>5. ShowsWhatWasSent
  BY <1>1 DEF ShowsWhatWasSent
<1>. QED BY <1>2, <1>3, <1>4, <1>5 DEF FramingInv

LEMMA FramingStep ==
    ASSUME MessagesSound, FramingInv, [Next]_vars
    PROVE  FramingInv'
<1>1. ASSUME NEW m \in LoaderMessages, DbgPacket(m) \/ DbgPacket32(m) PROVE FramingInv'
  BY <1>1, DbgPacketStep
<1>2. ASSUME NEW m \in LoaderMessages, DbgStr(m) PROVE FramingInv'
  BY <1>2, DbgStrStep
<1>3. ASSUME NEW m \in KernelMessages, kdSendLf(m) PROVE FramingInv'
  BY <1>3, kdSendLfStep
<1>4. ASSUME NEW m \in KernelMessages, kdSendStr(m) \/ kdSendKString(m) PROVE FramingInv'
  BY <1>4, kdSendStrStep
<1>5. CASE SendType
  BY <1>5, SendTypeStep
<1>6. CASE SendBuffer
  BY <1>6, SendBufferStep
<1>7. CASE SendBytes
  BY <1>7, SendBytesStep
<1>8. CASE Advance
  BY <1>8, AdvanceStep
<1>9. CASE HostByte
  BY <1>9, HostStep
<1>10. CASE Silent \/ UNCHANGED vars
  <2>1. UNCHANGED vars
    BY <1>10 DEF Silent
  <2>. QED BY <2>1, NothingStep
<1>. QED BY <1>1, <1>2, <1>3, <1>4, <1>5, <1>6, <1>7, <1>8, <1>9, <1>10 DEF Next, Sender

LEMMA FramingInvariant == MessagesSound => (Spec => []FramingInv)
<1>. SUFFICES ASSUME MessagesSound PROVE Spec => []FramingInv
  OBVIOUS
<1>1. FramingInv /\ [Next]_vars => FramingInv'
  BY FramingStep
<1>. QED BY <1>1, FramingInit, PTL DEF Spec

\* Every variable keeps its type: in particular the senders (SendBuffer, SendBytes) never
\* read past what they were given, and the transmitter never holds two bytes.
THEOREM FramingTypeCorrect == MessagesSound => (Spec => []TypeOK)
<1>. SUFFICES ASSUME MessagesSound PROVE Spec => []TypeOK
  OBVIOUS
<1>1. FramingInv => TypeOK
  BY DEF FramingInv
<1>2. Spec => []FramingInv
  BY FramingInvariant
<1>. QED BY <1>1, <1>2, PTL

\* Whatever the data bytes of the messages (a zero in a number, a type's value in a
\* text, a character with a zero half), the host takes from the bytes of kDbg* and
\* kdSend* exactly the messages that were begun, in their order.
THEOREM HostShowsWhatWasSent == MessagesSound => (Spec => []ShowsWhatWasSent)
<1>. SUFFICES ASSUME MessagesSound PROVE Spec => []ShowsWhatWasSent
  OBVIOUS
<1>1. FramingInv => ShowsWhatWasSent
  BY DEF FramingInv
<1>2. Spec => []FramingInv
  BY FramingInvariant
<1>. QED BY <1>1, <1>2, PTL

\* With nothing on the line between messages the host waits for a type: kdSendStr's
\* padding and the least length of kSerialPortTransferBuffer end every packet where
\* the host ends it.
THEOREM EndsInStep == MessagesSound => (Spec => []InStep)
<1>. SUFFICES ASSUME MessagesSound PROVE Spec => []InStep
  OBVIOUS
<1>1. FramingInv => InStep
  <2>. SUFFICES ASSUME FramingInv, pc = "idle", thr = <<>> PROVE packet = <<>> /\ Len(seen) = Len(sent)
    BY DEF InStep
  <2>1. Len(seen) # Len(sent) - 1 /\ Len(seen) # Len(sent) - 2
    BY DEF FramingInv, HostInv
  <2>2. Len(seen) = Len(sent)
    <3>1. /\ sent \in Seq(Messages) /\ seen \in Seq([type : Nat, data : Seq(Nat)])
          /\ Len(sent) - Len(seen) \in 0..2
      BY DEF FramingInv, TypeOK, HostInv, Messages
    <3>2. Len(sent) \in Nat /\ Len(seen) \in Nat
      BY <3>1, LenProperties
    <3>. QED BY <2>1, <3>1, <3>2
  <2>. QED BY <2>2 DEF FramingInv, HostInv
<1>2. Spec => []FramingInv
  BY FramingInvariant
<1>. QED BY <1>1, <1>2, PTL

-----------------------------------------------------------------------------
(* The channel *)

\* Messages as the host sees them.
Shows(messages) == [n \in DOMAIN messages |-> Shown(messages[n])]

LEMMA OneMoreShows ==
    ASSUME NEW messages \in Seq(Messages), NEW m \in Messages
    PROVE  Shows(Append(messages, m)) = Append(Shows(messages), Shown(m))
<1>. DEFINE views == {Shown(x) : x \in Messages}
            more == Append(messages, m)
            n == Len(messages)
<1>1. /\ more \in Seq(Messages) /\ Len(more) = n + 1 /\ n \in Nat
      /\ (\A k \in 1..n : more[k] = messages[k]) /\ more[n + 1] = m
  BY AppendProperties, LenProperties
<1>2. ASSUME NEW s \in Seq(Messages)
      PROVE  /\ Shows(s) \in Seq(views) /\ Len(Shows(s)) = Len(s)
             /\ \A k \in 1..Len(s) : Shows(s)[k] = Shown(s[k])
  <2>1. DOMAIN s = 1..Len(s) /\ Len(s) \in Nat /\ \A k \in 1..Len(s) : s[k] \in Messages
    BY LenProperties
  <2>2. \A k \in 1..Len(s) : Shown(s[k]) \in views
    BY <2>1
  <2>. HIDE DEF views
  <2>. QED BY <2>1, <2>2 DEF Shows
<1>3. Shown(m) \in views
  OBVIOUS
<1>. HIDE DEF views, more
<1>4. /\ Append(Shows(messages), Shown(m)) \in Seq(views)
      /\ Len(Append(Shows(messages), Shown(m))) = n + 1
      /\ \A k \in 1..n : Append(Shows(messages), Shown(m))[k] = Shown(messages[k])
      /\ Append(Shows(messages), Shown(m))[n + 1] = Shown(m)
  <2>1. /\ Shows(messages) \in Seq(views) /\ Len(Shows(messages)) = n
        /\ \A k \in 1..n : Shows(messages)[k] = Shown(messages[k])
    BY <1>2
  <2>. QED BY <1>3, <2>1, AppendProperties
<1>5. /\ Shows(more) \in Seq(views) /\ Len(Shows(more)) = n + 1
      /\ \A k \in 1..n+1 : Shows(more)[k] = Shown(more[k])
  BY <1>1, <1>2
<1>6. ASSUME NEW k \in 1..n+1 PROVE Shows(more)[k] = Append(Shows(messages), Shown(m))[k]
  <2>1. k \in 1..n \/ k = n + 1
    BY <1>1
  <2>. QED BY <1>1, <1>4, <1>5, <2>1
<1>7. Shows(more) = Append(Shows(messages), Shown(m))
  BY <1>4, <1>5, <1>6, SeqEqual
<1>. QED BY <1>7 DEF more

\* A message begun finds room, of two, in the channel.
LEMMA BeginsInChannel ==
    ASSUME MessagesSound, FramingInv, FramingInv', NEW m \in Messages,
           sent' = Append(sent, m), seen' = seen
    PROVE  Channel!Next
<1>1. sent \in Seq(Messages) /\ Len(sent) \in Nat /\ Len(seen) \in Nat
  BY Known DEF FramingInv, TypeOK, Messages
<1>2. Len(sent') = Len(sent) + 1 /\ Len(sent') - Len(seen') <= 2
  BY <1>1, AppendProperties DEF FramingInv, HostInv
<1>3. Len(Shows(sent)) = Len(sent)
  BY <1>1, LenProperties DEF Shows
<1>4. Shows(sent') = Append(Shows(sent), Shown(m))
  BY <1>1, OneMoreShows
<1>5. Channel!Begin(Shown(m))
  BY <1>1, <1>2, <1>3, <1>4 DEF Channel!Begin, Shows
<1>6. Shown(m) \in {Shown(x) : x \in LoaderMessages \cup KernelMessages}
  BY DEF Messages
<1>. QED BY <1>5, <1>6 DEF Channel!Next

\* A message the host has taken is the next of the channel.
LEMMA ShowsInChannel ==
    ASSUME MessagesSound, FramingInv, FramingInv', HostByte
    PROVE  Channel!Next \/ UNCHANGED Channel!vars
<1>1. sent' = sent /\ (seen' = seen \/ \E r : seen' = Append(seen, r))
  BY DEF HostByte
<1>2. CASE seen' = seen
  BY <1>1, <1>2 DEF Channel!vars
<1>3. CASE seen' # seen
  <2>. DEFINE n == Len(seen)
  <2>1. PICK r : seen' = Append(seen, r)
    BY <1>1, <1>3
  <2>2. /\ sent \in Seq(Messages) /\ seen \in Seq([type : Nat, data : Seq(Nat)])
        /\ seen' \in Seq([type : Nat, data : Seq(Nat)]) /\ n \in Nat
    BY Known DEF FramingInv, TypeOK, Messages
  <2>3. Len(seen') = n + 1 /\ seen'[n + 1] = r /\ n + 1 \in DOMAIN seen'
    BY <2>1, <2>2
  <2>4. n + 1 <= Len(sent) /\ r = Shown(sent[n + 1])
    BY <1>1, <2>3 DEF FramingInv, ShowsWhatWasSent
  <2>5. n + 1 \in DOMAIN sent /\ Len(Shows(sent)) = Len(sent) /\ Len(sent) \in Nat
    BY <2>2, <2>4 DEF Shows
  <2>6. Shows(sent)[n + 1] = r
    BY <2>4, <2>5 DEF Shows
  <2>7. Channel!Show
    BY <1>1, <2>1, <2>2, <2>4, <2>5, <2>6 DEF Channel!Show, Shows
  <2>. QED BY <2>7 DEF Channel!Next
<1>. QED BY <1>2, <1>3

\* The debug packets implement a channel of two messages: DbgPacket, DbgStr, kdSend* put
\* a message in, the byte that ends its packet (HostByte) takes it out, in order and as it
\* was, and the bytes on the way, whoever writes them, change nothing of it.
THEOREM PacketsAreAChannel == MessagesSound => (Spec => IsChannel)
<1>. SUFFICES ASSUME MessagesSound PROVE Spec => IsChannel
  OBVIOUS
<1>1. Init => Channel!Init
  BY DEF Init, Channel!Init
<1>2. FramingInv /\ FramingInv' /\ [Next]_vars => [Channel!Next]_(Channel!vars)
  <2>. SUFFICES ASSUME FramingInv, FramingInv', [Next]_vars
                PROVE  Channel!Next \/ UNCHANGED Channel!vars
    OBVIOUS
  <2>1. ASSUME NEW m \in LoaderMessages, DbgPacket(m) \/ DbgPacket32(m) \/ DbgStr(m)
        PROVE  Channel!Next
    <3>1. m \in Messages /\ sent' = Append(sent, m) /\ seen' = seen
      BY <2>1 DEF DbgPacket, DbgPacket32, DbgStr, Begins, Messages
    <3>. QED BY <3>1, BeginsInChannel
  <2>2. ASSUME NEW m \in KernelMessages, kdSendLf(m) \/ kdSendStr(m) \/ kdSendKString(m)
        PROVE  Channel!Next
    <3>1. m \in Messages /\ sent' = Append(sent, m) /\ seen' = seen
      BY <2>2 DEF kdSendLf, kdSendStr, kdSendKString, Begins, Messages
    <3>. QED BY <3>1, BeginsInChannel
  <2>3. CASE HostByte
    BY <2>3, ShowsInChannel
  <2>4. CASE SendType \/ SendBuffer \/ SendBytes \/ Advance \/ Silent \/ UNCHANGED vars
    <3>1. sent' = sent /\ seen' = seen
      BY <2>4 DEF SendType, SendBuffer, SendBytes, Advance, Silent, vars
    <3>. QED BY <3>1 DEF Channel!vars
  <2>. QED BY <2>1, <2>2, <2>3, <2>4 DEF Next, Sender
<1>. QED BY <1>1, <1>2, FramingInvariant, PTL DEF Spec, IsChannel, Channel!Spec
=============================================================================
