----------------------------- MODULE RtcProofs -----------------------------
(***************************************************************************)
(* Proofs about Rtc, for every sequence of instants, every byte a register *)
(* may show during an update, and a clock that warns at least two of the   *)
(* reader's port accesses before an update.                                *)
(***************************************************************************)
EXTENDS Rtc, TLAPS

\* UIP is raised two port accesses or more before the update: the clock gives 244 us.
WarnsInTime == Lead >= 2

-----------------------------------------------------------------------------
(* The inductive invariant *)

\* What the registers show at each instant, and now.
AtInstant == [k \in 1..Len(Instants) |-> Registers(Instants[k])]
AtNow == AtInstant[now]

\* While the reader is between two reads and remembers no UIP, an update that may
\* have been announced since it asked is so many accesses away at least.
Unannounced == phase = "idle"
Announced   == phase = "lead" /\ age = 0
LongAgo     == phase = "lead" /\ age = 1

\* The data read so far are those of the instant the clock shows.
ReadFromNow == \A k \in 1..i-1 : byData[k] = AtNow[k]

ReadInv ==
    /\ pc = "settings" => i = 1
    /\ pc = "read" /\ ~bTimeUpdated =>
          ReadFromNow /\ (Unannounced \/ Announced \/ (LongAgo /\ i = 8))
    /\ pc = "poll" /\ ~bTimeUpdated /\ i > 1 =>
          ReadFromNow /\ (Unannounced \/ Announced \/ LongAgo)

\* What is converted, and what is returned.
ConvertInv ==
    /\ pc = "convert" => \E k \in 1..Len(Instants) : byData = AtInstant[k]
    /\ ReturnsOneInstant

RtcInv == TypeOK /\ ReadInv /\ ConvertInv

-----------------------------------------------------------------------------
(* BCD *)

LEMMA BcdThere == \A n \in 0..99 : Bcd(n) \in 0..153 /\ (n <= 12 => Bcd(n) <= 18)
BY DEF Bcd

LEMMA BcdBack == \A n \in 0..99 : BinFromBcd(Bcd(n)) = n
<1>. SUFFICES ASSUME NEW n \in 0..99 PROVE BinFromBcd(Bcd(n)) = n
  OBVIOUS
<1>1. n \div 10 \in 0..9 /\ n % 10 \in 0..9 /\ n = 10 * (n \div 10) + (n % 10)
  OBVIOUS
<1>2. \A t, u \in 0..9 : (t * 16 + u) \div 16 = t /\ (t * 16 + u) % 16 = u
  OBVIOUS
<1>3. Bcd(n) \div 16 = n \div 10 /\ Bcd(n) % 16 = n % 10
  BY <1>1, <1>2 DEF Bcd
<1>. QED BY <1>1, <1>3 DEF BinFromBcd

LEMMA BinRange == \A b \in 0..255 : BinFromBcd(b) \in 0..255
BY DEF BinFromBcd

\* The encodings of every date are bytes.
LEMMA Encodings ==
    ASSUME regB \in [Hour24Mode : BOOLEAN, BinaryDataMode : BOOLEAN]
    PROVE  /\ \A n \in 0..99 : Encode(n) \in 0..153 /\ (n <= 12 => Encode(n) <= 18)
           /\ \A h \in 0..23 : Hour12(h) \in 1..12 /\ HourRegister(h) \in 0..255
<1>1. \A n \in 0..99 : Encode(n) \in 0..153 /\ (n <= 12 => Encode(n) <= 18)
  BY BcdThere DEF Encode
<1>2. \A h \in 0..23 : Hour12(h) \in 1..12
  BY DEF Hour12
<1>3. \A h \in 0..23 : HourRegister(h) \in 0..255
  <2>. SUFFICES ASSUME NEW h \in 0..23 PROVE HourRegister(h) \in 0..255
    OBVIOUS
  <2>1. Encode(h) \in 0..153 /\ Encode(Hour12(h)) \in 0..18
    <3>1. h \in 0..99 /\ Hour12(h) \in 0..99 /\ Hour12(h) <= 12
      BY <1>2
    <3>2. Encode(h) \in 0..153
      BY ONLY <1>1, <3>1
    <3>3. Encode(Hour12(h)) \in 0..153 /\ Encode(Hour12(h)) <= 18
      BY ONLY <1>1, <3>1
    <3>. QED BY <3>2, <3>3
  <2>. QED BY <2>1 DEF HourRegister
<1>. QED BY <1>1, <1>2, <1>3

LEMMA DateNumbers ==
    ASSUME NEW d \in Date
    PROVE  /\ d.second \in 0..59 /\ d.minute \in 0..59 /\ d.hour \in 0..23 /\ d.weekday \in 1..7
           /\ d.day \in 1..31 /\ d.month \in 1..12 /\ d.year \in 0..9999
BY DEF Date

\* A year is its century and its year of the century.
LEMMA YearParts ==
    ASSUME NEW d \in Date
    PROVE  /\ d.year % 100 \in 0..99 /\ d.year \div 100 \in 0..99
           /\ (d.year \div 100) * 100 + (d.year % 100) = d.year
<1>. DEFINE y == d.year
<1>1. y \in 0..9999
  BY DEF Date
<1>. HIDE DEF y
<1>2. y % 100 \in 0..99 /\ y \div 100 \in 0..99 /\ (y \div 100) * 100 + (y % 100) = y
  BY ONLY <1>1
<1>. QED BY <1>2 DEF y

LEMMA RegistersType ==
    ASSUME regB \in [Hour24Mode : BOOLEAN, BinaryDataMode : BOOLEAN], NEW d \in Date
    PROVE  Registers(d) \in [1..8 -> 0..255]
<1>1. /\ Encode(d.second) \in 0..255 /\ Encode(d.minute) \in 0..255 /\ HourRegister(d.hour) \in 0..255
      /\ Encode(d.weekday) \in 0..255 /\ Encode(d.day) \in 0..255 /\ Encode(d.month) \in 0..255
      /\ Encode(d.year % 100) \in 0..255 /\ Bcd(d.year \div 100) \in 0..255
  <2>1. \A n \in 0..99 : Encode(n) \in 0..255 /\ Bcd(n) \in 0..255
    BY Encodings, BcdThere
  <2>2. /\ d.second \in 0..99 /\ d.minute \in 0..99 /\ d.weekday \in 0..99 /\ d.day \in 0..99
        /\ d.month \in 0..99 /\ d.hour \in 0..23
    BY DateNumbers
  <2>3. Encode(d.year % 100) \in 0..255 /\ Bcd(d.year \div 100) \in 0..255
    <3>1. d.year % 100 \in 0..99 /\ d.year \div 100 \in 0..99
      BY YearParts
    <3>. QED BY ONLY <2>1, <3>1
  <2>4. HourRegister(d.hour) \in 0..255
    BY <2>2, Encodings
  <2>. QED BY <2>1, <2>2, <2>3, <2>4
<1>2. \A a, b, c, x, e, f, g, h \in 0..255 : <<a, b, c, x, e, f, g, h>> \in [1..8 -> 0..255]
  OBVIOUS
<1>. QED BY ZenonT(40), <1>1, <1>2 DEF Registers

\* What the conversion makes of an instant's registers, in every data format.
LEMMA ConvertsBack ==
    ASSUME TypeOK, Convert, NEW d \in Date, byData = Registers(d)
    PROVE  result' = DateOf(d)
<1>. DEFINE bin(b) == IF regB.BinaryDataMode THEN b ELSE BinFromBcd(b)
            pm     == IF regB.Hour24Mode THEN 0 ELSE (byData[3] \div 128) * 128
<1>1. regB \in [Hour24Mode : BOOLEAN, BinaryDataMode : BOOLEAN]
  BY DEF TypeOK
<1>2. \A n \in 0..99 : bin(Encode(n)) = n
  BY BcdBack DEF Encode
<1>3. /\ byData[1] = Encode(d.second) /\ byData[2] = Encode(d.minute)
      /\ byData[3] = HourRegister(d.hour) /\ byData[4] = Encode(d.weekday)
      /\ byData[5] = Encode(d.day) /\ byData[6] = Encode(d.month)
      /\ byData[7] = Encode(d.year % 100) /\ byData[8] = Bcd(d.year \div 100)
  BY DEF Registers
<1>4. /\ d.second \in 0..99 /\ d.minute \in 0..99 /\ d.weekday \in 0..99 /\ d.day \in 0..99
      /\ d.month \in 0..99 /\ d.hour \in 0..99 /\ d.hour \in 0..23
  BY DateNumbers
<1>5. bin(byData[3] - pm) + pm =
         IF regB.Hour24Mode THEN d.hour ELSE Hour12(d.hour) + (IF d.hour >= 12 THEN 128 ELSE 0)
  <2>1. CASE regB.Hour24Mode
    <3>1. pm = 0 /\ byData[3] = Encode(d.hour)
      BY <1>3, <2>1 DEF HourRegister
    <3>2. byData[3] - 0 = Encode(d.hour)
      <4>1. Encode(d.hour) \in Int
        BY <1>1, <1>4, Encodings
      <4>. QED BY <3>1, <4>1
    <3>. QED BY <1>2, <1>4, <2>1, <3>1, <3>2
  <2>2. CASE ~regB.Hour24Mode
    <3>. DEFINE half == IF d.hour >= 12 THEN 128 ELSE 0
    <3>1. Hour12(d.hour) \in 1..12 /\ Encode(Hour12(d.hour)) \in 0..18
      <4>1. Hour12(d.hour) \in 1..12
        BY <1>1, <1>4, Encodings
      <4>2. Hour12(d.hour) \in 0..99 /\ Hour12(d.hour) <= 12
        BY <4>1
      <4>3. Encode(Hour12(d.hour)) \in 0..153 /\ Encode(Hour12(d.hour)) <= 18
        BY <1>1, <4>2, Encodings
      <4>. QED BY <4>1, <4>3
    <3>2. byData[3] = Encode(Hour12(d.hour)) + half
      BY <1>3, <2>2 DEF HourRegister
    <3>3. half \in {0, 128}
      OBVIOUS
    <3>4. \A e \in 0..18, x \in {0, 128} : ((e + x) \div 128) * 128 = x /\ (e + x) - x = e
      OBVIOUS
    <3>5. pm = half /\ byData[3] - pm = Encode(Hour12(d.hour))
      BY <2>2, <3>1, <3>2, <3>3, <3>4
    <3>6. bin(Encode(Hour12(d.hour))) = Hour12(d.hour)
      BY <1>2, <3>1
    <3>. QED BY <2>2, <3>5, <3>6
  <2>. QED BY <2>1, <2>2
<1>6. BinFromBcd(byData[8]) * 100 + bin(byData[7]) = d.year
  <2>1. d.year \div 100 \in 0..99 /\ d.year % 100 \in 0..99
    BY YearParts
  <2>2. BinFromBcd(byData[8]) = d.year \div 100
    BY <1>3, <2>1, BcdBack
  <2>3. bin(byData[7]) = d.year % 100
    BY <1>2, <1>3, <2>1
  <2>. QED BY <2>2, <2>3, YearParts
<1>7. result' = [Second |-> bin(byData[1]), Minute |-> bin(byData[2]),
                 Hour |-> bin(byData[3] - pm) + pm,
                 WeekDay |-> bin(byData[4]), Day |-> bin(byData[5]),
                 Month |-> bin(byData[6]),
                 Year |-> BinFromBcd(byData[8]) * 100 + bin(byData[7])]
  BY DEF Convert
<1>8. /\ bin(byData[1]) = d.second /\ bin(byData[2]) = d.minute /\ bin(byData[4]) = d.weekday
      /\ bin(byData[5]) = d.day /\ bin(byData[6]) = d.month
  BY <1>2, <1>3, <1>4
<1>. HIDE DEF bin, pm
<1>. QED BY <1>5, <1>6, <1>7, <1>8 DEF DateOf

-----------------------------------------------------------------------------
(* The steps *)

LEMMA Constants ==
    /\ Len(Instants) \in Nat \ {0} /\ \A k \in 1..Len(Instants) : Instants[k] \in Date
    /\ AgeBound \in Nat /\ Lead \in Nat /\ Idle \in Nat
<1>1. Instants \in Seq(Date) /\ Instants # <<>>
  BY RtcAssumption
<1>2. Len(Instants) \in Nat /\ \A k \in 1..Len(Instants) : Instants[k] \in Date
  BY <1>1
<1>3. Len(Instants) # 0
  BY <1>1
<1>. QED BY <1>2, <1>3, RtcAssumption DEF AgeBound

LEMMA Bytes ==
    ASSUME TypeOK
    PROVE  /\ \A k \in 1..Len(Instants) : AtInstant[k] \in [1..8 -> 0..255]
           /\ AtInstant[now] \in [1..8 -> 0..255]
           /\ \A k \in 1..8 : Shown(k) \subseteq 0..255
<1>1. regB \in [Hour24Mode : BOOLEAN, BinaryDataMode : BOOLEAN] /\ now \in 1..Len(Instants)
  BY DEF TypeOK
<1>2. \A k \in 1..Len(Instants) : Registers(Instants[k]) \in [1..8 -> 0..255]
  BY <1>1, Constants, RegistersType
<1>3. \A k \in 1..8 : Registers(Instants[now])[k] \in 0..255
  BY <1>1, <1>2
<1>4. \A k \in 1..8 : Shown(k) \subseteq 0..255
  BY <1>3, RtcAssumption DEF Shown
<1>. QED BY <1>1, <1>2, <1>4 DEF AtInstant

LEMMA InitInv == Init => RtcInv
<1>. SUFFICES ASSUME Init PROVE RtcInv
  OBVIOUS
<1>1. TypeOK
  <2>1. byData \in [1..8 -> 0..255]
    BY DEF Init
  <2>2. result \in [Fields -> Nat]
    BY DEF Init, NoDate
  <2>3. now \in 1..Len(Instants) /\ age \in 0..AgeBound /\ i \in 1..8
    BY DEF Init
  <2>. QED BY <2>1, <2>2, <2>3 DEF Init, TypeOK
<1>. QED BY <1>1 DEF RtcInv, ReadInv, ConvertInv, ReturnsOneInstant, Init

LEMMA TypeStep == TypeOK /\ [Next]_vars => TypeOK'
<1>. SUFFICES ASSUME TypeOK, [Next]_vars PROVE TypeOK'
  OBVIOUS
<1>1. /\ Len(Instants) \in Nat \ {0} /\ AgeBound \in Nat
      /\ now \in 1..Len(Instants) /\ age \in 0..AgeBound /\ byData \in [1..8 -> 0..255]
  BY Constants DEF TypeOK
<1>2. CASE Clock
  <2>1. (now % Len(Instants)) + 1 \in 1..Len(Instants)
    BY <1>1
  <2>2. /\ now' \in 1..Len(Instants) /\ age' \in 0..AgeBound /\ phase' \in {"idle", "lead", "update"}
        /\ UNCHANGED <<regB, pc, i, bTimeUpdated, byData, result>>
    BY <1>1, <1>2, <2>1 DEF Clock, RaiseUip, StartUpdate, EndUpdate
  <2>. QED BY <2>2 DEF TypeOK
<1>3. ASSUME NEW from, Step(from) PROVE age' \in 0..AgeBound /\ UNCHANGED <<phase, now, regB>>
  BY <1>1, <1>3 DEF Step
<1>4. CASE ReadSettings
  BY <1>3, <1>4 DEF ReadSettings, TypeOK
<1>5. CASE PollUip
  BY <1>3, <1>5 DEF PollUip, TypeOK
<1>6. CASE ReadDatum
  <2>1. i \in 1..8 /\ i' \in 1..8 /\ pc' \in {"poll", "read", "convert"} /\ bTimeUpdated' \in BOOLEAN
    <3>1. i \in 1..8 /\ (i # 8 => i + 1 \in 1..8) /\ bTimeUpdated \in BOOLEAN
      BY DEF TypeOK
    <3>2. \/ pc' = "poll" /\ i' = 1 /\ bTimeUpdated' = FALSE
          \/ /\ pc' = IF i = 8 THEN "convert" ELSE IF i = 7 THEN "read" ELSE "poll"
             /\ i' = IF i = 8 THEN 8 ELSE i + 1
             /\ UNCHANGED bTimeUpdated
      BY <1>6 DEF ReadDatum
    <3>3. CASE pc' = "poll" /\ i' = 1 /\ bTimeUpdated' = FALSE
      <4>1. i' \in 1..8 /\ pc' \in {"poll", "read", "convert"}
        BY <3>3
      <4>2. bTimeUpdated' \in BOOLEAN
        BY <3>3
      <4>. QED BY <3>1, <4>1, <4>2
    <3>4. CASE /\ pc' = IF i = 8 THEN "convert" ELSE IF i = 7 THEN "read" ELSE "poll"
               /\ i' = IF i = 8 THEN 8 ELSE i + 1
               /\ UNCHANGED bTimeUpdated
      <4>1. i' \in 1..8
        BY <3>1, <3>4
      <4>2. pc' \in {"poll", "read", "convert"}
        BY <3>4
      <4>. QED BY <3>1, <3>4, <4>1, <4>2
    <3>. QED BY <3>2, <3>3, <3>4
  <2>2. byData' \in [1..8 -> 0..255]
    BY ZenonT(40), <1>1, <1>6, <2>1, Bytes DEF ReadDatum
  <2>. QED BY <1>3, <1>6, <2>1, <2>2 DEF ReadDatum, TypeOK
<1>7. CASE Convert
  <2>. DEFINE bin(b) == IF regB.BinaryDataMode THEN b ELSE BinFromBcd(b)
              pm     == IF regB.Hour24Mode THEN 0 ELSE (byData[3] \div 128) * 128
  <2>1. \A b \in 0..255 : bin(b) \in Nat /\ BinFromBcd(b) \in Nat
    <3>. SUFFICES ASSUME NEW b \in 0..255 PROVE bin(b) \in Nat /\ BinFromBcd(b) \in Nat
      OBVIOUS
    <3>1. BinFromBcd(b) \in 0..255
      BY BinRange
    <3>2. BinFromBcd(b) \in Nat /\ b \in Nat
      BY <3>1
    <3>. QED BY <3>2
  <2>2. pm \in Nat /\ byData[3] - pm \in 0..255
    <3>1. byData[3] \in 0..255
      BY <1>1
    <3>2. \A b \in 0..255 : /\ 0 \in Nat /\ b - 0 \in 0..255
                            /\ (b \div 128) * 128 \in Nat /\ b - (b \div 128) * 128 \in 0..255
      OBVIOUS
    <3>. QED BY <3>1, <3>2
  <2>3. \A k \in 1..8 : byData[k] \in 0..255
    BY <1>1
  <2>4. result' = [Second |-> bin(byData[1]), Minute |-> bin(byData[2]),
                   Hour |-> bin(byData[3] - pm) + pm,
                   WeekDay |-> bin(byData[4]), Day |-> bin(byData[5]),
                   Month |-> bin(byData[6]),
                   Year |-> BinFromBcd(byData[8]) * 100 + bin(byData[7])]
    BY <1>7 DEF Convert
  <2>5. /\ bin(byData[1]) \in Nat /\ bin(byData[2]) \in Nat /\ bin(byData[3] - pm) + pm \in Nat
        /\ bin(byData[4]) \in Nat /\ bin(byData[5]) \in Nat /\ bin(byData[6]) \in Nat
        /\ BinFromBcd(byData[8]) * 100 + bin(byData[7]) \in Nat
    <3>1. bin(byData[3] - pm) \in Nat /\ BinFromBcd(byData[8]) \in Nat /\ bin(byData[7]) \in Nat
      BY <2>1, <2>2, <2>3
    <3>. HIDE DEF bin, pm
    <3>2. bin(byData[3] - pm) + pm \in Nat /\ BinFromBcd(byData[8]) * 100 + bin(byData[7]) \in Nat
      BY <2>2, <3>1
    <3>. QED BY SMTT(30), <2>1, <2>3, <3>2
  <2>. HIDE DEF bin, pm
  <2>6. result' \in [Fields -> Nat]
    BY <2>4, <2>5 DEF Fields
  <2>7. UNCHANGED <<i, bTimeUpdated, byData, phase, now, regB>> /\ age' \in 0..AgeBound /\ pc' = "done"
    BY <1>3, <1>7 DEF Convert
  <2>. QED BY <2>6, <2>7 DEF TypeOK
<1>8. CASE Finished \/ UNCHANGED vars
  <2>1. UNCHANGED vars
    BY <1>8 DEF Finished
  <2>2. UNCHANGED <<phase, now, age, regB, pc>> /\ UNCHANGED <<i, bTimeUpdated, byData, result>>
    BY <2>1 DEF vars
  <2>. QED BY <2>2 DEF TypeOK
<1>. QED BY <1>2, <1>4, <1>5, <1>6, <1>7, <1>8 DEF Next, Reader

\* The clock's format is set for good, and with it what its registers show.
LEMMA SameRegisters == [Next]_vars => AtInstant' = AtInstant /\ regB' = regB
<1>. SUFFICES ASSUME [Next]_vars PROVE AtInstant' = AtInstant /\ regB' = regB
  OBVIOUS
<1>1. regB' = regB
  BY DEF Next, Clock, RaiseUip, StartUpdate, EndUpdate, Reader, ReadSettings, PollUip,
         ReadDatum, Convert, Step, Finished, vars
<1>2. AtInstant' = AtInstant
  BY <1>1 DEF AtInstant, Registers, Encode, HourRegister
<1>. QED BY <1>1, <1>2

\* An announced update has not begun while the reader relies on what it asked.
LEMMA ReadStep == WarnsInTime /\ RtcInv /\ [Next]_vars => ReadInv'
<1>. SUFFICES ASSUME WarnsInTime, RtcInv, [Next]_vars PROVE ReadInv'
  OBVIOUS
<1>1. AtInstant' = AtInstant
  BY SameRegisters
<1>2. TypeOK /\ ReadInv
  BY DEF RtcInv
<1>3. /\ phase \in {"idle", "lead", "update"} /\ age \in 0..AgeBound /\ i \in 1..8
      /\ bTimeUpdated \in BOOLEAN /\ Lead \in Nat /\ Lead >= 2 /\ AgeBound \in Nat /\ AgeBound >= Lead
      /\ byData \in [1..8 -> 0..255] /\ AtNow \in [1..8 -> 0..255]
  <2>1. /\ phase \in {"idle", "lead", "update"} /\ age \in 0..AgeBound /\ i \in 1..8
        /\ bTimeUpdated \in BOOLEAN /\ byData \in [1..8 -> 0..255]
    BY <1>2 DEF TypeOK
  <2>2. Lead \in Nat /\ Lead >= 2 /\ AgeBound \in Nat /\ AgeBound >= Lead
    BY Constants DEF WarnsInTime, AgeBound
  <2>3. AtNow \in [1..8 -> 0..255]
    BY <1>2, Bytes DEF AtNow
  <2>. QED BY <2>1, <2>2, <2>3
<1>4. CASE RaiseUip
  BY <1>1, <1>2, <1>4 DEF RaiseUip, ReadInv, ReadFromNow, AtNow, Unannounced, Announced, LongAgo
<1>5. CASE StartUpdate
  <2>1. phase = "lead" /\ age >= 2 /\ UNCHANGED <<pc, i, bTimeUpdated>>
    BY <1>3, <1>5 DEF StartUpdate
  <2>2. ~Unannounced /\ ~Announced /\ ~LongAgo
    BY <1>3, <2>1 DEF Unannounced, Announced, LongAgo
  <2>. QED BY <1>2, <2>1, <2>2 DEF ReadInv
<1>6. CASE EndUpdate
  <2>1. phase = "update" /\ UNCHANGED <<pc, i, bTimeUpdated>>
    BY <1>6 DEF EndUpdate
  <2>2. ~Unannounced /\ ~Announced /\ ~LongAgo
    BY <2>1 DEF Unannounced, Announced, LongAgo
  <2>. QED BY <1>2, <2>1, <2>2 DEF ReadInv
<1>7. CASE ReadSettings
  <2>1. i = 1 /\ i' = i /\ pc' = "poll"
    BY <1>2, <1>7 DEF ReadSettings, ReadInv, Step
  <2>2. ~(i' > 1)
    BY <2>1
  <2>. QED BY <2>1, <2>2 DEF ReadInv
<1>8. CASE PollUip
  <2>1. pc = "poll" /\ UNCHANGED <<phase, now, i, byData>>
    BY <1>8 DEF PollUip, Step
  <2>2. CASE phase = "idle"
    <3>1. pc' = "read" /\ bTimeUpdated' = bTimeUpdated /\ Unannounced'
      BY <1>8, <2>1, <2>2 DEF PollUip, Unannounced
    <3>2. ASSUME ~bTimeUpdated PROVE ReadFromNow
      <4>1. CASE i = 1
        <5>1. 1..i-1 = {}
          BY <4>1
        <5>. QED BY <5>1 DEF ReadFromNow
      <4>2. CASE i # 1
        <5>1. i > 1
          BY <1>3, <4>2
        <5>. QED BY <1>2, <2>1, <3>2, <5>1 DEF ReadInv
      <4>. QED BY <4>1, <4>2
    <3>3. ReadFromNow => ReadFromNow'
      BY <1>1, <2>1 DEF ReadFromNow, AtNow
    <3>. QED BY <3>1, <3>2, <3>3 DEF ReadInv
  <2>3. CASE phase # "idle"
    <3>1. pc' = "poll" /\ bTimeUpdated' = TRUE
      BY <1>8, <2>1, <2>3 DEF PollUip
    <3>. QED BY <3>1 DEF ReadInv
  <2>. QED BY <2>2, <2>3
<1>9. CASE ReadDatum
  <2>1. /\ pc = "read" /\ UNCHANGED <<phase, now>>
        /\ age' = IF age < AgeBound THEN age + 1 ELSE age
    BY <1>9 DEF ReadDatum, Step
  <2>2. CASE i \in {4, 8} /\ bTimeUpdated
    <3>1. pc' = "poll" /\ i' = 1
      BY <1>9, <2>2 DEF ReadDatum
    <3>2. ~(i' > 1)
      BY <3>1
    <3>. QED BY <3>1, <3>2 DEF ReadInv
  <2>3. CASE ~(i \in {4, 8} /\ bTimeUpdated)
    <3>1. /\ pc' = IF i = 8 THEN "convert" ELSE IF i = 7 THEN "read" ELSE "poll"
          /\ i' = IF i = 8 THEN 8 ELSE i + 1
          /\ bTimeUpdated' = bTimeUpdated
          /\ \E b \in Shown(i) : byData' = [byData EXCEPT ![i] = b]
      BY <1>9, <2>3 DEF ReadDatum
    <3>2. CASE bTimeUpdated \/ i = 8
      BY <3>1, <3>2 DEF ReadInv
    <3>3. CASE ~bTimeUpdated /\ i # 8
      <4>1. ReadFromNow /\ (Unannounced \/ Announced)
        BY <1>2, <2>1, <3>3 DEF ReadInv
      <4>2. Shown(i) = {AtNow[i]}
        BY <1>2, <4>1 DEF Shown, Unannounced, Announced, AtNow, AtInstant, TypeOK
      <4>3. byData' = [byData EXCEPT ![i] = AtNow[i]]
        BY <3>1, <4>2
      <4>4. i' = i + 1 /\ AtNow' = AtNow
        BY <1>1, <2>1, <3>1, <3>3 DEF AtNow
      <4>5. ReadFromNow'
        <5>1. ASSUME NEW k \in 1..i PROVE byData'[k] = AtNow[k]
          <6>1. k \in 1..8 /\ (k = i \/ k \in 1..i-1)
            BY <1>3
          <6>. QED BY <1>3, <4>1, <4>3, <6>1 DEF ReadFromNow
        <5>2. i' - 1 = i
          BY <1>3, <4>4
        <5>. QED BY <4>4, <5>1, <5>2 DEF ReadFromNow
      <4>6. Unannounced' \/ LongAgo'
        <5>1. Announced => age' = 1
          BY <1>3, <2>1 DEF Announced
        <5>. QED BY <2>1, <4>1, <5>1 DEF Unannounced, Announced, LongAgo
      <4>7. (pc' = "read" => i' = 8) /\ pc' # "settings"
        BY <3>1, <3>3, <4>4
      <4>. QED BY <4>5, <4>6, <4>7 DEF ReadInv
    <3>. QED BY <3>2, <3>3
  <2>. QED BY <2>2, <2>3
<1>10. CASE Convert
  <2>1. pc' = "done"
    BY <1>10 DEF Convert
  <2>. QED BY <2>1 DEF ReadInv
<1>11. CASE Finished \/ UNCHANGED vars
  <2>1. UNCHANGED vars
    BY <1>11 DEF Finished
  <2>. QED BY <1>1, <1>2, <2>1 DEF vars, ReadInv, ReadFromNow, AtNow, Unannounced, Announced, LongAgo
<1>. QED BY <1>4, <1>5, <1>6, <1>7, <1>8, <1>9, <1>10, <1>11 DEF Next, Clock, Reader

\* All eight data are one instant's when they are converted.
LEMMA ConvertStep == WarnsInTime /\ RtcInv /\ [Next]_vars => ConvertInv'
<1>. SUFFICES ASSUME WarnsInTime, RtcInv, [Next]_vars PROVE ConvertInv'
  OBVIOUS
<1>1. TypeOK /\ ReadInv /\ ConvertInv /\ AtInstant' = AtInstant /\ regB' = regB
  BY SameRegisters DEF RtcInv
<1>2. ASSUME UNCHANGED <<pc, byData, result>> PROVE ConvertInv'
  BY <1>1, <1>2 DEF ConvertInv, ReturnsOneInstant, DateOf
<1>3. CASE Clock \/ Finished \/ UNCHANGED vars
  BY <1>2, <1>3 DEF Clock, RaiseUip, StartUpdate, EndUpdate, Finished, vars
<1>4. CASE ReadSettings \/ PollUip
  <2>1. pc' \in {"poll", "read"}
    BY <1>4 DEF ReadSettings, PollUip, Step
  <2>. QED BY <2>1 DEF ConvertInv, ReturnsOneInstant
<1>5. CASE ReadDatum
  <2>1. pc = "read" /\ pc' \in {"poll", "read", "convert"}
    BY <1>5 DEF ReadDatum, Step
  <2>2. ASSUME pc' = "convert" PROVE \E k \in 1..Len(Instants) : byData' = AtInstant[k]
    <3>1. i = 8 /\ ~bTimeUpdated /\ \E b \in Shown(8) : byData' = [byData EXCEPT ![8] = b]
      BY <1>5, <2>2 DEF ReadDatum
    <3>2. ReadFromNow /\ (Unannounced \/ Announced \/ LongAgo)
      BY <1>1, <2>1, <3>1 DEF ReadInv
    <3>3. now \in 1..Len(Instants) /\ AtNow \in [1..8 -> 0..255] /\ byData \in [1..8 -> 0..255]
      BY <1>1, Bytes DEF TypeOK, AtNow
    <3>4. Shown(8) = {AtNow[8]}
      BY <3>2, <3>3 DEF Shown, Unannounced, Announced, LongAgo, AtNow, AtInstant
    <3>5. byData' = [byData EXCEPT ![8] = AtNow[8]]
      BY <3>1, <3>4
    <3>6. \A k \in 1..7 : byData[k] = AtNow[k]
      BY <3>1, <3>2 DEF ReadFromNow
    <3>7. \A k \in 1..8 : byData'[k] = AtNow[k]
      BY <3>3, <3>5, <3>6
    <3>8. byData' = AtNow
      BY <3>3, <3>5, <3>7
    <3>. QED BY <3>3, <3>8 DEF AtNow
  <2>. QED BY <1>1, <2>1, <2>2 DEF ConvertInv, ReturnsOneInstant
<1>6. CASE Convert
  <2>1. pc = "convert" /\ pc' = "done"
    BY <1>6 DEF Convert, Step
  <2>2. PICK k \in 1..Len(Instants) : byData = AtInstant[k]
    BY <1>1, <2>1 DEF ConvertInv
  <2>3. Instants[k] \in Date /\ byData = Registers(Instants[k])
    BY <2>2, Constants DEF AtInstant
  <2>4. result' = DateOf(Instants[k])
    BY <1>1, <1>6, <2>3, ConvertsBack
  <2>5. \E n \in 1..Len(Instants) : result' = DateOf(Instants[n])
    BY <2>4
  <2>6. ReturnsOneInstant'
    BY <1>1, <2>5 DEF ReturnsOneInstant, DateOf
  <2>. QED BY <2>1, <2>6 DEF ConvertInv
<1>. QED BY <1>3, <1>4, <1>5, <1>6 DEF Next, Reader

-----------------------------------------------------------------------------
(* Starting over *)

\* Sixteen port accesses fit between two updates, which are a second apart: a pass is
\* fifteen of them.
EnoughIdle == Idle >= 16

\* The port accesses of the pass so far, and how many there will have been, if it
\* goes on, when UIP can next be met.
Accesses == IF pc = "read" /\ i < 8 THEN 2 * i - 1 ELSE 2 * (i - 1)
NextUip ==
    Accesses + (IF phase = "idle" THEN IF age < Idle THEN Idle - age ELSE 0
                ELSE IF pc = "poll" /\ bTimeUpdated THEN Idle ELSE 0)

\* The passes that may follow one which can meet UIP after n accesses.  The later
\* the poll that meets it within its half, the more of the next pass is over before
\* the next UIP; after the seventh poll there is none.
Following(n) ==
    IF n <= 0 THEN 4 ELSE IF n <= 8 THEN 3 ELSE IF n <= 10 THEN 2 ELSE IF n <= 12 THEN 1 ELSE 0

\* A pass that has met UIP ends after the weekday or after the century.
PassEnd(k) == IF k <= 4 THEN 8 ELSE 15

Restarts ==
    IF pc \in {"convert", "done"} THEN 0
    ELSE IF pc = "settings" THEN 4
    ELSE IF bTimeUpdated THEN 1 + Following(NextUip - PassEnd(i))
    ELSE Following(NextUip)

PassInv ==
    /\ TypeOK
    /\ pc = "settings" => i = 1 /\ ~bTimeUpdated
    /\ pc = "poll" => i < 8
    /\ Restarts \in 0..4

StartsOver == i' < i

LEMMA FollowingFalls ==
    \A m, n \in Int : Following(n) \in 0..4 /\ (m <= n => Following(n) <= Following(m))
BY DEF Following

LEMMA PassStep ==
    EnoughIdle /\ PassInv /\ [Next]_vars
        => PassInv' /\ Restarts' <= Restarts /\ (StartsOver => Restarts' < Restarts)
<1>. SUFFICES ASSUME EnoughIdle, PassInv, [Next]_vars
              PROVE  PassInv' /\ Restarts' <= Restarts /\ (StartsOver => Restarts' < Restarts)
  OBVIOUS
<1>1. /\ phase \in {"idle", "lead", "update"} /\ age \in 0..AgeBound /\ i \in 1..8
      /\ bTimeUpdated \in BOOLEAN /\ pc \in {"settings", "poll", "read", "convert", "done"}
      /\ Idle \in Nat /\ Idle >= 16 /\ AgeBound \in Nat /\ AgeBound >= Idle /\ Restarts \in 0..4
      /\ (pc = "settings" => i = 1 /\ ~bTimeUpdated) /\ (pc = "poll" => i < 8)
  BY Constants DEF PassInv, TypeOK, EnoughIdle, AgeBound
<1>2. TypeOK'
  BY TypeStep DEF PassInv
<1>. DEFINE Kept == /\ pc' = "settings" => i' = 1 /\ ~bTimeUpdated'
                    /\ pc' = "poll" => i' < 8
            Left == Restarts' \in 0..4 /\ Restarts' <= Restarts /\ (i' < i => Restarts' < Restarts)
<1>3. SUFFICES Kept /\ Left
  BY <1>2 DEF PassInv, StartsOver
<1>3a. /\ PassEnd(i) \in {8, 15} /\ (i <= 4 => PassEnd(i) = 8) /\ (i > 4 => PassEnd(i) = 15)
  BY <1>1 DEF PassEnd
\* The pass goes on, and UIP is no nearer than it was.
<1>3b. ASSUME NextUip \in Int, NextUip' \in Int, NextUip' >= NextUip, bTimeUpdated' = bTimeUpdated,
              \/ pc' = pc
              \/ pc \in {"poll", "read"} /\ pc' \in {"poll", "read"},
              bTimeUpdated => PassEnd(i)' = PassEnd(i)
       PROVE  Restarts' \in 0..4 /\ Restarts' <= Restarts
  <2>1. CASE pc \in {"settings", "convert", "done"}
    BY <1>1, <1>3b, <2>1 DEF Restarts
  <2>2. CASE pc \in {"poll", "read"} /\ bTimeUpdated
    <3>1. /\ Restarts = 1 + Following(NextUip - PassEnd(i))
          /\ Restarts' = 1 + Following(NextUip' - PassEnd(i))
      BY <1>3b, <2>2 DEF Restarts
    <3>2. NextUip - PassEnd(i) \in Int /\ NextUip' - PassEnd(i) \in Int
          /\ NextUip - PassEnd(i) <= NextUip' - PassEnd(i)
      BY <1>3a, <1>3b
    <3>. QED BY <1>1, <3>1, <3>2, FollowingFalls
  <2>3. CASE pc \in {"poll", "read"} /\ ~bTimeUpdated
    <3>1. Restarts = Following(NextUip) /\ Restarts' = Following(NextUip')
      BY <1>3b, <2>3 DEF Restarts
    <3>. QED BY <1>1, <1>3b, <3>1, FollowingFalls
  <2>. QED BY <1>1, <2>1, <2>2, <2>3
<1>4. CASE RaiseUip
  <2>1. /\ phase = "idle" /\ age >= Idle /\ phase' = "lead" /\ age' = 0
        /\ UNCHANGED <<pc, i, bTimeUpdated>>
    BY <1>4 DEF RaiseUip
  <2>2. NextUip \in Int /\ NextUip' \in Int /\ NextUip' >= NextUip
    BY <1>1, <2>1 DEF NextUip, Accesses
  <2>3. PassEnd(i)' = PassEnd(i)
    BY <2>1 DEF PassEnd
  <2>. QED BY <1>1, <1>3b, <2>1, <2>2, <2>3
<1>5. CASE StartUpdate \/ EndUpdate
  <2>1. /\ phase # "idle" /\ age' = 0 /\ phase' \in {"idle", "update"}
        /\ UNCHANGED <<pc, i, bTimeUpdated>>
    BY <1>5 DEF StartUpdate, EndUpdate
  <2>2. NextUip \in Int /\ NextUip' \in Int /\ NextUip' >= NextUip
    BY <1>1, <2>1 DEF NextUip, Accesses
  <2>3. PassEnd(i)' = PassEnd(i)
    BY <2>1 DEF PassEnd
  <2>. QED BY <1>1, <1>3b, <2>1, <2>2, <2>3
<1>6. CASE ReadSettings
  <2>1. pc = "settings" /\ pc' = "poll" /\ i = 1 /\ i' = 1 /\ ~bTimeUpdated' /\ Restarts = 4
    BY <1>1, <1>6 DEF ReadSettings, Step, Restarts
  <2>2. NextUip' \in Int
    <3>1. age' \in 0..AgeBound
      BY <1>2 DEF TypeOK
    <3>. QED BY <1>1, <2>1, <3>1 DEF NextUip, Accesses
  <2>. QED BY <1>1, <2>1, <2>2 DEF Restarts, Following
<1>7. CASE PollUip
  <2>1. /\ pc = "poll" /\ i < 8 /\ UNCHANGED <<phase, i>>
        /\ age' = IF age < AgeBound THEN age + 1 ELSE age
    BY <1>1, <1>7 DEF PollUip, Step
  <2>2. CASE phase = "idle"
    <3>1. pc' = "read" /\ bTimeUpdated' = bTimeUpdated
      BY <1>7, <2>2 DEF PollUip
    <3>2. NextUip \in Int /\ NextUip' \in Int /\ NextUip' >= NextUip
      BY <1>1, <2>1, <2>2, <3>1 DEF NextUip, Accesses
    <3>3. PassEnd(i)' = PassEnd(i)
      BY <2>1 DEF PassEnd
    <3>. QED BY <1>1, <1>3b, <2>1, <3>1, <3>2, <3>3
  <2>3. CASE phase # "idle"
    <3>1. pc' = "poll" /\ bTimeUpdated' = TRUE
      BY <1>7, <2>1, <2>3 DEF PollUip
    <3>2. NextUip' = 2 * (i - 1) + Idle
      BY <1>1, <2>1, <2>3, <3>1 DEF NextUip, Accesses
    <3>3. CASE bTimeUpdated
      <4>1. NextUip = 2 * (i - 1) + Idle
        BY <2>1, <2>3, <3>3 DEF NextUip, Accesses
      <4>2. NextUip' \in Int /\ NextUip' = NextUip /\ PassEnd(i)' = PassEnd(i)
        BY <1>1, <2>1, <3>2, <4>1 DEF PassEnd
      <4>. QED BY <1>1, <1>3b, <2>1, <3>1, <3>3, <4>2
    <3>4. CASE ~bTimeUpdated
      <4>1. NextUip = 2 * (i - 1)
        BY <1>1, <2>1, <2>3, <3>4 DEF NextUip, Accesses
      <4>2. Restarts = Following(2 * (i - 1))
        BY <2>1, <3>4, <4>1 DEF Restarts
      <4>3. Restarts' = 1 + Following((2 * (i - 1) + Idle) - PassEnd(i))
        <5>1. PassEnd(i)' = PassEnd(i)
          BY <2>1 DEF PassEnd
        <5>2. Restarts' = 1 + Following(NextUip' - PassEnd(i)')
          BY <3>1 DEF Restarts
        <5>. QED BY <3>2, <5>1, <5>2
      <4>. QED BY <1>1, <1>3a, <2>1, <3>1, <4>2, <4>3 DEF Following
    <3>. QED BY <1>1, <3>3, <3>4
  <2>. QED BY <2>2, <2>3
<1>8. CASE ReadDatum
  <2>1. /\ pc = "read" /\ UNCHANGED phase
        /\ age' = IF age < AgeBound THEN age + 1 ELSE age
    BY <1>8 DEF ReadDatum, Step
  <2>2. NextUip \in Int
    BY <1>1 DEF NextUip, Accesses
  <2>3. CASE i \in {4, 8} /\ bTimeUpdated
    <3>1. pc' = "poll" /\ i' = 1 /\ ~bTimeUpdated'
      BY <1>8, <2>3 DEF ReadDatum
    <3>2. /\ NextUip' \in Int /\ NextUip' >= 0
          /\ NextUip' >= NextUip - PassEnd(i)
      BY <1>1, <1>3a, <2>1, <2>3, <3>1 DEF NextUip, Accesses
    <3>3. /\ Restarts = 1 + Following(NextUip - PassEnd(i))
          /\ Restarts' = Following(NextUip')
      BY <2>1, <2>3, <3>1 DEF Restarts
    <3>4. NextUip - PassEnd(i) \in Int
      BY <1>3a, <2>2
    <3>5. Restarts' \in 0..4 /\ Restarts' < Restarts
      <4>1. /\ Following(NextUip') \in 0..4 /\ Following(NextUip - PassEnd(i)) \in 0..4
            /\ Following(NextUip') <= Following(NextUip - PassEnd(i))
        BY <3>2, <3>4, FollowingFalls
      <4>. QED BY <3>3, <4>1
    <3>. QED BY <1>1, <3>1, <3>5
  <2>4. CASE ~(i \in {4, 8} /\ bTimeUpdated)
    <3>1. /\ pc' = IF i = 8 THEN "convert" ELSE IF i = 7 THEN "read" ELSE "poll"
          /\ i' = IF i = 8 THEN 8 ELSE i + 1
          /\ bTimeUpdated' = bTimeUpdated
      BY <1>8, <2>4 DEF ReadDatum
    <3>2. CASE i = 8
      BY <1>1, <3>1, <3>2 DEF Restarts
    <3>3. CASE i # 8
      <4>1. NextUip' \in Int /\ NextUip' >= NextUip
        BY <1>1, <2>1, <3>1, <3>3 DEF NextUip, Accesses
      <4>2. ASSUME bTimeUpdated PROVE PassEnd(i)' = PassEnd(i)
        <5>1. i' = i + 1 /\ i # 4
          BY <2>4, <3>1, <3>3, <4>2
        <5>. QED BY <1>1, <5>1 DEF PassEnd
      <4>3. pc' \in {"poll", "read"} /\ i' = i + 1 /\ (pc' = "poll" => i' < 8)
        BY <1>1, <3>1, <3>3
      <4>. QED BY <1>1, <1>3b, <2>1, <2>2, <3>1, <4>1, <4>2, <4>3
    <3>. QED BY <3>2, <3>3
  <2>. QED BY <2>3, <2>4
<1>9. CASE Convert
  <2>1. pc' = "done" /\ i' = i
    BY <1>9 DEF Convert
  <2>. QED BY <1>1, <2>1 DEF Restarts
<1>10. CASE Finished \/ UNCHANGED vars
  <2>1. UNCHANGED <<phase, age, pc, i, bTimeUpdated>>
    BY <1>10 DEF Finished, vars
  <2>2. Restarts' = Restarts
    BY <2>1 DEF Restarts, NextUip, Accesses
  <2>. QED BY <1>1, <2>1, <2>2
<1>. QED BY <1>4, <1>5, <1>6, <1>7, <1>8, <1>9, <1>10 DEF Next, Clock, Reader

-----------------------------------------------------------------------------
(* The theorems *)

\* Whatever the registers show during an update, kRtcGetDateTime keeps to its
\* eight bytes and its index to their number.
THEOREM RtcTypeCorrect == Spec => []TypeOK
<1>1. Init => TypeOK
  BY InitInv DEF RtcInv
<1>. QED BY <1>1, TypeStep, PTL DEF Spec

\* However the updates fall between the reader's port accesses, whatever the
\* registers show meanwhile and in every data format, the date and time returned
\* are those of one instant, if two accesses fit between UIP and the update.
THEOREM OneInstantReturned == WarnsInTime => (Spec => []ReturnsOneInstant)
<1>. SUFFICES ASSUME WarnsInTime PROVE Spec => []ReturnsOneInstant
  OBVIOUS
<1>1. RtcInv /\ [Next]_vars => RtcInv'
  BY TypeStep, ReadStep, ConvertStep DEF RtcInv
<1>2. RtcInv => ReturnsOneInstant
  BY DEF RtcInv, ConvertInv
<1>. QED BY <1>1, <1>2, InitInv, PTL DEF Spec

\* "no, you're wrong - it's not an endless loop" (rtc.cpp:162): kRtcGetDateTime starts its
\* loop over four times at most, each time with fewer left to come, wherever the clock was
\* in its cycle and however long updates take.
THEOREM FewPasses ==
    EnoughIdle => (Spec => /\ [](Restarts \in 0..4)
                           /\ [][Restarts' <= Restarts /\ (StartsOver => Restarts' < Restarts)]_vars)
<1>. DEFINE Down == Restarts' <= Restarts /\ (StartsOver => Restarts' < Restarts)
<1>. SUFFICES ASSUME EnoughIdle PROVE Spec => [](Restarts \in 0..4) /\ [][Down]_vars
  OBVIOUS
<1>1. Init => PassInv
  <2>. SUFFICES ASSUME Init PROVE PassInv
    OBVIOUS
  <2>1. TypeOK
    BY InitInv DEF RtcInv
  <2>. QED BY <2>1 DEF Init, PassInv, Restarts
<1>2. PassInv /\ [Next]_vars => PassInv' /\ [Down]_vars
  BY PassStep
<1>3. PassInv => Restarts \in 0..4
  BY DEF PassInv
<1>. HIDE DEF Down
<1>. QED BY <1>1, <1>2, <1>3, PTL DEF Spec
=============================================================================
