-------------------------------- MODULE Rtc --------------------------------
(***************************************************************************)
(* kRtcGetDateTime (vkern/rtc.cpp) reading a running MC146818 clock        *)
(* through its two ports.                                                  *)
(*                                                                         *)
(* The clock is external.  Once a second it raises UIP, a while later      *)
(* updates its registers, during which they read as anything, and drops    *)
(* UIP.  Time is counted in the reader's port accesses: Lead of them fit   *)
(* between UIP and the update (244 us), Idle between two updates.          *)
(***************************************************************************)
EXTENDS Integers, Sequences

CONSTANTS
    Instants,   \* the dates and times of consecutive updates, then the first again
    Lead,       \* reader steps from UIP to the update, at least
    Idle,       \* reader steps from an update to the next UIP, at least
    Garbage     \* bytes the registers may show while they are being updated

Date == [second : 0..59, minute : 0..59, hour : 0..23, weekday : 1..7,
         day : 1..31, month : 1..12, year : 0..9999]

ASSUME RtcAssumption ==
    /\ Instants \in Seq(Date) /\ Instants # <<>>
    /\ Lead \in Nat /\ Idle \in Nat
    /\ Garbage \subseteq 0..255

VARIABLES
    phase, now, age,    \* the clock: its update cycle, the instant it shows and
                        \* the reader's steps since the phase began
    regB,               \* register B: Hour24Mode and BinaryDataMode
    pc, i,              \* the reader: what it does next, with which datum
    bTimeUpdated,
    byData,             \* the bytes read, in reading order
    result              \* RTC_DATETIME

vars == <<phase, now, age, regB, pc, i, bTimeUpdated, byData, result>>

clock == <<phase, now, age, regB>>

AgeBound == Idle + Lead     \* age stops counting there

Fields == {"Second", "Minute", "Hour", "WeekDay", "Day", "Month", "Year"}
NoDate == [f \in Fields |-> 0]

Init ==
    /\ phase \in {"idle", "lead", "update"} /\ now \in 1..Len(Instants)
    /\ age \in 0..AgeBound
    /\ regB \in [Hour24Mode : BOOLEAN, BinaryDataMode : BOOLEAN]
    /\ pc = "settings" /\ i = 1
    /\ bTimeUpdated = FALSE
    /\ byData = [k \in 1..8 |-> 0]
    /\ result = NoDate

-----------------------------------------------------------------------------
(* The clock's registers *)

Bcd(n) == (n \div 10) * 16 + (n % 10)

Encode(n) == IF regB.BinaryDataMode THEN n ELSE Bcd(n)

Hour12(h) == IF h % 12 = 0 THEN 12 ELSE h % 12

HourRegister(h) ==
    IF regB.Hour24Mode THEN Encode(h)
    ELSE Encode(Hour12(h)) + (IF h >= 12 THEN 128 ELSE 0)

\* The eight registers kRtcGetDateTime reads, in its order; the century is BCD.
Registers(d) ==
    <<Encode(d.second), Encode(d.minute), HourRegister(d.hour), Encode(d.weekday),
      Encode(d.day), Encode(d.month), Encode(d.year % 100), Bcd(d.year \div 100)>>

Shown(k) == IF phase = "update" THEN Garbage ELSE {Registers(Instants[now])[k]}

RaiseUip ==
    /\ phase = "idle" /\ age >= Idle
    /\ phase' = "lead" /\ age' = 0
    /\ UNCHANGED <<now, regB, pc, i, bTimeUpdated, byData, result>>

StartUpdate ==
    /\ phase = "lead" /\ age >= Lead
    /\ phase' = "update" /\ age' = 0
    /\ UNCHANGED <<now, regB, pc, i, bTimeUpdated, byData, result>>

EndUpdate ==
    /\ phase = "update"
    /\ phase' = "idle" /\ age' = 0
    /\ now' = (now % Len(Instants)) + 1
    /\ UNCHANGED <<regB, pc, i, bTimeUpdated, byData, result>>

-----------------------------------------------------------------------------
(* The reader *)

Step(from) ==
    /\ pc = from
    /\ age' = IF age < AgeBound THEN age + 1 ELSE age
    /\ UNCHANGED <<phase, now, regB>>

ReadSettings ==
    /\ Step("settings")
    /\ pc' = "poll"
    /\ UNCHANGED <<i, bTimeUpdated, byData, result>>

\* rtcRead's loop: UIP keeps the reader waiting, and is remembered.
PollUip ==
    /\ Step("poll")
    /\ IF phase = "idle"
       THEN pc' = "read" /\ UNCHANGED bTimeUpdated
       ELSE pc' = pc /\ bTimeUpdated' = TRUE
    /\ UNCHANGED <<i, byData, result>>

\* MUTANT of ReadDatum: no check after the century.
ReadDatumCheckedOnce ==
    /\ Step("read")
    /\ \E b \in Shown(i) : byData' = [byData EXCEPT ![i] = b]
    /\ IF i = 4 /\ bTimeUpdated
       THEN pc' = "poll" /\ i' = 1 /\ bTimeUpdated' = FALSE
       ELSE /\ pc' = IF i = 8 THEN "convert" ELSE IF i = 7 THEN "read" ELSE "poll"
            /\ i' = IF i = 8 THEN 8 ELSE i + 1
            /\ UNCHANGED bTimeUpdated
    /\ UNCHANGED result

\* MUTANT of ReadDatum: bTimeUpdated is not reset for the next pass.
ReadDatumFlagStays ==
    /\ Step("read")
    /\ \E b \in Shown(i) : byData' = [byData EXCEPT ![i] = b]
    /\ IF i \in {4, 8} /\ bTimeUpdated
       THEN pc' = "poll" /\ i' = 1
       ELSE /\ pc' = IF i = 8 THEN "convert" ELSE IF i = 7 THEN "read" ELSE "poll"
            /\ i' = IF i = 8 THEN 8 ELSE i + 1
    /\ UNCHANGED <<bTimeUpdated, result>>

\* MUTANT of ReadDatum: the index runs past the century.
ReadDatumRunsOn ==
    /\ Step("read")
    /\ \E b \in Shown(i) : byData' = [byData EXCEPT ![i] = b]
    /\ i' = i + 1
    /\ pc' = IF i = 8 THEN "convert" ELSE IF i = 7 THEN "read" ELSE "poll"
    /\ UNCHANGED <<bTimeUpdated, result>>

\* The datum; after the weekday and after the century a remembered UIP starts the
\* loop again.  The century lies outside the clock's block: it is read without
\* asking UIP.
ReadDatum ==
    /\ Step("read")
    /\ \E b \in Shown(i) : byData' = [byData EXCEPT ![i] = b]
    /\ IF i \in {4, 8} /\ bTimeUpdated
       THEN pc' = "poll" /\ i' = 1 /\ bTimeUpdated' = FALSE
       ELSE /\ pc' = IF i = 8 THEN "convert" ELSE IF i = 7 THEN "read" ELSE "poll"
            /\ i' = IF i = 8 THEN 8 ELSE i + 1
            /\ UNCHANGED bTimeUpdated
    /\ UNCHANGED result

BinFromBcd(b) == ((b \div 16) * 10 + (b % 16)) % 256

\* The PM bit is taken off before the conversion and put back after it.
Convert ==
    /\ Step("convert")
    /\ pc' = "done"
    /\ LET pm      == IF regB.Hour24Mode THEN 0 ELSE (byData[3] \div 128) * 128
           bin(b)  == IF regB.BinaryDataMode THEN b ELSE BinFromBcd(b)
       IN result' = [Second |-> bin(byData[1]), Minute |-> bin(byData[2]),
                     Hour |-> bin(byData[3] - pm) + pm,
                     WeekDay |-> bin(byData[4]), Day |-> bin(byData[5]),
                     Month |-> bin(byData[6]),
                     Year |-> BinFromBcd(byData[8]) * 100 + bin(byData[7])]
    /\ UNCHANGED <<i, bTimeUpdated, byData>>

Finished == pc = "done" /\ UNCHANGED vars

Clock == RaiseUip \/ StartUpdate \/ EndUpdate
Reader == ReadSettings \/ PollUip \/ ReadDatum \/ Convert

Next == Clock \/ Reader \/ Finished

Spec == Init /\ [][Next]_vars

\* The clock ends the updates it starts and the processor goes on reading.
FairSpec == Spec /\ WF_vars(Clock) /\ WF_vars(Reader)

-----------------------------------------------------------------------------
(* Properties *)

TypeOK ==
    /\ phase \in {"idle", "lead", "update"} /\ now \in 1..Len(Instants)
    /\ age \in 0..AgeBound
    /\ regB \in [Hour24Mode : BOOLEAN, BinaryDataMode : BOOLEAN]
    /\ pc \in {"settings", "poll", "read", "convert", "done"} /\ i \in 1..8
    /\ bTimeUpdated \in BOOLEAN
    /\ byData \in [1..8 -> 0..255]
    /\ result \in [Fields -> Nat]

\* The RTC_DATETIME of an instant: rtc.h keeps bit 7 of Hour as PM in 12-hour mode.
DateOf(d) ==
    [Second |-> d.second, Minute |-> d.minute,
     Hour |-> IF regB.Hour24Mode THEN d.hour
              ELSE Hour12(d.hour) + (IF d.hour >= 12 THEN 128 ELSE 0),
     WeekDay |-> d.weekday, Day |-> d.day, Month |-> d.month, Year |-> d.year]

\* Whatever updates fell between its reads, kRtcGetDateTime returns one instant the
\* clock showed, in every data format: never the minute of one second with the hour
\* of the next, and never a byte of a register in mid-update.
ReturnsOneInstant ==
    pc = "done" => \E k \in 1..Len(Instants) : result = DateOf(Instants[k])

\* "no, you're wrong - it's not an endless loop" (rtc.cpp:162): updates make the
\* loop start again, but it ends.
LoopEnds == <>(pc = "done")
=============================================================================
