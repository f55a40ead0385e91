------------------------------ MODULE Sprintf ------------------------------
(***************************************************************************)
(* kSprintf and printInt (vkern/tprintf.cpp), the formatter behind every   *)
(* message of the kernel.  One action handles one format character, as one *)
(* turn of the main loop does.  Arguments are whatever a caller may pass   *)
(* for the conversion; DWORD and QWORD are scaled down to DwordSize and    *)
(* QwordSize values.                                                       *)
(***************************************************************************)
EXTENDS Integers, Sequences, SequencesExt

CONSTANTS
    Calls,      \* [fmt, bufSize, args]: the format string, the size of the string
                \* buffer in characters, and the arguments a conversion may find
    Letters,    \* the characters of formats and texts
    DwordSize, QwordSize,
    Extent      \* bound: characters of memory looked at, buffer included

NUL == "NUL"
NoCharacter == {NUL, "old", "skip"} \* "old" is memory nobody wrote yet, "skip" a gap in a text

Digits == <<"0", "1", "2", "3", "4", "5", "6", "7", "8", "9", "a", "b", "c", "d", "e", "f">>
UpDigits == <<"0", "1", "2", "3", "4", "5", "6", "7", "8", "9", "A", "B", "C", "D", "E", "F">>

DigitChars == {"0", "1", "2", "3", "4", "5", "6", "7", "8", "9"}

wszNull == <<"(", "n", "u", "l", "l", ")">>

\* What may be printed: the letters, and what the formatter has of its own.
Character == Letters \cup ToSet(Digits) \cup ToSet(UpDigits) \cup ToSet(wszNull)
             \cup {" ", "t", "f", "T", "F"}

\* Formats and texts are made of letters, none of them a terminator or a mark of the
\* model; a number is one the stack holds, and no pointer; the buffer is shorter than an
\* INT counts, a DWORD a number of hexadecimal digits.
ASSUME SprintfAssumption ==
    /\ \A c \in Calls :
          /\ c.bufSize \in 1..Extent /\ c.fmt \in Seq(Letters)
          /\ \A a \in c.args : /\ a.number \in 0..QwordSize-1 /\ a.text \in Seq(Letters)
                               /\ a.signed \in BOOLEAN /\ (a.type = "integer" => ~a.null)
    /\ Letters \cap NoCharacter = {}
    /\ Extent \in Nat /\ DwordSize \in Nat /\ QwordSize \in Nat /\ DwordSize < QwordSize
    /\ Extent < DwordSize \div 2 /\ DwordSize % 16 = 0

VARIABLES
    fmt, bufSize, args, \* the call
    i,                  \* pwzFmt: the next format character
    currState,
    out, pos,           \* memory from the buffer's start on, and pwzStr in it
    strRemain,
    spec,               \* bForceSign, bLeftAlign, bPadZeroes, width
    precision,
    pbySrc,             \* the byte source pointer: never set, set, set to NULL
    pc,                 \* in the loop, after it, returned
    strLen,
    start,              \* history: where the present specification begins in the format
    last                \* history: the last conversion made

vars == <<fmt, bufSize, args, i, currState, out, pos, strRemain, spec, precision, pbySrc, pc, strLen,
          start, last>>

DigitValue(ch) == (CHOOSE k \in 1..10 : Digits[k] = ch) - 1

\* An argument: its type word, the integer as it lies on the stack, and the
\* modulus of its width; the text of a string, or of an integer read as bytes.
\* A NULL pointer has no text of its own; wide strings are never NULL here.
Integer(signed, modulus, number, text) ==
    [type |-> "integer", signed |-> signed, modulus |-> modulus, number |-> number, text |-> text, null |-> FALSE]
Text(type, text) ==
    [type |-> type, signed |-> FALSE, modulus |-> 1, number |-> 0, text |-> text, null |-> FALSE]
Null(type) == [Text(type, <<>>) EXCEPT !.null = TRUE]
Boolean(b) ==
    [type |-> "boolean", signed |-> FALSE, modulus |-> 2, number |-> IF b THEN 1 ELSE 0,
     text |-> <<>>, null |-> FALSE]

NoSpec == [forceSign |-> FALSE, leftAlign |-> FALSE, padZeroes |-> FALSE, width |-> 0]

NoConversion == [type |-> "none", spec |-> <<>>, arg |-> Boolean(FALSE), at |-> 0, room |-> 0]

Init ==
    /\ \E c \in Calls : fmt = c.fmt /\ bufSize = c.bufSize /\ args = c.args
    /\ i = 1 /\ currState = "NORMAL"
    /\ out = [o \in 0..Extent-1 |-> "old"] /\ pos = 0 /\ strRemain = bufSize
    /\ spec = NoSpec /\ precision = 0 /\ pbySrc = "unset"
    /\ pc = "loop" /\ strLen = 0
    /\ start = 0 /\ last = NoConversion

-----------------------------------------------------------------------------
(* The tables *)

CharType(ch) ==
    CASE ch = "%" -> "PERCENT"
      [] ch \in {"-", "+"} -> "FLAG"
      [] ch = "." -> "DOT"
      [] ch = "0" -> "ZERO"
      [] ch \in DigitChars \ {"0"} -> "DIGIT"
      [] ch \in {"c", "d", "x", "X", "b", "B", "s", "w"} -> "TYPE"
      [] OTHER -> "OTHER"

\* _stateTable; what is not listed reverts to NORMAL.
NextStates ==
    [NORMAL  |-> [PERCENT |-> "PERCENT"],
     PERCENT |-> [FLAG |-> "FLAG", DOT |-> "DOT", ZERO |-> "FLAG", DIGIT |-> "WIDTH", TYPE |-> "TYPE"],
     FLAG    |-> [FLAG |-> "FLAG", DOT |-> "DOT", ZERO |-> "FLAG", DIGIT |-> "WIDTH", TYPE |-> "TYPE"],
     WIDTH   |-> [DOT |-> "DOT", ZERO |-> "WIDTH", DIGIT |-> "WIDTH", TYPE |-> "TYPE"],
     DOT     |-> [ZERO |-> "PRECIS", DIGIT |-> "PRECIS"],
     PRECIS  |-> [ZERO |-> "PRECIS", DIGIT |-> "PRECIS", TYPE |-> "TYPE"],
     TYPE    |-> [PERCENT |-> "NORMAL"]]

getState(charType, state) ==
    IF charType \in DOMAIN NextStates[state] THEN NextStates[state][charType] ELSE "NORMAL"

-----------------------------------------------------------------------------
(* Writing *)

Min2(a, b) == IF a <= b THEN a ELSE b
Max2(a, b) == IF a >= b THEN a ELSE b

\* Memory with the characters of text from at on (text[k] = "skip" leaves one alone).
Written(text, at) ==
    [o \in DOMAIN out |->
        IF o - at + 1 \in DOMAIN text /\ text[o - at + 1] # "skip" THEN text[o - at + 1] ELSE out[o]]

\* MUTANT of Copy: the buffer's room is not asked for.
CopyUnbounded(text, length) ==
    /\ out' = Written(SubSeq(text, 1, length), pos)
    /\ pos' = pos + length
    /\ strRemain' = strRemain - length

\* copyAtoW, copyWtoW: as much of the source as both lengths allow.
Copy(text, length) ==
    LET n == Min2(length, strRemain) IN
    /\ out' = Written(SubSeq(text, 1, n), pos)
    /\ pos' = pos + n
    /\ strRemain' = strRemain - n

ValueSize(number, radix) ==
    CHOOSE n \in 1..20 : number < radix^n /\ (n = 1 \/ number >= radix^(n - 1))

\* Arithmetic, for the proofs, whose provers know no powers: a number of the stack
\* has some digits, and each place of it, its sign's included, has a power.
ASSUME NumeralAssumption ==
    \A n \in 0..QwordSize-1, radix \in {10, 16} :
        /\ ValueSize(n, radix) \in 1..20
        /\ \A k \in 0..ValueSize(n, radix) : radix^k \in Nat \ {0}

\* The characters printInt counts in a number, its sign among them.
NumberSize(number, radix, signed) ==
    ValueSize(number, radix)
    + (IF /\ signed /\ radix = 10
          /\ number >= QwordSize \div 2 \/ (number > 0 /\ spec.forceSign) THEN 1 ELSE 0)

\* printInt with pwzBuf = pos, bufSize = strRemain: what it writes and returns.
\* bufRemain is an INT; a digit is cut to DWORD before the remainder is taken.
printInt(number, radix, signed, upCase) ==
    LET room  == IF strRemain - 1 >= DwordSize \div 2 THEN 0 ELSE strRemain - 1
        size  == NumberSize(number, radix, signed)
        pad   == Max2(Max2(spec.width, 1) - size, 0)
        left  == IF spec.leftAlign THEN 0 ELSE Min2(pad, room)
        right == IF spec.leftAlign THEN Min2(pad, Max2(room - size, 0)) ELSE 0
        Pad   == IF spec.padZeroes THEN "0" ELSE " "
        Digit(k) == (((number \div radix^(size - k)) % DwordSize) % radix) + 1
        text  == [k \in 1..left |-> Pad]
                 \o [k \in 1..size |-> IF left + k > room THEN "skip"
                                       ELSE IF upCase THEN UpDigits[Digit(k)] ELSE Digits[Digit(k)]]
                 \o [k \in 1..right |-> Pad]
        zero  == IF Len(text) < room THEN <<NUL>> ELSE <<>>
    IN /\ out' = Written(text \o zero, pos)
       /\ pos' = pos + Len(text)
       /\ strRemain' = (strRemain - Len(text)) % DwordSize

-----------------------------------------------------------------------------
(* The main loop *)

wch == IF i <= Len(fmt) THEN fmt[i] ELSE NUL

\* One turn of the loop, with the character's state.
Turn(state) ==
    /\ pc = "loop" /\ wch # NUL /\ strRemain # 0
    /\ currState' = getState(CharType(wch), currState)
    /\ currState' = state
    /\ i' = i + 1
    /\ UNCHANGED <<fmt, bufSize, args, strLen>>

Literal ==
    /\ Turn("NORMAL")
    /\ Copy(<<wch>>, 1)
    /\ UNCHANGED <<spec, precision, pbySrc, pc, start, last>>

\* MUTANT of Percent: the settings of the specification before stay.
PercentKeepsSettings ==
    /\ Turn("PERCENT")
    /\ start' = i
    /\ UNCHANGED <<out, pos, strRemain, spec, precision, pbySrc, pc, last>>

\* The precision is not among the settings that go back to their defaults.
Percent ==
    /\ Turn("PERCENT")
    /\ spec' = NoSpec /\ start' = i
    /\ UNCHANGED <<out, pos, strRemain, precision, pbySrc, pc, last>>

Flag ==
    /\ Turn("FLAG")
    /\ spec' = [forceSign |-> spec.forceSign \/ wch = "+",
                leftAlign |-> spec.leftAlign \/ wch = "-",
                padZeroes |-> spec.padZeroes \/ wch = "0",
                width     |-> spec.width]
    /\ UNCHANGED <<out, pos, strRemain, precision, pbySrc, pc, start, last>>

Width ==
    /\ Turn("WIDTH")
    /\ spec' = [spec EXCEPT !.width = (10 * @ + DigitValue(wch)) % DwordSize]
    /\ UNCHANGED <<out, pos, strRemain, precision, pbySrc, pc, start, last>>

Precision ==
    /\ \/ Turn("DOT") /\ precision' = 0
       \/ Turn("PRECIS") /\ precision' = (10 * precision + DigitValue(wch)) % DwordSize
    /\ UNCHANGED <<out, pos, strRemain, spec, pbySrc, pc, start, last>>

\* The conversion of an argument whose type word fits; the history remembers it.
Converts(arg, types) ==
    /\ arg.type \in types
    /\ last' = [type |-> wch, spec |-> SubSeq(fmt, start + 1, i - 1), arg |-> arg,
                at |-> pos, room |-> strRemain]
    /\ UNCHANGED <<spec, precision, pc, start>>

ConvertPackedString(arg) ==
    /\ wch = "c" /\ Converts(arg, {"integer"}) /\ ~arg.signed
    /\ Copy(arg.text, Len(arg.text))
    /\ pbySrc' = "set"

ConvertInteger(arg) ==
    /\ wch \in {"d", "x", "X"} /\ Converts(arg, {"integer"})
    /\ printInt(arg.number, IF wch = "d" THEN 10 ELSE 16, arg.signed, wch = "X")
    /\ UNCHANGED pbySrc

\* The loop over the word never moves its source on: its first letter fills the rest.
ConvertBoolean(arg) ==
    /\ wch \in {"b", "B"} /\ Converts(arg, {"boolean"})
    /\ LET first == IF wch = "b" THEN (IF arg.number = 0 THEN "f" ELSE "t")
                                 ELSE (IF arg.number = 0 THEN "F" ELSE "T")
       IN Copy([k \in 1..strRemain |-> first], strRemain)
    /\ UNCHANGED pbySrc

ConvertString(arg) ==
    /\ wch = "s" /\ Converts(arg, {"kstring"})
    /\ LET text   == IF arg.null THEN wszNull ELSE arg.text
           length == Len(text)
       IN Copy(text, IF precision # 0 THEN Min2(length, precision) ELSE length)
    /\ UNCHANGED pbySrc

\* A wide string asks the byte pointer whether it is NULL, set or not.
ConvertWildString(arg) ==
    /\ wch = "w" /\ Converts(arg, {"ansi", "wide"})
    /\ \E null \in BOOLEAN :
          /\ IF arg.type = "ansi" THEN null = arg.null
             ELSE (pbySrc = "set" => ~null) /\ (pbySrc = "NULL" => null)
          /\ LET text == IF null THEN wszNull ELSE arg.text IN Copy(text, Len(text))
    /\ pbySrc' = IF arg.type = "wide" THEN pbySrc ELSE IF arg.null THEN "NULL" ELSE "set"

Type ==
    /\ Turn("TYPE")
    /\ \E arg \in args :
        \/ ConvertPackedString(arg) \/ ConvertInteger(arg) \/ ConvertBoolean(arg)
        \/ ConvertString(arg) \/ ConvertWildString(arg)

Fits(arg) ==
    \/ wch = "c" /\ arg.type = "integer" /\ ~arg.signed
    \/ wch \in {"d", "x", "X"} /\ arg.type = "integer"
    \/ wch \in {"b", "B"} /\ arg.type = "boolean"
    \/ wch = "s" /\ arg.type = "kstring"
    \/ wch = "w" /\ arg.type \in {"ansi", "wide"}

\* An argument of another type ends the loop.
Mismatch ==
    /\ Turn("TYPE")
    /\ \E arg \in args : ~Fits(arg)
    /\ pc' = "end"
    /\ UNCHANGED <<out, pos, strRemain, spec, precision, pbySrc, start, last>>

LoopEnd ==
    /\ pc = "loop" /\ (wch = NUL \/ strRemain = 0)
    /\ pc' = "end"
    /\ UNCHANGED <<fmt, bufSize, args, i, currState, out, pos, strRemain, spec, precision, pbySrc, strLen,
                   start, last>>

\* MUTANT of Return: no step back when the buffer is out.
ReturnKeepsPlace ==
    /\ pc = "end" /\ pc' = "done"
    /\ pos' = pos
    /\ out' = Written(<<NUL>>, pos')
    /\ strLen' = pos'
    /\ UNCHANGED <<fmt, bufSize, args, i, currState, strRemain, spec, precision, pbySrc, start, last>>

\* One step back when the buffer is out, and the terminating zero.
Return ==
    /\ pc = "end" /\ pc' = "done"
    /\ pos' = IF strRemain = 0 THEN pos - 1 ELSE pos
    /\ out' = Written(<<NUL>>, pos')
    /\ strLen' = pos'
    /\ UNCHANGED <<fmt, bufSize, args, i, currState, strRemain, spec, precision, pbySrc, start, last>>

Done == pc = "done" /\ UNCHANGED vars

Next == \/ Literal \/ Percent \/ Flag \/ Width \/ Precision \/ Type \/ Mismatch
        \/ LoopEnd \/ Return \/ Done

Spec == Init /\ [][Next]_vars

-----------------------------------------------------------------------------
(* What tprintf.cpp documents of a conversion *)

\* What the specification says between the per cent sign and the type: flags, a width
\* that starts with the first digit but 0, a precision behind the dot.
Before(chars, text) == LET stops == {k \in DOMAIN text : text[k] \in chars}
                       IN IF stops = {} THEN Len(text) ELSE Min(stops) - 1

NumberOf(text) ==
    LET value[k \in 0..Len(text)] == IF k = 0 THEN 0 ELSE 10 * value[k - 1] + DigitValue(text[k])
    IN value[Len(text)]

FlagsEnd(text) == Before((DigitChars \ {"0"}) \cup {"."}, text)
WidthEnd(text) == Before({"."}, text)

FlagsSaid(text) == ToSet(SubSeq(text, 1, FlagsEnd(text)))
WidthSaid(text) == NumberOf(SubSeq(text, FlagsEnd(text) + 1, WidthEnd(text)))
PrecisionSaid(text) ==
    IF "." \in ToSet(text) THEN NumberOf(SubSeq(text, WidthEnd(text) + 2, Len(text))) ELSE -1

TrueValue(arg) ==
    IF arg.signed /\ 2 * arg.number >= arg.modulus THEN arg.number - arg.modulus ELSE arg.number

Numeral(n, radix, upCase) ==
    LET size == ValueSize(n, radix)
        digit(k) == ((n \div radix^(size - k)) % radix) + 1
    IN [k \in 1..size |-> IF upCase THEN UpDigits[digit(k)] ELSE Digits[digit(k)]]

Sign(c) ==
    IF c.type # "d" \/ ~c.arg.signed THEN <<>>
    ELSE IF TrueValue(c.arg) < 0 THEN <<"-">> ELSE IF "+" \in FlagsSaid(c.spec) THEN <<"+">> ELSE <<>>

Magnitude(c) ==
    IF c.type # "d" THEN Numeral(c.arg.number, 16, c.type = "X")
    ELSE LET v == TrueValue(c.arg) IN Numeral(IF v < 0 THEN -v ELSE v, 10, FALSE)

\* An integer: sign, zeroes, numeral, or blanks on either side (tprintf.cpp:52-77).
DocumentedInteger(c) ==
    LET body == Sign(c) \o Magnitude(c)
        pad  == Max2(WidthSaid(c.spec) - Len(body), 0)
    IN IF "-" \in FlagsSaid(c.spec) THEN body \o [k \in 1..pad |-> " "]
       ELSE IF "0" \in FlagsSaid(c.spec) THEN Sign(c) \o [k \in 1..pad |-> "0"] \o Magnitude(c)
       ELSE [k \in 1..pad |-> " "] \o body

\* The characters of a boolean or a string: a string is cut to the precision given with
\* %s, and is "(null)" for a NULL pointer.
TextSaid(c) ==
    LET string == IF c.arg.null THEN wszNull ELSE c.arg.text
    IN CASE c.type = "b" -> IF c.arg.number = 0 THEN <<"f", "a", "l", "s", "e">> ELSE <<"t", "r", "u", "e">>
         [] c.type = "B" -> IF c.arg.number = 0 THEN <<"F", "A", "L", "S", "E">> ELSE <<"T", "R", "U", "E">>
         [] c.type = "s" /\ PrecisionSaid(c.spec) >= 0 ->
                SubSeq(string, 1, Min2(PrecisionSaid(c.spec), Len(string)))
         [] OTHER -> string

\* Blanks on either side up to the width, of any value (tprintf.cpp:67-77).
DocumentedText(c) ==
    LET blanks == [k \in 1..Max2(WidthSaid(c.spec) - Len(TextSaid(c)), 0) |-> " "]
    IN IF "-" \in FlagsSaid(c.spec) THEN TextSaid(c) \o blanks ELSE blanks \o TextSaid(c)

Documented(c) == IF c.type \in {"d", "x", "X"} THEN DocumentedInteger(c) ELSE DocumentedText(c)

-----------------------------------------------------------------------------
(* Properties *)

\* The type of every variable.
TypeOK ==
    /\ bufSize \in 1..Extent /\ i \in 1..Len(fmt) + 1
    /\ currState \in DOMAIN NextStates
    /\ out \in [0..Extent-1 -> Character \cup {NUL, "old"}] /\ pos \in Nat /\ strRemain \in 0..DwordSize-1
    /\ spec \in [forceSign : BOOLEAN, leftAlign : BOOLEAN, padZeroes : BOOLEAN, width : 0..DwordSize-1]
    /\ precision \in 0..DwordSize-1
    /\ pc \in {"loop", "end", "done"} /\ strLen \in Nat

\* tprintf.cpp:308, "print only in buffer bounds": no character is written past
\* the buffer, whatever the format and the arguments.
NeverOverruns == \A o \in DOMAIN out : o >= bufSize => out[o] = "old"

\* On return the string is terminated within its buffer at strLen, and everything
\* before has been written and is no terminator (no argument here holds one):
\* kdSendKString sends strLen characters.
Terminated ==
    pc = "done" => /\ strLen < bufSize /\ out[strLen] = NUL
                   /\ \A o \in 0..strLen-1 : out[o] \notin {"old", NUL}

\* The conversions for which the text and the code agree: numbers, unsigned and of
\* up to 32 bits if decimal; strings no shorter than their width, to which the code adds
\* no blanks, under no precision but their own, one of 0 being none to the code.
Agreed(c) ==
    \/ /\ c.type \in {"d", "x", "X"} /\ ~({"-", "0"} \subseteq FlagsSaid(c.spec))
       /\ c.type = "d" => ~c.arg.signed /\ c.arg.number < DwordSize
    \/ /\ WidthSaid(c.spec) <= Len(TextSaid(c))
       /\ \/ c.type = "c"
          \/ c.type = "w" /\ c.arg.type = "ansi"
          \/ /\ c.type = "s" /\ PrecisionSaid(c.spec) # 0
             /\ precision = (IF PrecisionSaid(c.spec) = -1 THEN 0 ELSE PrecisionSaid(c.spec))

\* Such a conversion, with room for it, prints what lines 46 to 124 of tprintf.cpp
\* say, whatever specifications and literals came before it.
PrintsAsDocumented ==
    currState = "TYPE" /\ pc = "loop" /\ Agreed(last) /\ Len(Documented(last)) < last.room
        => /\ pos = last.at + Len(Documented(last))
           /\ \A k \in 1..Len(Documented(last)) : out[last.at + k - 1] = Documented(last)[k]
=============================================================================
