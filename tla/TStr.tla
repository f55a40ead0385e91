-------------------------------- MODULE TStr --------------------------------
(***************************************************************************)
(* The string functions (vkern/tstrp.h, tstr.h) on a memory of character   *)
(* codes.  Copies and numbers are written as the interrupt table's listing *)
(* writes them (vkern.cpp:453-475): ptr += aszcpy(ptr, ..),                *)
(* ptr += aszIntToStr(ptr, ..).  Appends nobody in the repository makes:   *)
(* they are calls on the buffer whose results nobody uses.  A loop is      *)
(* where it stops: the first address that meets its exit condition.        *)
(***************************************************************************)
EXTENDS Integers, Sequences, FiniteSetsExt, SequencesExt

CONSTANTS
    Memory,         \* the memory the caller starts with, a function from 0 on
    Sources,        \* addresses of the strings in it, all behind the buffer
    Room,           \* the buffer is 0..Room-1
    Counts, Numbers, Widths, Radixes,       \* arguments the caller passes
    WordSize        \* values of an int

NUL    == 0
PLUS   == 43
MINUS  == 45
ZERO   == 48
NINE   == 57
CAPA   == 65
CAPZ   == 90
SMALLA == 97
NULL   == -1                \* no address
All == WordSize - 1         \* 0xFFFFFFFF

ASSUME TStrAssumption ==
    /\ Room \in Nat /\ Room > 1 /\ WordSize \in Nat /\ WordSize % 2 = 0
    /\ DOMAIN Memory = 0..Cardinality(DOMAIN Memory)-1 /\ Cardinality(DOMAIN Memory) < All
    /\ Sources \subseteq Room..Cardinality(DOMAIN Memory)-1
    /\ \A s \in Sources : \E a \in DOMAIN Memory : a >= s /\ Memory[a] = NUL
    /\ Counts \subseteq 0..All /\ Widths \subseteq Nat /\ Radixes \subseteq Nat
    /\ Numbers \subseteq -(WordSize \div 2)..(WordSize \div 2 - 1)

VARIABLES
    mem, ptr,       \* the memory and the caller's pointer
    said,           \* history: the text in the buffer as the calls document it
    told,           \* history: the characters copied as the calls at ptr document them
    ended,          \* history: whether a terminator is documented behind the text
    last,           \* history: the last number written, and where
    faulty          \* history: a negative number has been written with its sign

vars == <<mem, ptr, said, told, ended, last, faulty>>

NoNumber == [at |-> NULL, num |-> 0, radix |-> 0]

-----------------------------------------------------------------------------
(* The functions *)

First(from, Stop(_)) == Min({a \in DOMAIN mem : a >= from /\ Stop(a)})

tchlwr(ch) == IF ch \in CAPA..CAPZ THEN ch + (SMALLA - CAPA) ELSE ch

tszchr(string, ch) ==
    LET stop == First(string, LAMBDA a : mem[a] \in {NUL, ch})
    IN IF mem[stop] = NUL THEN NULL ELSE stop

\* MUTANT of tszrchr: the first one is kept.
tszrchrFirst(string, ch) ==
    LET end  == First(string, LAMBDA a : mem[a] = NUL)
        hits == {a \in string..end-1 : mem[a] = ch}
    IN IF hits = {} THEN NULL ELSE Min(hits)

tszrchr(string, ch) ==
    LET end  == First(string, LAMBDA a : mem[a] = NUL)
        hits == {a \in string..end-1 : mem[a] = ch}
    IN IF hits = {} THEN NULL ELSE Max(hits)

tszLength(str, count) == First(str, LAMBDA a : a - str = count \/ mem[a] = NUL) - str

tszlen(str)         == tszLength(str, All)
tsznlen(str, count) == tszLength(str, count)

\* What tszConcat does to memory, and what it returns.  The terminator is copied
\* with the string, if count lets it.
tszConcat(dst, src, count, append) ==
    LET to     == IF append THEN First(dst, LAMBDA a : mem[a] = NUL) ELSE dst
        length == tszLength(src, count)
        writes == to..(to + length - (IF length < count THEN 0 ELSE 1))
    IN [mem |-> [a \in DOMAIN mem |-> IF a \in writes THEN mem[src + (a - to)] ELSE mem[a]],
        ret |-> to + length - dst]

tszcpy(dst, src)         == tszConcat(dst, src, All, FALSE)
tszncpy(dst, src, count) == tszConcat(dst, src, count, FALSE)
tszcat(dst, src)         == tszConcat(dst, src, All, TRUE)
tszncat(dst, src, count) == tszConcat(dst, src, count, TRUE)

\* MUTANT of tszCompare: the end of the strings does not stop it.
tszCompareOn(str1, str2, count, ignoreCase) ==
    LET fold(a) == IF ignoreCase THEN tchlwr(mem[a]) ELSE mem[a]
        diff(k) == fold(str1 + k) - fold(str2 + k)
        n       == First(str2, LAMBDA a : a - str2 = count - 1 \/ diff(a - str2) # 0) - str2
    IN IF count = 0 THEN 0 ELSE diff(n)

tszCompare(str1, str2, count, ignoreCase) ==
    LET fold(a) == IF ignoreCase THEN tchlwr(mem[a]) ELSE mem[a]
        diff(k) == fold(str1 + k) - fold(str2 + k)
        n       == First(str2, LAMBDA a : \/ a - str2 = count - 1 \/ diff(a - str2) # 0
                                         \/ mem[a] = NUL) - str2
    IN IF count = 0 THEN 0 ELSE diff(n)

tszcmp(str1, str2)          == tszCompare(str1, str2, All, FALSE)
tszncmp(str1, str2, count)  == tszCompare(str1, str2, count, FALSE)
tszicmp(str1, str2)         == tszCompare(str1, str2, All, TRUE)
tsznicmp(str1, str2, count) == tszCompare(str1, str2, count, TRUE)

Unsigned(num) == num % WordSize
AsInt(n) == LET u == Unsigned(n) IN IF u < WordSize \div 2 THEN u ELSE u - WordSize

RECURSIVE NumberSize(_, _)
NumberSize(n, radix) == IF n = 0 THEN 0 ELSE 1 + NumberSize(n \div radix, radix)
DigitAt(n, radix, k) == (n \div radix^k) % radix        \* k = 0: the last
DigitChar(d, upCase) == IF d < 10 THEN ZERO + d ELSE (IF upCase THEN CAPA ELSE SMALLA) + d - 10

\* MUTANT of tszIntToStr: zeroes up to the width are not counted.
tszIntToStrUncounted(str, num, width, radix, upCase, signed) ==
    LET n      == Unsigned(num)
        minus  == IF num < 0 /\ signed /\ radix = 10 THEN 1 ELSE 0
        digits == NumberSize(n, radix)
        size   == minus + digits
        pad    == Max({width, 1, size}) - size
        end    == str + pad + size
        char(a) == IF a \in end-digits..end-1 THEN DigitChar(DigitAt(n, radix, end - 1 - a), upCase)
                   ELSE IF a = end THEN NUL
                   ELSE IF a \in str..str+pad-1 THEN ZERO
                   ELSE IF a = str /\ minus = 1 THEN MINUS ELSE mem[a]
    IN IF radix \notin 2..36 THEN [mem |-> mem, ret |-> 0]
       ELSE [mem |-> [a \in DOMAIN mem |-> char(a)], ret |-> size]

\* The sign of a negative number is written first and counted; the digits are those
\* of the unsigned number; zeroes overwrite the sign.
tszIntToStr(str, num, width, radix, upCase, signed) ==
    LET n      == Unsigned(num)
        minus  == IF num < 0 /\ signed /\ radix = 10 THEN 1 ELSE 0
        digits == NumberSize(n, radix)
        size   == minus + digits
        pad    == Max({width, 1, size}) - size
        end    == str + pad + size
        char(a) == IF a \in end-digits..end-1 THEN DigitChar(DigitAt(n, radix, end - 1 - a), upCase)
                   ELSE IF a = end THEN NUL
                   ELSE IF a \in str..str+pad-1 THEN ZERO
                   ELSE IF a = str /\ minus = 1 THEN MINUS ELSE mem[a]
    IN IF radix \notin 2..36 THEN [mem |-> mem, ret |-> 0]
       ELSE [mem |-> [a \in DOMAIN mem |-> char(a)], ret |-> pad + size]

\* MUTANT of DigitOf: one digit short.
DigitOfShort(ch, radix) ==
    LET low == IF radix < 10 THEN ch ELSE tchlwr(ch)
    IN IF radix < 10 THEN (IF low \in ZERO..ZERO+radix-2 THEN low - ZERO ELSE -1)
       ELSE IF low \in ZERO..NINE THEN low - ZERO
       ELSE IF low \in SMALLA..SMALLA+(radix - 10) THEN low - SMALLA ELSE -1

\* The value a digit has for tszStrToInt, -1 for what is none: below ten the radix
\* itself passes for a digit, and the letters count from 0.
DigitOf(ch, radix) ==
    LET low == IF radix < 10 THEN ch ELSE tchlwr(ch)
    IN IF radix < 10 THEN (IF low \in ZERO..ZERO+radix THEN low - ZERO ELSE -1)
       ELSE IF low \in ZERO..NINE THEN low - ZERO
       ELSE IF low \in SMALLA..SMALLA+(radix - 10) THEN low - SMALLA ELSE -1

\* From ten on, what precedes the first digit is skipped up to a sign or an end that
\* is not the first character.
tszStrToInt(str, radix) ==
    LET start == IF radix < 10 THEN str
                 ELSE First(str, LAMBDA a : \/ DigitOf(mem[a], radix) >= 0
                                            \/ a > str /\ mem[a] \in {NUL, PLUS, MINUS})
        negative == mem[start] = MINUS
        plus  == IF negative THEN start + 1 ELSE start
        from  == IF mem[plus] = PLUS THEN plus + 1 ELSE plus
        end   == First(from, LAMBDA a : DigitOf(mem[a], radix) < 0)
        value == FoldLeft(LAMBDA v, ch : (v * radix + DigitOf(ch, radix)) % WordSize, 0,
                          [k \in 1..end-from |-> mem[from + k - 1]])
    IN IF radix \notin 1..36 THEN [ok |-> FALSE, num |-> 0]
       ELSE [ok |-> TRUE, num |-> AsInt(IF negative THEN -value ELSE value)]

-----------------------------------------------------------------------------
(* The caller *)

Init ==
    /\ mem = [Memory EXCEPT ![0] = NUL]
    /\ ptr = 0 /\ said = <<>> /\ told = 0 /\ ended = TRUE /\ last = NoNumber /\ faulty = FALSE

StringAt(a) == [k \in 1..tszlen(a) |-> mem[a + k - 1]]
Cut(text, count) == SubSeq(text, 1, Min({count, Len(text)}))

\* A call at the pointer is documented to write text there, and a terminator or not:
\* without one, what lay behind it goes on.
Writes(text, terminated) ==
    /\ said' = SubSeq(said, 1, told) \o text
               \o (IF terminated THEN <<>> ELSE SubSeq(said, told + Len(text) + 1, Len(said)))
    /\ ended' = (terminated \/ (ended /\ told + Len(text) <= Len(said)))
    /\ told' = told + Len(text)

\* ptr += tszcpy(ptr, src), ptr += tszncpy(ptr, src, count)
Copy ==
    \E src \in Sources, count \in Counts :
        LET call == IF count = All THEN tszcpy(ptr, src) ELSE tszncpy(ptr, src, count)
            text == Cut(StringAt(src), count)
        IN  /\ ptr + Len(text) < Room
            /\ mem' = call.mem /\ ptr' = ptr + call.ret
            /\ Writes(text, count > Len(StringAt(src)))
            /\ last' = NoNumber /\ UNCHANGED faulty

\* tszcat(buffer, src), tszncat(buffer, src, count): appended to a string.  The result
\* is left alone: the comments call it the count of characters copied (tstr.h:133, 153),
\* the code counts what was there before as well (tstrp.h:176).
Catenate ==
    \E src \in Sources, count \in Counts :
        LET call == IF count = All THEN tszcat(0, src) ELSE tszncat(0, src, count)
            text == Cut(StringAt(src), count)
        IN  /\ ended /\ tszlen(0) + Len(text) < Room
            /\ mem' = call.mem
            /\ said' = said \o text
            /\ ended' = (count > Len(StringAt(src)) \/ text = <<>>)
            /\ last' = NoNumber /\ UNCHANGED <<ptr, told, faulty>>

\* A numeral as the comment at tstrp.h:213 has it.
RECURSIVE Numeral(_, _, _)
Numeral(n, radix, upCase) ==
    IF n < radix THEN <<DigitChar(n, upCase)>>
    ELSE Numeral(n \div radix, radix, upCase) \o <<DigitChar(n % radix, upCase)>>

Padded(text, width) == [k \in 1..Max({width - Len(text), 0}) |-> ZERO] \o text

\* ptr += tszIntToStr(ptr, num, width, radix, upCase, signed)
Number ==
    \E num \in Numbers, width \in Widths, radix \in Radixes, upCase \in BOOLEAN, signed \in BOOLEAN :
        LET call == tszIntToStr(ptr, num, width, radix, upCase, signed)
            text == IF radix \in 2..36 THEN Padded(Numeral(Unsigned(num), radix, upCase), width) ELSE <<>>
        IN  /\ ptr + Max({call.ret, Len(text)}) < Room
            /\ mem' = call.mem /\ ptr' = ptr + call.ret
            /\ Writes(text, radix \in 2..36)
            /\ last' = IF radix \in 2..36 THEN [at |-> ptr, num |-> num, radix |-> radix] ELSE NoNumber
            /\ faulty' = (faulty \/ (num < 0 /\ signed /\ radix = 10))

Next == Copy \/ Catenate \/ Number

Spec == Init /\ [][Next]_vars
-----------------------------------------------------------------------------
(* Properties *)

\* The type of every variable.
TypeOK ==
    /\ DOMAIN mem = DOMAIN Memory /\ ptr \in 0..Room-1
    /\ said \in Seq(Int) /\ told \in 0..Len(said) /\ ended \in BOOLEAN /\ faulty \in BOOLEAN
    /\ last \in [at : NULL..Room-1, num : Numbers \cup {0}, radix : Radixes \cup {0}]

\* However the calls follow one another, the buffer holds the text they document, each
\* behind or over the ones before it, with a terminator behind it unless a count ended
\* the copy (tstrp.h:146-155); the pointer has moved by the characters copied at it, and
\* the sources are as they were.  What an append returns is not asked, and a negative
\* number with its sign is left out: its digits are those of num + 2^32.
TextAsSaid ==
    ~faulty => /\ ptr = told /\ \A k \in DOMAIN said : mem[k - 1] = said[k]
               /\ ended => mem[Len(said)] = NUL
               /\ \A a \in DOMAIN mem : a >= Room => mem[a] = Memory[a]

\* What tszIntToStr wrote, tszStrToInt reads back (tstrp.h:213-216, 286-288), in every
\* radix that needs no letters; with letters it does not, for they count from 0.
ReadsBack ==
    last # NoNumber /\ last.radix <= 10 /\ ~faulty =>
        tszStrToInt(last.at, last.radix) = [ok |-> TRUE, num |-> last.num]

Occurrences(text, ch) == {k - 1 : k \in {j \in DOMAIN text : text[j] = ch}}

\* The order of two texts: that of the first codes that differ, the end being 0.
Order(s, t) ==
    LET code(text, k) == IF k \in DOMAIN text THEN text[k] ELSE NUL
        differ == {k \in 1..Max({Len(s), Len(t)}) : code(s, k) # code(t, k)}
    IN IF differ = {} THEN 0 ELSE code(s, Min(differ)) - code(t, Min(differ))

\* The searches give the first, the last and the end of what is there (but for the
\* terminator itself, which tszchr never finds against tstrp.h:93), and comparing gives
\* the order of the texts, cut to the count and without case if it is to be ignored.
FindsAndCompares ==
    ended /\ ~faulty =>
        /\ tszlen(0) = Len(said) /\ \A n \in Counts : tsznlen(0, n) = Len(Cut(said, n))
        /\ \A ch \in ToSet(said) \cup {PLUS} :
             LET at == Occurrences(said, ch)
             IN IF at = {} THEN tszchr(0, ch) = NULL /\ tszrchr(0, ch) = NULL
                           ELSE tszchr(0, ch) = Min(at) /\ tszrchr(0, ch) = Max(at)
        /\ \A src \in Sources :
             LET text   == StringAt(src)
                 low(t) == [k \in DOMAIN t |-> tchlwr(t[k])]
             IN /\ tszcmp(0, src)  = Order(said, text)
                /\ tszicmp(0, src) = Order(low(said), low(text))
                /\ \A n \in Counts :
                     /\ tszncmp(0, src, n)  = Order(Cut(said, n), Cut(text, n))
                     /\ tsznicmp(0, src, n) = Order(Cut(low(said), n), Cut(low(text), n))
=============================================================================
