--------------------------- MODULE SprintfProofs ---------------------------
(***************************************************************************)
(* What kSprintf keeps for every format and every argument, as long as no  *)
(* number asks for more than the room left, the one thing the code fails   *)
(* to look at (Sprintf's run sprintf_overrun).                             *)
(***************************************************************************)
EXTENDS Sprintf, SequenceTheorems, FiniteSetTheorems, TLAPS

Radix == IF wch = "d" THEN 10 ELSE 16

\* A number that is converted finds room for its characters and its width.
NumbersFit ==
    \A arg \in args :
        ConvertInteger(arg) =>
            /\ NumberSize(arg.number, Radix, arg.signed) <= strRemain
            /\ ~spec.leftAlign => spec.width <= strRemain

-----------------------------------------------------------------------------
(* The inductive invariant *)

\* A call's arguments and format are those of a call, and the room it counts is
\* never used up without a character written.
CallInv ==
    /\ fmt \in Seq(Letters)
    /\ \A a \in args : /\ a.number \in 0..QwordSize-1 /\ a.text \in Seq(Letters)
                       /\ a.signed \in BOOLEAN /\ (a.type = "integer" => ~a.null)
    /\ strRemain = 0 /\ pc # "done" => pos > 0

\* Until it returns, what is left of the buffer is what has not been written yet, and
\* everything before is written, but perhaps the very last character of a full buffer.
RoomInv ==
    pc # "done" =>
        /\ pos + strRemain = bufSize
        /\ \A o \in 0..pos-1 : out[o] \in {"old", NUL} => strRemain = 0 /\ o = pos - 1

SprintfInv == TypeOK /\ CallInv /\ RoomInv /\ NeverOverruns /\ Terminated

\* Where a specification is being read.
Specifying == {"PERCENT", "FLAG", "WIDTH", "DOT", "PRECIS"}

\* The present specification, as far as it has been read.
SpecText == SubSeq(fmt, start + 1, i - 1)

\* What the settings are when text has been read and has led to the state: the parts
\* the state has not come to are empty still, and of the flags not "+" alone.
Said(text, state, settings) ==
    /\ FlagsEnd(text) \in 0..WidthEnd(text) /\ WidthEnd(text) \in 0..Len(text)
    /\ \A k \in FlagsEnd(text)+1..WidthEnd(text) : text[k] \in DigitChars
    /\ state \in {"PERCENT", "FLAG"} => FlagsEnd(text) = Len(text)
    /\ state = "WIDTH" => FlagsEnd(text) < Len(text)
    /\ IF state \in {"PERCENT", "FLAG", "WIDTH"} THEN WidthEnd(text) = Len(text)
                                                 ELSE WidthEnd(text) < Len(text)
    /\ settings.leftAlign <=> "-" \in FlagsSaid(text)
    /\ settings.padZeroes <=> "0" \in FlagsSaid(text)
    /\ WidthSaid(text) \in Nat
    /\ WidthSaid(text) < DwordSize => settings.width = WidthSaid(text)

SaidInv ==
    pc = "loop" /\ currState \in Specifying =>
        start \in 1..i-1 /\ Said(SpecText, currState, spec)

DocumentedInv == SprintfInv /\ SaidInv /\ PrintsAsDocumented

-----------------------------------------------------------------------------
(* Induction on numbers *)

\* The library's induction takes a predicate; this is it for sets, from the order of
\* finite sets.
LEMMA LeastNumber ==
    ASSUME NEW T, T \subseteq Nat, T # {}
    PROVE  \E m \in T : \A k \in T : m <= k
<1>. DEFINE F == {1..n : n \in T}
<1>1. F \subseteq FiniteSubsetsOf(Nat)
  <2>1. \A n \in T : IsFiniteSet(1..n)
    BY FS_Interval
  <2>. QED BY <2>1 DEF FiniteSubsetsOf
<1>2. F # {}
  OBVIOUS
<1>3. IsWellFoundedOn(StrictSubsetOrdering(Nat), FiniteSubsetsOf(Nat))
  BY FS_StrictSubsetOrderingWellFounded
<1>4. PICK x \in F : \A y \in F : ~(<<y, x>> \in StrictSubsetOrdering(Nat))
  <2>. HIDE DEF F
  <2>. QED BY ONLY <1>1, <1>2, <1>3, WFMin
<1>5. PICK m \in T : x = 1..m
  OBVIOUS
<1>6. ASSUME NEW k \in T, k < m PROVE FALSE
  <2>1. <<1..k, 1..m>> \in StrictSubsetOrdering(Nat)
    <3>1. 1..k \in SUBSET Nat /\ 1..m \in SUBSET Nat /\ 1..k \subseteq 1..m /\ m \in 1..m /\ m \notin 1..k
      BY <1>6
    <3>. QED BY ONLY <3>1 DEF StrictSubsetOrdering
  <2>. QED BY <2>1, <1>4, <1>5
<1>. QED BY <1>6

LEMMA SetInduction ==
    ASSUME NEW S, 0 \in S, \A n \in Nat : n \in S => n + 1 \in S
    PROVE  \A n \in Nat : n \in S
<1>1. SUFFICES ASSUME Nat \ S # {} PROVE FALSE
  OBVIOUS
<1>2. PICK m \in Nat \ S : \A k \in Nat \ S : m <= k
  BY <1>1, LeastNumber
<1>. QED BY <1>2

-----------------------------------------------------------------------------
(* The number a text of digits says *)

\* The values of a text's initial parts up to n.
Values(text, n, v) ==
    v = [k \in 0..n |-> IF k = 0 THEN 0 ELSE 10 * v[k - 1] + DigitValue(text[k])]

LEMMA ValuesThere ==
    ASSUME NEW text
    PROVE  \A n \in Nat : \E v : Values(text, n, v)
<1>. DEFINE S == {n \in Nat : \E v : Values(text, n, v)}
<1>1. 0 \in S
  <2>. DEFINE v == [k \in 0..0 |-> 0]
  <2>1. v = [k \in 0..0 |-> IF k = 0 THEN 0 ELSE 10 * v[k - 1] + DigitValue(text[k])]
    OBVIOUS
  <2>. QED BY <2>1 DEF Values
<1>2. ASSUME NEW n \in Nat, n \in S PROVE n + 1 \in S
  <2>1. PICK u : u = [k \in 0..n |-> IF k = 0 THEN 0 ELSE 10 * u[k - 1] + DigitValue(text[k])]
    BY <1>2 DEF Values
  <2>. DEFINE v == [k \in 0..n+1 |-> IF k = n + 1 THEN 10 * u[n] + DigitValue(text[n + 1]) ELSE u[k]]
  <2>2. ASSUME NEW k \in 0..n+1
        PROVE  v[k] = IF k = 0 THEN 0 ELSE 10 * v[k - 1] + DigitValue(text[k])
    <3>1. CASE k = n + 1
      <4>1. k # 0 /\ k - 1 = n /\ n \in 0..n+1 /\ n # n + 1
        BY <3>1
      <4>. QED BY <3>1, <4>1
    <3>2. CASE k # n + 1
      <4>1. k \in 0..n /\ (k # 0 => k - 1 \in 0..n+1 /\ k - 1 # n + 1)
        BY <3>2
      <4>2. u[k] = IF k = 0 THEN 0 ELSE 10 * u[k - 1] + DigitValue(text[k])
        BY <2>1, <4>1
      <4>. QED BY <3>2, <4>1, <4>2
    <3>. QED BY <3>1, <3>2
  <2>3. v = [k \in 0..n+1 |-> IF k = 0 THEN 0 ELSE 10 * v[k - 1] + DigitValue(text[k])]
    BY <2>2
  <2>. HIDE DEF v
  <2>4. Values(text, n + 1, v)
    BY <2>3 DEF Values
  <2>. QED BY <2>4
<1>. HIDE DEF S
<1>3. \A n \in Nat : n \in S
  BY <1>1, <1>2, SetInduction
<1>. QED BY <1>3 DEF S

\* They depend on the digits so far alone.
LEMMA ValuesAgree ==
    ASSUME NEW s, NEW t, NEW m \in Nat, NEW n \in Nat, NEW u, NEW v,
           Values(s, m, u), Values(t, n, v), NEW l \in Nat, l <= m, l <= n,
           \A k \in 1..l : s[k] = t[k]
    PROVE  u[l] = v[l]
<1>. DEFINE S == {k \in Nat : k <= l => u[k] = v[k]}
<1>1. /\ \A k \in 0..m : u[k] = IF k = 0 THEN 0 ELSE 10 * u[k - 1] + DigitValue(s[k])
      /\ \A k \in 0..n : v[k] = IF k = 0 THEN 0 ELSE 10 * v[k - 1] + DigitValue(t[k])
  BY DEF Values
<1>2. 0 \in S
  BY <1>1
<1>3. ASSUME NEW k \in Nat, k \in S PROVE k + 1 \in S
  <2>. SUFFICES ASSUME k + 1 <= l PROVE u[k + 1] = v[k + 1]
    OBVIOUS
  <2>1. u[k] = v[k] /\ s[k + 1] = t[k + 1]
    BY <1>3
  <2>2. k + 1 \in 0..m /\ k + 1 \in 0..n /\ k + 1 # 0 /\ k + 1 - 1 = k
    OBVIOUS
  <2>. QED BY <1>1, <2>1, <2>2
<1>. HIDE DEF S
<1>4. l \in S
  BY <1>2, <1>3, SetInduction
<1>. QED BY <1>4 DEF S

LEMMA NumberOfText ==
    ASSUME NEW text, Len(text) \in Nat
    PROVE  \E v : Values(text, Len(text), v) /\ NumberOf(text) = v[Len(text)]
<1>. DEFINE v == CHOOSE v : Values(text, Len(text), v)
<1>1. Values(text, Len(text), v)
  BY ValuesThere
<1>2. NumberOf(text) = v[Len(text)]
  BY DEF NumberOf, Values
<1>. QED BY <1>1, <1>2

LEMMA DigitChars10 ==
    ASSUME NEW ch \in DigitChars
    PROVE  DigitValue(ch) \in 0..9
<1>1. \E k \in 1..10 : Digits[k] = ch
  <2>1. /\ Digits[1] = "0" /\ Digits[2] = "1" /\ Digits[3] = "2" /\ Digits[4] = "3"
        /\ Digits[5] = "4" /\ Digits[6] = "5" /\ Digits[7] = "6" /\ Digits[8] = "7"
        /\ Digits[9] = "8" /\ Digits[10] = "9"
    BY DEF Digits
  <2>. QED BY <2>1 DEF DigitChars
<1>2. (CHOOSE k \in 1..10 : Digits[k] = ch) \in 1..10
  BY <1>1, Zenon
<1>. QED BY <1>2 DEF DigitValue

LEMMA NumberGrows ==
    ASSUME NEW text \in Seq(DigitChars), NEW ch \in DigitChars
    PROVE  /\ NumberOf(text) \in Nat /\ NumberOf(<<>>) = 0
           /\ NumberOf(Append(text, ch)) = 10 * NumberOf(text) + DigitValue(ch)
<1>. DEFINE n == Len(text)
            long == Append(text, ch)
<1>1. n \in Nat /\ Len(long) = n + 1 /\ long[n + 1] = ch /\ \A k \in 1..n : long[k] = text[k]
  BY AppendProperties
<1>2. PICK v : Values(text, n, v) /\ NumberOf(text) = v[n]
  BY <1>1, NumberOfText
<1>. HIDE DEF long
<1>3. PICK w : Values(long, n + 1, w) /\ NumberOf(long) = w[n + 1]
  BY <1>1, NumberOfText
<1>4. w[n] = v[n]
  <2>1. n + 1 \in Nat /\ n <= n + 1 /\ n <= n
    BY <1>1
  <2>. HIDE DEF n
  <2>. QED BY <1>1, <1>2, <1>3, <2>1, ValuesAgree
<1>5. w[n + 1] = 10 * w[n] + DigitValue(long[n + 1])
  <2>1. n + 1 \in 0..n+1 /\ n + 1 # 0 /\ n + 1 - 1 = n
    BY <1>1
  <2>. QED BY <1>3, <2>1 DEF Values
<1>6. NumberOf(<<>>) = 0
  <2>1. Len(<<>>) = 0
    OBVIOUS
  <2>2. PICK u : Values(<<>>, 0, u) /\ NumberOf(<<>>) = u[0]
    BY <2>1, NumberOfText
  <2>. QED BY <2>2 DEF Values
<1>7. v[n] \in Nat
  <2>. DEFINE S == {k \in Nat : k <= n => v[k] \in Nat}
  <2>1. \A k \in 0..n : v[k] = IF k = 0 THEN 0 ELSE 10 * v[k - 1] + DigitValue(text[k])
    BY <1>2 DEF Values
  <2>2. 0 \in S
    BY <1>1, <2>1
  <2>3. ASSUME NEW k \in Nat, k \in S PROVE k + 1 \in S
    <3>. SUFFICES ASSUME k + 1 <= n PROVE v[k + 1] \in Nat
      OBVIOUS
    <3>1. v[k] \in Nat /\ k + 1 \in 0..n /\ k + 1 # 0 /\ k + 1 - 1 = k /\ text[k + 1] \in DigitChars
      BY <1>1, <2>3
    <3>2. DigitValue(text[k + 1]) \in 0..9
      BY <3>1, DigitChars10
    <3>3. v[k + 1] = 10 * v[k] + DigitValue(text[k + 1])
      BY <2>1, <3>1
    <3>. QED BY <3>1, <3>2, <3>3
  <2>. HIDE DEF S
  <2>4. n \in S
    BY <1>1, <2>2, <2>3, SetInduction
  <2>. QED BY <2>4 DEF S
<1>. QED BY <1>1, <1>2, <1>3, <1>4, <1>5, <1>6, <1>7 DEF long

-----------------------------------------------------------------------------
(* Where a specification's parts end *)

\* Before ends where the first of the characters stands, and nowhere else.
EndsAt(chars, text, n) ==
    /\ n \in 0..Len(text)
    /\ \A k \in 1..n : text[k] \notin chars
    /\ n < Len(text) => text[n + 1] \in chars

LEMMA BeforeEnds ==
    ASSUME NEW S, NEW text \in Seq(S), NEW chars
    PROVE  EndsAt(chars, text, Before(chars, text))
<1>. DEFINE stops == {k \in DOMAIN text : text[k] \in chars}
<1>1. DOMAIN text = 1..Len(text) /\ Len(text) \in Nat
  OBVIOUS
<1>2. CASE stops = {}
  <2>1. Before(chars, text) = Len(text)
    BY <1>2 DEF Before
  <2>. QED BY <1>1, <1>2, <2>1 DEF EndsAt
<1>3. CASE stops # {}
  <2>0. stops \subseteq Nat
    BY <1>1
  <2>1. PICK m \in stops : \A k \in stops : m <= k
    <3>. HIDE DEF stops
    <3>. QED BY ONLY <1>3, <2>0, LeastNumber
  <2>2. Min(stops) \in stops /\ \A k \in stops : Min(stops) <= k
    BY <2>1 DEF Min
  <2>3. Before(chars, text) = Min(stops) - 1
    BY <1>3 DEF Before
  <2>. DEFINE n == Min(stops)
  <2>4. n \in 1..Len(text) /\ text[n] \in chars /\ \A k \in stops : n <= k
    BY <1>1, <2>2
  <2>. HIDE DEF n
  <2>5. ASSUME NEW k \in 1..n-1 PROVE text[k] \notin chars
    BY <1>1, <2>4
  <2>. QED BY <1>1, <2>3, <2>4, <2>5 DEF EndsAt, n
<1>. QED BY <1>2, <1>3

LEMMA EndsOnce ==
    ASSUME NEW S, NEW text \in Seq(S), NEW chars, NEW n, EndsAt(chars, text, n)
    PROVE  Before(chars, text) = n
<1>. DEFINE m == Before(chars, text)
<1>1. EndsAt(chars, text, m)
  BY BeforeEnds
<1>. HIDE DEF m
<1>2. /\ m \in 0..Len(text) /\ n \in 0..Len(text) /\ Len(text) \in Nat
      /\ \A k \in 1..n : text[k] \notin chars
      /\ \A k \in 1..m : text[k] \notin chars
      /\ n < Len(text) => text[n + 1] \in chars
      /\ m < Len(text) => text[m + 1] \in chars
  BY <1>1 DEF EndsAt
<1>3. ~(m < n)
  <2>1. m < n => m + 1 \in 1..n /\ m < Len(text)
    BY <1>2
  <2>. QED BY <1>2, <2>1
<1>4. ~(n < m)
  <2>1. n < m => n + 1 \in 1..m /\ n < Len(text)
    BY <1>2
  <2>. QED BY <1>2, <2>1
<1>. QED BY <1>2, <1>3, <1>4 DEF m

\* One more character moves the end only where it was that of the text.
LEMMA BeforeGrows ==
    ASSUME NEW S, NEW text \in Seq(S), NEW ch \in S, NEW chars
    PROVE  Before(chars, Append(text, ch)) =
              IF Before(chars, text) = Len(text) /\ ch \notin chars THEN Len(text) + 1
              ELSE Before(chars, text)
<1>. DEFINE n == Before(chars, text)
            long == Append(text, ch)
<1>1. /\ long \in Seq(S) /\ Len(text) \in Nat /\ Len(long) = Len(text) + 1
      /\ long[Len(text) + 1] = ch /\ \A k \in 1..Len(text) : long[k] = text[k]
  BY AppendProperties
<1>2. EndsAt(chars, text, n)
  BY BeforeEnds
<1>. HIDE DEF n, long
<1>3. /\ n \in 0..Len(text) /\ \A k \in 1..n : text[k] \notin chars
      /\ n < Len(text) => text[n + 1] \in chars
  BY <1>2 DEF EndsAt
<1>4. CASE n = Len(text) /\ ch \notin chars
  <2>1. \A k \in 1..n+1 : long[k] \notin chars
    <3>. SUFFICES ASSUME NEW k \in 1..n+1 PROVE long[k] \notin chars
      OBVIOUS
    <3>1. k \in 1..n \/ k = n + 1
      BY <1>1, <1>3
    <3>. QED BY <1>1, <1>3, <1>4, <3>1
  <2>2. EndsAt(chars, long, n + 1)
    BY <1>1, <1>3, <1>4, <2>1 DEF EndsAt
  <2>. QED BY <1>1, <1>4, <2>2, EndsOnce DEF n, long
<1>5. CASE ~(n = Len(text) /\ ch \notin chars)
  <2>1. \A k \in 1..n : long[k] \notin chars
    BY <1>1, <1>3
  <2>2. n < Len(long) /\ long[n + 1] \in chars
    <3>1. CASE n < Len(text)
      <4>1. n + 1 \in 1..Len(text)
        BY <1>1, <1>3, <3>1
      <4>. QED BY <1>1, <1>3, <3>1, <4>1
    <3>2. CASE n = Len(text)
      BY <1>1, <1>5, <3>2
    <3>. QED BY <1>1, <1>3, <3>1, <3>2
  <2>3. EndsAt(chars, long, n)
    BY <1>1, <1>3, <2>1, <2>2 DEF EndsAt
  <2>. QED BY <1>1, <1>5, <2>3, EndsOnce DEF n, long
<1>. QED BY <1>4, <1>5 DEF n

-----------------------------------------------------------------------------
(* A specification grows by a character *)

LEMMA PartKept ==
    ASSUME NEW S, NEW text \in Seq(S), NEW ch \in S, NEW a \in Nat \ {0}, NEW b \in 0..Len(text)
    PROVE  /\ SubSeq(Append(text, ch), a, b) = SubSeq(text, a, b)
           /\ SubSeq(text, a, b) \in Seq(S)
<1>. DEFINE long == Append(text, ch)
<1>1. /\ Len(text) \in Nat /\ long \in Seq(S)
      /\ \A k \in 1..Len(text) : long[k] = text[k] /\ text[k] \in S
  BY AppendProperties
<1>. HIDE DEF long
<1>2. \A k \in a..b : k \in 1..Len(text) /\ long[k] \in S /\ text[k] \in S
  BY <1>1
<1>3. /\ SubSeq(long, a, b) \in Seq(S) /\ Len(SubSeq(long, a, b)) = (IF a <= b THEN b - a + 1 ELSE 0)
      /\ \A k \in 1..b-a+1 : SubSeq(long, a, b)[k] = long[a + k - 1]
  BY <1>2, SubSeqProperties
<1>4. /\ SubSeq(text, a, b) \in Seq(S) /\ Len(SubSeq(text, a, b)) = (IF a <= b THEN b - a + 1 ELSE 0)
      /\ \A k \in 1..b-a+1 : SubSeq(text, a, b)[k] = text[a + k - 1]
  BY <1>2, SubSeqProperties
<1>5. \A k \in 1..b-a+1 : a + k - 1 \in 1..Len(text)
  BY <1>1
<1>6. \A k \in 1..Len(SubSeq(long, a, b)) : SubSeq(long, a, b)[k] = SubSeq(text, a, b)[k]
  BY <1>1, <1>3, <1>4, <1>5
<1>. QED BY <1>3, <1>4, <1>6, SeqEqual DEF long

LEMMA PartGrown ==
    ASSUME NEW S, NEW text \in Seq(S), NEW ch \in S, NEW a \in 1..Len(text)+1
    PROVE  SubSeq(Append(text, ch), a, Len(text) + 1) = Append(SubSeq(text, a, Len(text)), ch)
<1>. DEFINE long == Append(text, ch)
            n == Len(text)
<1>1. long \in Seq(S) /\ n \in Nat /\ Len(long) = n + 1 /\ long[n + 1] = ch
  BY AppendProperties
<1>2. a \in 1..Len(long) /\ n + 1 \in a..Len(long)
  BY <1>1
<1>3. SubSeq(long, a, n + 1) = SubSeq(long, a, n + 1 - 1) \o <<long[n + 1]>>
  BY <1>1, <1>2, SubSeqRecursiveSecond
<1>4. SubSeq(long, a, n) = SubSeq(text, a, n) /\ SubSeq(text, a, n) \in Seq(S)
  BY <1>1, PartKept
<1>5. n + 1 - 1 = n
  BY <1>1
<1>6. Append(SubSeq(text, a, n), ch) = SubSeq(text, a, n) \o <<ch>>
  BY <1>4, AppendIsConcat
<1>. QED BY <1>1, <1>3, <1>4, <1>5, <1>6

LEMMA ToSetGrows ==
    ASSUME NEW S, NEW text \in Seq(S), NEW ch \in S
    PROVE  ToSet(Append(text, ch)) = ToSet(text) \cup {ch}
<1>. DEFINE long == Append(text, ch)
            n == Len(text)
<1>1. /\ long \in Seq(S) /\ n \in Nat /\ Len(long) = n + 1 /\ long[n + 1] = ch
      /\ \A k \in 1..n : long[k] = text[k]
      /\ DOMAIN long = 1..n+1 /\ DOMAIN text = 1..n
  BY AppendProperties
<1>. HIDE DEF long, n
<1>2. {long[k] : k \in 1..n+1} = {text[k] : k \in 1..n} \cup {ch}
  <2>1. \A k \in 1..n+1 : k \in 1..n \/ k = n + 1
    BY <1>1
  <2>2. n + 1 \in 1..n+1 /\ \A k \in 1..n : k \in 1..n+1
    BY <1>1
  <2>. QED BY <1>1, <2>1, <2>2
<1>. QED BY <1>1, <1>2 DEF ToSet, long

\* A flag adds to the flags.
LEMMA FlagSaid ==
    ASSUME NEW S, NEW text \in Seq(S), NEW ch \in S,
           FlagsEnd(text) = Len(text), WidthEnd(text) = Len(text),
           ch \notin (DigitChars \ {"0"}) \cup {"."}
    PROVE  LET long == Append(text, ch)
           IN /\ FlagsEnd(long) = Len(long) /\ WidthEnd(long) = Len(long)
              /\ FlagsSaid(long) = FlagsSaid(text) \cup {ch}
              /\ WidthSaid(text) = 0 /\ WidthSaid(long) = 0
<1>. DEFINE long == Append(text, ch)
<1>1. long \in Seq(S) /\ Len(text) \in Nat /\ Len(long) = Len(text) + 1
  BY AppendProperties
<1>2. FlagsEnd(long) = Len(long) /\ WidthEnd(long) = Len(long)
  BY <1>1, BeforeGrows DEF FlagsEnd, WidthEnd
<1>3. SubSeq(text, 1, Len(text)) = text /\ SubSeq(long, 1, Len(long)) = long
  BY <1>1, SubSeqFull
<1>4. FlagsSaid(long) = FlagsSaid(text) \cup {ch}
  <2>1. FlagsSaid(text) = ToSet(text) /\ FlagsSaid(long) = ToSet(long)
    BY <1>2, <1>3 DEF FlagsSaid
  <2>2. ToSet(long) = ToSet(text) \cup {ch}
    BY ToSetGrows
  <2>. QED BY <2>1, <2>2
<1>5. SubSeq(text, Len(text) + 1, Len(text)) = <<>> /\ SubSeq(long, Len(long) + 1, Len(long)) = <<>>
  BY <1>1, SubSeqEmpty
<1>6. NumberOf(<<>>) = 0
  <2>1. "0" \in DigitChars /\ <<>> \in Seq(DigitChars)
    BY DEF DigitChars
  <2>. QED BY <2>1, NumberGrows
<1>. QED BY <1>2, <1>4, <1>5, <1>6 DEF WidthSaid

\* A digit behind the flags adds to the width.
LEMMA DigitSaid ==
    ASSUME NEW S, NEW text \in Seq(S), NEW ch \in S \cap DigitChars,
           FlagsEnd(text) \in 0..Len(text), WidthEnd(text) = Len(text),
           \A k \in FlagsEnd(text)+1..Len(text) : text[k] \in DigitChars,
           FlagsEnd(text) < Len(text) \/ ch # "0"
    PROVE  LET long == Append(text, ch)
           IN /\ FlagsEnd(long) = FlagsEnd(text) /\ WidthEnd(long) = Len(long)
              /\ FlagsSaid(long) = FlagsSaid(text)
              /\ WidthSaid(text) \in Nat
              /\ WidthSaid(long) = 10 * WidthSaid(text) + DigitValue(ch)
<1>. DEFINE long == Append(text, ch)
            e == FlagsEnd(text)
            width == SubSeq(text, e + 1, Len(text))
<1>1. long \in Seq(S) /\ Len(text) \in Nat /\ Len(long) = Len(text) + 1 /\ e \in Nat /\ e <= Len(text)
  BY AppendProperties
<1>2. ch # "." /\ ch \in DigitChars /\ ch \in S
  BY DEF DigitChars
<1>3. WidthEnd(long) = Len(long)
  BY <1>1, <1>2, BeforeGrows DEF WidthEnd
<1>4. FlagsEnd(long) = e
  <2>1. ~(e = Len(text) /\ ch \notin (DigitChars \ {"0"}) \cup {"."})
    BY <1>1, <1>2
  <2>. QED BY <1>1, <1>2, <2>1, BeforeGrows DEF FlagsEnd
<1>. HIDE DEF e
<1>5. SubSeq(long, 1, e) = SubSeq(text, 1, e)
  BY <1>1, <1>2, PartKept
<1>6. SubSeq(long, e + 1, Len(text) + 1) = Append(width, ch)
  <2>1. e + 1 \in 1..Len(text)+1
    BY <1>1
  <2>. QED BY <1>1, <1>2, <2>1, PartGrown
<1>7. width \in Seq(DigitChars)
  <2>1. \A k \in e+1..Len(text) : text[k] \in DigitChars
    BY DEF e
  <2>. QED BY <1>1, <2>1, SubSeqProperties
<1>. HIDE DEF width, long
<1>8. NumberOf(width) \in Nat /\ NumberOf(Append(width, ch)) = 10 * NumberOf(width) + DigitValue(ch)
  BY <1>2, <1>7, NumberGrows
<1>9. WidthSaid(text) = NumberOf(width) /\ WidthSaid(long) = NumberOf(Append(width, ch))
  BY <1>1, <1>3, <1>4, <1>6 DEF WidthSaid, width, e
<1>10. FlagsSaid(long) = FlagsSaid(text)
  BY <1>4, <1>5 DEF FlagsSaid, e
<1>. QED BY <1>3, <1>4, <1>8, <1>9, <1>10 DEF long, e

\* The dot and what is behind it change neither.
LEMMA PrecisionLeaves ==
    ASSUME NEW S, NEW text \in Seq(S), NEW ch \in S,
           FlagsEnd(text) \in 0..WidthEnd(text), WidthEnd(text) \in 0..Len(text),
           ch = "." \/ WidthEnd(text) < Len(text)
    PROVE  LET long == Append(text, ch)
           IN /\ FlagsEnd(long) = FlagsEnd(text) /\ WidthEnd(long) = WidthEnd(text)
              /\ FlagsSaid(long) = FlagsSaid(text) /\ WidthSaid(long) = WidthSaid(text)
<1>. DEFINE long == Append(text, ch)
            e == FlagsEnd(text)
            f == WidthEnd(text)
<1>1. /\ long \in Seq(S) /\ Len(text) \in Nat /\ Len(long) = Len(text) + 1
      /\ e \in Nat /\ f \in Nat /\ e <= f /\ f <= Len(text)
  BY AppendProperties
<1>2. FlagsEnd(long) = e
  <2>1. ~(e = Len(text) /\ ch \notin (DigitChars \ {"0"}) \cup {"."})
    BY <1>1
  <2>. QED BY <1>1, <2>1, BeforeGrows DEF FlagsEnd
<1>3. WidthEnd(long) = f
  <2>1. ~(f = Len(text) /\ ch \notin {"."})
    BY <1>1
  <2>. QED BY <1>1, <2>1, BeforeGrows DEF WidthEnd
<1>. HIDE DEF e, f
<1>4. SubSeq(long, 1, e) = SubSeq(text, 1, e) /\ SubSeq(long, e + 1, f) = SubSeq(text, e + 1, f)
  <2>1. e \in 0..Len(text) /\ f \in 0..Len(text) /\ e + 1 \in Nat \ {0} /\ 1 \in Nat \ {0}
    BY <1>1
  <2>. QED BY <1>1, <2>1, PartKept
<1>. HIDE DEF long
<1>. QED BY <1>2, <1>3, <1>4 DEF FlagsSaid, WidthSaid, e, f, long

-----------------------------------------------------------------------------
(* Texts and memory *)

\* What memory holds, and what is put there.
Cell == Character \cup {NUL, "old"}
Piece == Character \cup {NUL, "skip"}

LEMMA Characters ==
    /\ Character \subseteq Cell \cap Piece /\ Letters \subseteq Character /\ NUL \in Cell \cap Piece
    /\ \A ch \in Character : ch \notin {NUL, "old", "skip"}
    /\ NUL # "skip" /\ "old" # "skip" /\ NUL # "old" /\ "skip" \in Piece
    /\ \A k \in 1..16 : Digits[k] \in Character /\ UpDigits[k] \in Character
    /\ {"0", " ", "t", "f", "T", "F"} \subseteq Character
    /\ wszNull \in Seq(Character) /\ Len(wszNull) = 6
<1>1. Letters \cap {NUL, "old", "skip"} = {}
  BY SprintfAssumption DEF NoCharacter
<1>2. DOMAIN Digits = 1..16 /\ DOMAIN UpDigits = 1..16 /\ DOMAIN wszNull = 1..6
  BY DEF Digits, UpDigits, wszNull
<1>3. /\ ToSet(Digits) = {Digits[k] : k \in 1..16} /\ ToSet(UpDigits) = {UpDigits[k] : k \in 1..16}
      /\ ToSet(wszNull) = {wszNull[k] : k \in 1..6}
  BY <1>2 DEF ToSet
<1>4. \A k \in 1..16 : Digits[k] \notin {NUL, "old", "skip"} /\ UpDigits[k] \notin {NUL, "old", "skip"}
  BY DEF Digits, UpDigits, NUL
<1>5. \A k \in 1..6 : wszNull[k] \notin {NUL, "old", "skip"}
  BY DEF wszNull, NUL
<1>6. Character = Letters \cup {Digits[k] : k \in 1..16} \cup {UpDigits[k] : k \in 1..16}
                  \cup {wszNull[k] : k \in 1..6} \cup {" ", "t", "f", "T", "F"}
  BY <1>3 DEF Character
<1>7. \A ch \in Character : ch \notin {NUL, "old", "skip"}
  BY <1>1, <1>4, <1>5, <1>6 DEF NUL
<1>8. "0" = Digits[1]
  BY DEF Digits
<1>9. wszNull \in Seq(Character) /\ Len(wszNull) = 6
  <2>1. \A k \in 1..6 : wszNull[k] \in Character
    BY <1>6
  <2>. HIDE DEF Character
  <2>. QED BY <2>1 DEF wszNull
<1>10. /\ Letters \subseteq Character /\ {"0", " ", "t", "f", "T", "F"} \subseteq Character
       /\ \A k \in 1..16 : Digits[k] \in Character /\ UpDigits[k] \in Character
  <2>1. \A k \in 1..16 : Digits[k] \in Character /\ UpDigits[k] \in Character
    BY ONLY <1>6
  <2>2. "0" \in Character
    BY ONLY <1>8, <2>1
  <2>. QED BY <1>6, <2>1, <2>2
<1>11. NUL # "skip" /\ "old" # "skip" /\ NUL # "old"
  BY DEF NUL
<1>12. Character \subseteq Cell \cap Piece /\ NUL \in Cell \cap Piece /\ "skip" \in Piece
  BY DEF Cell, Piece
<1>. QED BY <1>7, <1>9, <1>10, <1>11, <1>12

LEMMA Listed ==
    ASSUME NEW S, NEW n \in Nat, NEW f \in [1..n -> S]
    PROVE  f \in Seq(S) /\ Len(f) = n /\ \A k \in 1..n : f[k] \in S
OBVIOUS

LEMMA Widened ==
    ASSUME NEW S, NEW T, S \subseteq T, NEW t \in Seq(S)
    PROVE  t \in Seq(T)
<1>1. \A k \in 1..Len(t) : t[k] \in T
  OBVIOUS
<1>. QED BY <1>1

LEMMA Joined ==
    ASSUME NEW S, NEW a \in Seq(S), NEW b \in Seq(S), NEW c, c = a \o b
    PROVE  /\ c \in Seq(S) /\ Len(c) = Len(a) + Len(b)
           /\ \A k \in 1..Len(c) : c[k] = IF k <= Len(a) THEN a[k] ELSE b[k - Len(a)]
BY ConcatProperties

\* Memory changes where the text is put, and only there.
LEMMA WrittenThere ==
    ASSUME out \in [0..Extent-1 -> Cell], NEW text \in Seq(Piece), NEW at \in Nat,
           NEW m, m = Written(text, at)
    PROVE  /\ m \in [0..Extent-1 -> Cell]
           /\ \A o \in 0..Extent-1 : o < at \/ o >= at + Len(text) => m[o] = out[o]
           /\ \A o \in 0..Extent-1 : at <= o /\ o < at + Len(text) =>
                 m[o] = IF text[o - at + 1] = "skip" THEN out[o] ELSE text[o - at + 1]
<1>1. DOMAIN text = 1..Len(text) /\ Len(text) \in Nat /\ \A k \in 1..Len(text) : text[k] \in Piece
  OBVIOUS
<1>2. DOMAIN out = 0..Extent-1 /\ Extent \in Nat
  BY SprintfAssumption
<1>3. m = [o \in 0..Extent-1 |->
             IF o - at + 1 \in 1..Len(text) /\ text[o - at + 1] # "skip" THEN text[o - at + 1] ELSE out[o]]
  BY <1>1, <1>2 DEF Written
<1>4. m \in [0..Extent-1 -> Cell]
  BY <1>1, <1>3 DEF Cell, Piece
<1>5. ASSUME NEW o \in 0..Extent-1, o < at \/ o >= at + Len(text) PROVE m[o] = out[o]
  <2>1. o - at + 1 \notin 1..Len(text)
    BY <1>1, <1>2, <1>5
  <2>. QED BY <1>3, <2>1
<1>6. ASSUME NEW o \in 0..Extent-1, at <= o, o < at + Len(text)
      PROVE  m[o] = IF text[o - at + 1] = "skip" THEN out[o] ELSE text[o - at + 1]
  <2>1. o - at + 1 \in 1..Len(text)
    BY <1>1, <1>2, <1>6
  <2>. QED BY <1>3, <2>1
<1>. QED BY <1>4, <1>5, <1>6

-----------------------------------------------------------------------------
(* What the writing operations do *)

\* n characters are added: the buffer's room shrinks by them, if need be below zero,
\* which no DWORD is.
Adds(n) ==
    /\ out' \in [0..Extent-1 -> Cell]
    /\ pos' = pos + n
    /\ strRemain' = (strRemain - n) % DwordSize

\* They fit, and are characters, but perhaps the very last of a full buffer.
AddsWithin(n) ==
    /\ n <= strRemain
    /\ \A o \in 0..Extent-1 : o < pos \/ o >= pos + strRemain => out'[o] = out[o]
    /\ \A o \in 0..Extent-1 : pos <= o /\ o < pos + n =>
          out'[o] \in Character \/ (o = pos + strRemain - 1 /\ n = strRemain)

LEMMA CopyAdds ==
    ASSUME TypeOK, NEW text \in Seq(Character), NEW length \in 0..Len(text), Copy(text, length)
    PROVE  LET n == Min2(length, strRemain)
           IN /\ n \in Nat /\ Adds(n) /\ AddsWithin(n)
              /\ \A o \in 0..Extent-1 : pos <= o /\ o < pos + n => out'[o] = text[o - pos + 1]
<1>. DEFINE n == Min2(length, strRemain)
            t == SubSeq(text, 1, n)
<1>1. /\ strRemain \in 0..DwordSize-1 /\ DwordSize \in Nat /\ pos \in Nat /\ Extent \in Nat
      /\ out \in [0..Extent-1 -> Cell]
  BY SprintfAssumption DEF TypeOK, Cell
<1>2. n \in Nat /\ n <= length /\ n <= strRemain /\ Len(text) \in Nat /\ n <= Len(text)
  BY <1>1 DEF Min2
<1>3. out' = Written(t, pos) /\ pos' = pos + n /\ strRemain' = strRemain - n
  BY DEF Copy
<1>. HIDE DEF n
<1>4. t \in Seq(Character) /\ Len(t) = n /\ \A k \in 1..n : t[k] \in Character /\ t[k] = text[k]
  <2>1. \A k \in 1..n : text[k] \in Character
    BY <1>2
  <2>2. /\ t \in Seq(Character) /\ Len(t) = (IF 1 <= n THEN n - 1 + 1 ELSE 0)
        /\ \A k \in 1..n-1+1 : t[k] = text[1 + k - 1]
    BY <1>2, <2>1, SubSeqProperties
  <2>3. Len(t) = n /\ \A k \in 1..n : k \in 1..n-1+1 /\ 1 + k - 1 = k
    BY <1>2, <2>2
  <2>. QED BY <2>1, <2>2, <2>3
<1>5. t \in Seq(Piece)
  <2>1. \A k \in 1..Len(t) : t[k] \in Piece
    BY <1>4, Characters
  <2>. QED BY <1>4, <2>1
<1>. HIDE DEF t
<1>6. /\ out' \in [0..Extent-1 -> Cell]
      /\ \A o \in 0..Extent-1 : o < pos \/ o >= pos + n => out'[o] = out[o]
      /\ \A o \in 0..Extent-1 : pos <= o /\ o < pos + n =>
            out'[o] = IF t[o - pos + 1] = "skip" THEN out[o] ELSE t[o - pos + 1]
  <2>1. /\ out' \in [0..Extent-1 -> Cell]
        /\ \A o \in 0..Extent-1 : o < pos \/ o >= pos + Len(t) => out'[o] = out[o]
        /\ \A o \in 0..Extent-1 : pos <= o /\ o < pos + Len(t) =>
              out'[o] = IF t[o - pos + 1] = "skip" THEN out[o] ELSE t[o - pos + 1]
    BY ONLY <1>1, <1>3, <1>5, WrittenThere
  <2>2. Len(t) = n
    BY <1>4
  <2>. QED BY ONLY <2>1, <2>2
<1>7. \A o \in 0..Extent-1 :
         pos <= o /\ o < pos + n => out'[o] \in Character /\ out'[o] = text[o - pos + 1]
  <2>. SUFFICES ASSUME NEW o \in 0..Extent-1, pos <= o, o < pos + n
                PROVE  out'[o] \in Character /\ out'[o] = text[o - pos + 1]
    OBVIOUS
  <2>1. o - pos + 1 \in 1..n
    BY <1>1, <1>2
  <2>. QED BY <1>4, <1>6, <2>1, Characters
<1>8. strRemain - n = (strRemain - n) % DwordSize
  BY <1>1, <1>2
<1>9. \A o \in 0..Extent-1 : o < pos \/ o >= pos + strRemain => o < pos \/ o >= pos + n
  BY <1>1, <1>2
<1>. QED BY <1>2, <1>3, <1>6, <1>7, <1>8, <1>9 DEF Adds, AddsWithin, n

\* The parts of what printInt writes.
PrintRoom == IF strRemain - 1 >= DwordSize \div 2 THEN 0 ELSE strRemain - 1
PrintPad(size) == Max2(Max2(spec.width, 1) - size, 0)
PrintLeft(size) == IF spec.leftAlign THEN 0 ELSE Min2(PrintPad(size), PrintRoom)
PrintRight(size) == IF spec.leftAlign THEN Min2(PrintPad(size), Max2(PrintRoom - size, 0)) ELSE 0
PadChar == IF spec.padZeroes THEN "0" ELSE " "
DigitAt(number, radix, upCase, place) ==
    LET d == (((number \div radix^place) % DwordSize) % radix) + 1
    IN IF upCase THEN UpDigits[d] ELSE Digits[d]

\* A number's text is its padding and its characters, with gaps where the buffer has no
\* room for them.
IsPrinted(text, number, radix, upCase, size) ==
    /\ text \in Seq(Piece) /\ Len(text) = PrintLeft(size) + size + PrintRight(size)
    /\ \A k \in 1..Len(text) :
          text[k] = IF k <= PrintLeft(size) THEN PadChar
                    ELSE IF k <= PrintLeft(size) + size
                         THEN IF k > PrintRoom THEN "skip"
                              ELSE DigitAt(number, radix, upCase, size - (k - PrintLeft(size)))
                    ELSE PadChar

\* It is put into memory, and a zero behind it where there is room for one.
Puts(text) ==
    /\ \A o \in 0..Extent-1 :
          \/ o < pos \/ o > pos + Len(text) \/ (o = pos + Len(text) /\ Len(text) >= PrintRoom)
          => out'[o] = out[o]
    /\ \A o \in 0..Extent-1 :
          pos <= o /\ o < pos + Len(text) =>
              out'[o] = IF text[o - pos + 1] = "skip" THEN out[o] ELSE text[o - pos + 1]

LEMMA PrintWrites ==
    ASSUME TypeOK, NEW number \in 0..QwordSize-1, NEW radix \in {10, 16},
           NEW signed \in BOOLEAN, NEW upCase \in BOOLEAN, strRemain # 0,
           printInt(number, radix, signed, upCase)
    PROVE  LET size == NumberSize(number, radix, signed)
           IN /\ size \in Nat \ {0} /\ PrintLeft(size) \in Nat /\ PrintRight(size) \in Nat
              /\ PrintRoom \in Nat /\ PadChar \in Character
              /\ \A k \in 1..size : DigitAt(number, radix, upCase, size - k) \in Character
              /\ \E text : /\ IsPrinted(text, number, radix, upCase, size) /\ Puts(text)
                           /\ Len(text) \in Nat \ {0} /\ Adds(Len(text))
<1>. DEFINE room  == PrintRoom
            size  == NumberSize(number, radix, signed)
            left  == PrintLeft(size)
            right == PrintRight(size)
            Pad   == PadChar
            Digit(k) == (((number \div radix^(size - k)) % DwordSize) % radix) + 1
            a == [k \in 1..left |-> Pad]
            b == [k \in 1..size |-> IF left + k > room THEN "skip"
                                    ELSE IF upCase THEN UpDigits[Digit(k)] ELSE Digits[Digit(k)]]
            c == [k \in 1..right |-> Pad]
            text == a \o b \o c
            zero == IF Len(text) < room THEN <<NUL>> ELSE <<>>
<1>1. /\ out' = Written(text \o zero, pos) /\ pos' = pos + Len(text)
      /\ strRemain' = (strRemain - Len(text)) % DwordSize
  BY DEF printInt, PrintRoom, PrintPad, PrintLeft, PrintRight, PadChar
<1>2. /\ strRemain \in 0..DwordSize-1 /\ DwordSize \in Nat /\ pos \in Nat /\ Extent \in Nat
      /\ out \in [0..Extent-1 -> Cell] /\ spec.width \in 0..DwordSize-1
      /\ spec.leftAlign \in BOOLEAN /\ spec.padZeroes \in BOOLEAN
  BY SprintfAssumption DEF TypeOK, Cell
<1>3. size \in Nat \ {0} /\ \A k \in 1..size : size - k \in 0..ValueSize(number, radix)
  <2>1. ValueSize(number, radix) \in 1..20
    BY NumeralAssumption
  <2>2. size = ValueSize(number, radix) \/ size = ValueSize(number, radix) + 1
    BY <2>1 DEF NumberSize
  <2>. HIDE DEF size
  <2>. QED BY <2>1, <2>2
<1>4. \A k \in 1..size : radix^(size - k) \in Nat \ {0}
  BY <1>3, NumeralAssumption
<1>5. \A k \in 1..size : Digit(k) \in 1..16
  <2>1. \A q \in Nat \ {0} : (((number \div q) % DwordSize) % radix) + 1 \in 1..16
    <3>. SUFFICES ASSUME NEW q \in Nat \ {0} PROVE (((number \div q) % DwordSize) % radix) + 1 \in 1..16
      OBVIOUS
    <3>1. number \div q \in Int
      OBVIOUS
    <3>2. DwordSize \in Nat \ {0}
      BY <1>2
    <3>3. (number \div q) % DwordSize \in Int
      BY <3>1, <3>2
    <3>. QED BY <3>3
  <2>. QED BY <1>4, <2>1
<1>6. room \in Nat /\ left \in Nat /\ right \in Nat
  BY <1>2, <1>3 DEF Min2, Max2, PrintRoom, PrintPad, PrintLeft, PrintRight
<1>7. Pad \in Character
  BY Characters DEF PadChar
<1>. HIDE DEF room, size, left, right, Pad, Digit
<1>8. a \in Seq(Piece) /\ Len(a) = left /\ \A k \in 1..left : a[k] \in Character
  <2>1. a \in [1..left -> Character]
    BY <1>7
  <2>2. a \in [1..left -> Piece]
    BY <2>1, Characters
  <2>. QED BY ONLY <1>6, <2>1, <2>2, Listed
<1>9. c \in Seq(Piece) /\ Len(c) = right /\ \A k \in 1..right : c[k] \in Character
  <2>1. c \in [1..right -> Character]
    BY <1>7
  <2>2. c \in [1..right -> Piece]
    BY <2>1, Characters
  <2>. QED BY ONLY <1>6, <2>1, <2>2, Listed
<1>10. /\ b \in Seq(Piece) /\ Len(b) = size
       /\ \A k \in 1..size : left + k <= room => b[k] \in Character
  <2>1. \A k \in 1..size : UpDigits[Digit(k)] \in Character /\ Digits[Digit(k)] \in Character
    BY <1>5, Characters
  <2>2. \A k \in 1..size : b[k] = "skip" \/ b[k] \in Character
    BY <2>1
  <2>3. \A k \in 1..size : left + k <= room => b[k] \in Character
    BY <1>3, <1>6, <2>1
  <2>4. b \in [1..size -> Piece]
    <3>1. \A k \in 1..size : b[k] \in Piece
      BY <2>2, Characters
    <3>. QED BY <3>1
  <2>. QED BY <1>3, <2>3, <2>4, Listed
<1>. HIDE DEF a, b, c
<1>11. /\ text \in Seq(Piece) /\ Len(text) = left + size + right
       /\ \A k \in 1..Len(text) : text[k] = IF k <= left THEN a[k] ELSE
                                            IF k <= left + size THEN b[k - left] ELSE c[k - left - size]
  <2>. DEFINE ab == a \o b
  <2>1. ab = a \o b
    OBVIOUS
  <2>. HIDE DEF ab
  <2>2. ab \in Seq(Piece) /\ Len(ab) = left + size
        /\ \A k \in 1..left+size : ab[k] = IF k <= left THEN a[k] ELSE b[k - left]
    <3>1. a \in Seq(Piece) /\ b \in Seq(Piece)
      BY <1>8, <1>10
    <3>2. /\ ab \in Seq(Piece) /\ Len(ab) = Len(a) + Len(b)
          /\ \A k \in 1..Len(ab) : ab[k] = IF k <= Len(a) THEN a[k] ELSE b[k - Len(a)]
      BY ONLY <2>1, <3>1, Joined
    <3>. QED BY <1>8, <1>10, <3>2
  <2>3. /\ text \in Seq(Piece) /\ Len(text) = left + size + right
        /\ \A k \in 1..Len(text) : text[k] = IF k <= left + size THEN ab[k] ELSE c[k - (left + size)]
    <3>1. text = ab \o c
      BY DEF ab
    <3>. QED BY ONLY <1>9, <2>2, <3>1, Joined
  <2>4. ASSUME NEW k \in 1..Len(text)
        PROVE  text[k] = IF k <= left THEN a[k] ELSE
                         IF k <= left + size THEN b[k - left] ELSE c[k - left - size]
    <3>1. k \in Nat /\ k >= 1 /\ left \in Nat /\ size \in Nat /\ k - (left + size) = k - left - size
          /\ (k <= left + size => k \in 1..left+size) /\ (k <= left => k <= left + size)
      BY <1>3, <1>6, <2>3
    <3>. QED BY <2>2, <2>3, <3>1
  <2>. QED BY <2>3, <2>4
<1>. DEFINE whole == text \o zero
<1>. HIDE DEF text
<1>12. /\ whole \in Seq(Piece) /\ Len(whole) \in Nat
       /\ Len(whole) = Len(text) \/ (Len(whole) = Len(text) + 1 /\ Len(text) < room)
       /\ \A k \in 1..Len(text) : whole[k] = text[k]
  <2>1. zero \in Seq(Piece) /\ (Len(zero) = 0 \/ (Len(zero) = 1 /\ Len(text) < room))
    <3>1. NUL \in Piece
      BY Characters
    <3>2. <<NUL>> \in Seq(Piece) /\ Len(<<NUL>>) = 1
      BY <3>1
    <3>. QED BY <3>2
  <2>2. whole = text \o zero
    OBVIOUS
  <2>. HIDE DEF zero, whole
  <2>3. /\ whole \in Seq(Piece) /\ Len(whole) = Len(text) + Len(zero)
        /\ \A k \in 1..Len(whole) : whole[k] = IF k <= Len(text) THEN text[k] ELSE zero[k - Len(text)]
    <3>1. text \in Seq(Piece) /\ zero \in Seq(Piece)
      BY <1>11, <2>1
    <3>. QED BY ONLY <2>2, <3>1, Joined
  <2>4. Len(text) \in Nat
    BY <1>11
  <2>. QED BY <2>1, <2>3, <2>4
<1>. HIDE DEF whole, zero
<1>13. /\ Len(text) \in Nat \ {0}
  BY <1>3, <1>6, <1>11
<1>14. /\ out' \in [0..Extent-1 -> Cell]
       /\ \A o \in 0..Extent-1 : o < pos \/ o >= pos + Len(whole) => out'[o] = out[o]
       /\ \A o \in 0..Extent-1 : pos <= o /\ o < pos + Len(whole) =>
             out'[o] = IF whole[o - pos + 1] = "skip" THEN out[o] ELSE whole[o - pos + 1]
  <2>1. out' = Written(whole, pos)
    BY <1>1 DEF whole
  <2>. QED BY <1>2, <1>12, <2>1, WrittenThere
<1>15. Adds(Len(text))
  BY <1>1, <1>14 DEF Adds, text
<1>16. \A k \in 1..size : DigitAt(number, radix, upCase, size - k) \in Character
  BY <1>5, Characters DEF DigitAt, Digit
<1>17. ASSUME NEW k \in 1..Len(text)
       PROVE  text[k] = IF k <= left THEN Pad
                        ELSE IF k <= left + size
                             THEN IF k > room THEN "skip"
                                  ELSE DigitAt(number, radix, upCase, size - (k - left))
                        ELSE Pad
  <2>1. k \in Nat /\ k >= 1 /\ k <= left + size + right
    BY <1>11, <1>13
  <2>2. CASE k <= left
    <3>1. k \in 1..left /\ text[k] = a[k]
      BY <1>6, <1>11, <2>1, <2>2
    <3>. QED BY <2>2, <3>1 DEF a
  <2>3. CASE k > left /\ k <= left + size
    <3>1. k - left \in 1..size /\ ~(k <= left) /\ left + (k - left) = k
      BY <1>3, <1>6, <2>1, <2>3
    <3>2. text[k] = b[k - left]
      BY <1>11, <2>3, <3>1
    <3>3. b[k - left] = IF k > room THEN "skip" ELSE DigitAt(number, radix, upCase, size - (k - left))
      BY <3>1 DEF b, DigitAt, Digit
    <3>. QED BY <2>3, <3>1, <3>2, <3>3
  <2>4. CASE k > left + size
    <3>1. k - left - size \in 1..right /\ ~(k <= left) /\ ~(k <= left + size)
      BY <1>3, <1>6, <2>1, <2>4
    <3>2. text[k] = c[k - left - size]
      BY <1>11, <3>1
    <3>. QED BY <3>1, <3>2 DEF c
  <2>. QED BY <1>3, <1>6, <2>1, <2>2, <2>3, <2>4
<1>18. IsPrinted(text, number, radix, upCase, size)
  BY <1>11, <1>17 DEF IsPrinted, left, right, room, Pad
<1>19. Puts(text)
  <2>1. ASSUME NEW o \in 0..Extent-1,
               \/ o < pos \/ o > pos + Len(text) \/ (o = pos + Len(text) /\ Len(text) >= room)
        PROVE  out'[o] = out[o]
    <3>1. o < pos \/ o >= pos + Len(whole)
      BY <1>2, <1>6, <1>12, <1>13, <2>1
    <3>. QED BY <1>14, <3>1
  <2>2. ASSUME NEW o \in 0..Extent-1, pos <= o, o < pos + Len(text)
        PROVE  out'[o] = IF text[o - pos + 1] = "skip" THEN out[o] ELSE text[o - pos + 1]
    <3>1. o - pos + 1 \in 1..Len(text) /\ o < pos + Len(whole)
      BY <1>2, <1>12, <1>13, <2>2
    <3>. QED BY <1>12, <1>14, <2>2, <3>1
  <2>. QED BY <2>1, <2>2 DEF Puts, room
<1>. QED BY <1>3, <1>6, <1>7, <1>13, <1>15, <1>16, <1>18, <1>19 DEF room, size, left, right, Pad

\* Where the number and its width find room, all of it stays within the buffer.
LEMMA PrintAdds ==
    ASSUME TypeOK, strRemain # 0, NEW number \in 0..QwordSize-1, NEW radix \in {10, 16},
           NEW signed \in BOOLEAN, NEW upCase \in BOOLEAN,
           printInt(number, radix, signed, upCase)
    PROVE  \E n \in Nat \ {0} :
              /\ Adds(n)
              /\ /\ strRemain <= Extent
                 /\ NumberSize(number, radix, signed) <= strRemain
                 /\ ~spec.leftAlign => spec.width <= strRemain
                 => AddsWithin(n)
<1>. DEFINE size == NumberSize(number, radix, signed)
            left == PrintLeft(size)
            right == PrintRight(size)
<1>1. /\ size \in Nat \ {0} /\ left \in Nat /\ right \in Nat /\ PrintRoom \in Nat
      /\ PadChar \in Character
      /\ \A k \in 1..size : DigitAt(number, radix, upCase, size - k) \in Character
  BY PrintWrites
<1>2. PICK text : /\ IsPrinted(text, number, radix, upCase, size) /\ Puts(text)
                  /\ Len(text) \in Nat \ {0} /\ Adds(Len(text))
  BY PrintWrites
<1>3. /\ strRemain \in 0..DwordSize-1 /\ pos \in Nat /\ Extent \in Nat
      /\ spec.width \in 0..DwordSize-1 /\ spec.leftAlign \in BOOLEAN
  BY SprintfAssumption DEF TypeOK
<1>. HIDE DEF size
<1>4. ASSUME strRemain <= Extent, size <= strRemain, ~spec.leftAlign => spec.width <= strRemain
      PROVE  AddsWithin(Len(text))
  <2>1. PrintRoom = strRemain - 1
    BY <1>3, <1>4, SprintfAssumption DEF PrintRoom
  <2>2. left + size + right <= strRemain
    BY <1>1, <1>3, <1>4, <2>1 DEF PrintLeft, PrintRight, PrintPad, Min2, Max2
  <2>. HIDE DEF left, right
  <2>3. Len(text) <= strRemain
    BY <1>2, <2>2 DEF IsPrinted, left, right
  <2>4. ASSUME NEW k \in 1..Len(text), k # strRemain PROVE text[k] \in Character
    <3>1. text[k] = IF k <= left THEN PadChar
                    ELSE IF k <= left + size
                         THEN IF k > PrintRoom THEN "skip"
                              ELSE DigitAt(number, radix, upCase, size - (k - left))
                    ELSE PadChar
      BY <1>2 DEF IsPrinted, left
    <3>2. k \in Nat /\ ~(k > PrintRoom)
      BY <1>2, <1>3, <2>1, <2>3, <2>4
    <3>3. CASE k > left /\ k <= left + size
      <4>1. k - left \in 1..size /\ ~(k <= left)
        BY <1>1, <3>2, <3>3
      <4>2. text[k] = DigitAt(number, radix, upCase, size - (k - left))
        BY <3>1, <3>2, <3>3, <4>1
      <4>. QED BY <1>1, <4>1, <4>2
    <3>4. CASE k <= left \/ k > left + size
      <4>1. k <= left \/ (~(k <= left) /\ ~(k <= left + size))
        BY <1>1, <3>2, <3>4
      <4>. QED BY <1>1, <3>1, <4>1
    <3>. QED BY <1>1, <3>2, <3>3, <3>4
  <2>5. ASSUME NEW o \in 0..Extent-1, pos <= o, o < pos + Len(text)
        PROVE  out'[o] \in Character \/ (o = pos + strRemain - 1 /\ Len(text) = strRemain)
    <3>1. o - pos + 1 \in 1..Len(text)
      BY <1>2, <1>3, <2>5
    <3>2. CASE o - pos + 1 # strRemain
      <4>1. text[o - pos + 1] \in Character
        BY <2>4, <3>1, <3>2
      <4>. QED BY <1>2, <2>5, <4>1, Characters DEF Puts
    <3>3. CASE o - pos + 1 = strRemain
      BY <1>2, <1>3, <2>3, <3>1, <3>3
    <3>. QED BY <3>2, <3>3
  <2>6. ASSUME NEW o \in 0..Extent-1, o < pos \/ o >= pos + strRemain PROVE out'[o] = out[o]
    <3>1. \/ o < pos \/ o > pos + Len(text)
          \/ (o = pos + Len(text) /\ Len(text) >= PrintRoom)
      BY <1>2, <1>3, <2>1, <2>3, <2>6
    <3>. QED BY <1>2, <3>1 DEF Puts
  <2>. QED BY <2>3, <2>5, <2>6 DEF AddsWithin
<1>. QED BY <1>2, <1>4 DEF size

LEMMA QuietAdds ==
    ASSUME TypeOK, UNCHANGED <<out, pos, strRemain>>
    PROVE  \E n \in Nat : Adds(n) /\ AddsWithin(n)
<1>1. /\ strRemain \in 0..DwordSize-1 /\ DwordSize \in Nat /\ pos \in Nat /\ Extent \in Nat
      /\ out \in [0..Extent-1 -> Cell]
  BY SprintfAssumption DEF TypeOK, Cell
<1>2. pos' = pos + 0 /\ strRemain' = (strRemain - 0) % DwordSize
  BY <1>1
<1>3. Adds(0)
  BY <1>1, <1>2 DEF Adds
<1>4. AddsWithin(0)
  <2>1. 0 <= strRemain /\ \A o \in 0..Extent-1 : ~(pos <= o /\ o < pos + 0)
    BY <1>1
  <2>. QED BY <2>1 DEF AddsWithin
<1>. QED BY <1>3, <1>4

-----------------------------------------------------------------------------
(* The steps *)

LEMMA TurnReads ==
    ASSUME TypeOK, CallInv, NEW state, Turn(state)
    PROVE  /\ pc = "loop" /\ strRemain # 0 /\ wch \in Letters
           /\ i' \in 1..Len(fmt')+1 /\ currState' = state
           /\ state = getState(CharType(wch), currState)
           /\ UNCHANGED <<fmt, bufSize, args, strLen>>
<1>1. i \in 1..Len(fmt)+1 /\ fmt \in Seq(Letters) /\ Len(fmt) \in Nat
  BY DEF TypeOK, CallInv
<1>2. i <= Len(fmt) /\ wch = fmt[i]
  BY DEF Turn, wch
<1>3. i \in 1..Len(fmt) /\ i + 1 \in 1..Len(fmt)+1
  BY <1>1, <1>2
<1>4. wch \in Letters
  BY <1>1, <1>2, <1>3
<1>. QED BY <1>3, <1>4 DEF Turn

LEMMA DigitRead ==
    ASSUME currState \in DOMAIN NextStates,
           getState(CharType(wch), currState) \in {"WIDTH", "PRECIS"}
    PROVE  DigitValue(wch) \in 0..9
<1>1. CharType(wch) \in {"ZERO", "DIGIT"}
  BY DEF getState, NextStates
<1>2. wch \in DigitChars
  BY <1>1 DEF CharType, DigitChars
<1>. QED BY <1>2, DigitChars10

\* Every step but Return's adds characters, if only none.
LEMMA EveryStepAdds ==
    ASSUME TypeOK, CallInv, Next
    PROVE  \/ /\ pc # "done" /\ pc' \in {"loop", "end"}
              /\ UNCHANGED <<fmt, bufSize, args, strLen>>
              /\ \E n \in Nat : /\ Adds(n)
                                /\ NumbersFit /\ strRemain <= Extent => AddsWithin(n)
           \/ Return
           \/ UNCHANGED vars
<1>. DEFINE Goal == /\ pc # "done" /\ pc' \in {"loop", "end"}
                    /\ UNCHANGED <<fmt, bufSize, args, strLen>>
                    /\ \E n \in Nat : /\ Adds(n)
                                      /\ NumbersFit /\ strRemain <= Extent => AddsWithin(n)
<1>1. CASE Literal
  <2>1. Turn("NORMAL") /\ Copy(<<wch>>, 1) /\ pc' = pc
    BY <1>1 DEF Literal
  <2>2. pc = "loop" /\ wch \in Character /\ UNCHANGED <<fmt, bufSize, args, strLen>>
    BY <2>1, TurnReads, Characters
  <2>3. <<wch>> \in Seq(Character) /\ 1 \in 0..Len(<<wch>>)
    BY <2>2
  <2>. QED BY <2>1, <2>2, <2>3, CopyAdds
<1>2. CASE Percent \/ Flag \/ Width \/ Precision \/ Mismatch \/ LoopEnd
  <2>1. UNCHANGED <<out, pos, strRemain>>
    BY <1>2 DEF Percent, Flag, Width, Precision, Mismatch, LoopEnd
  <2>2. pc = "loop" /\ pc' \in {"loop", "end"} /\ UNCHANGED <<fmt, bufSize, args, strLen>>
    BY <1>2 DEF Percent, Flag, Width, Precision, Mismatch, LoopEnd, Turn
  <2>. QED BY <2>1, <2>2, QuietAdds
<1>3. CASE Type
  <2>1. PICK arg \in args :
            \/ ConvertPackedString(arg) \/ ConvertInteger(arg) \/ ConvertBoolean(arg)
            \/ ConvertString(arg) \/ ConvertWildString(arg)
    BY <1>3 DEF Type
  <2>2. pc = "loop" /\ strRemain # 0 /\ wch \in Character /\ UNCHANGED <<fmt, bufSize, args, strLen>>
    BY <1>3, TurnReads, Characters DEF Type
  <2>3. pc' = pc
    BY <2>1 DEF ConvertPackedString, ConvertInteger, ConvertBoolean, ConvertString,
                ConvertWildString, Converts
  <2>4. arg.number \in 0..QwordSize-1 /\ arg.signed \in BOOLEAN /\ arg.text \in Seq(Character)
    <3>1. arg.text \in Seq(Letters)
      BY DEF CallInv
    <3>2. Letters \subseteq Character
      BY Characters
    <3>3. arg.text \in Seq(Character)
      BY ONLY <3>1, <3>2, Widened
    <3>. QED BY <3>3 DEF CallInv
  <2>5. ASSUME \E n \in Nat : Adds(n) /\ AddsWithin(n) PROVE Goal
    BY <2>2, <2>3, <2>5
  <2>6. CASE ConvertPackedString(arg)
    <3>1. Copy(arg.text, Len(arg.text)) /\ Len(arg.text) \in 0..Len(arg.text)
      BY <2>4, <2>6 DEF ConvertPackedString
    <3>. QED BY <2>4, <2>5, <3>1, CopyAdds
  <2>7. CASE ConvertInteger(arg)
    <3>1. printInt(arg.number, Radix, arg.signed, wch = "X") /\ Radix \in {10, 16}
      BY <2>7 DEF ConvertInteger, Radix
    <3>2. PICK n \in Nat \ {0} :
             /\ Adds(n)
             /\ /\ strRemain <= Extent
                /\ NumberSize(arg.number, Radix, arg.signed) <= strRemain
                /\ ~spec.leftAlign => spec.width <= strRemain
                => AddsWithin(n)
      <4>1. (wch = "X") \in BOOLEAN
        OBVIOUS
      <4>. QED BY <2>2, <2>4, <3>1, <4>1, PrintAdds
    <3>3. NumbersFit => /\ NumberSize(arg.number, Radix, arg.signed) <= strRemain
                        /\ ~spec.leftAlign => spec.width <= strRemain
      BY <2>7 DEF NumbersFit
    <3>. QED BY <2>2, <2>3, <3>2, <3>3
  <2>8. CASE ConvertBoolean(arg)
    <3>1. PICK first \in {"f", "t", "F", "T"} : Copy([k \in 1..strRemain |-> first], strRemain)
      BY <2>8 DEF ConvertBoolean
    <3>. DEFINE word == [k \in 1..strRemain |-> first]
    <3>2. strRemain \in Nat
      BY SprintfAssumption DEF TypeOK
    <3>3. word \in [1..strRemain -> Character]
      BY <3>1, Characters
    <3>. HIDE DEF word
    <3>4. word \in Seq(Character) /\ Len(word) = strRemain
      BY ONLY <3>2, <3>3, Listed
    <3>5. Copy(word, strRemain) /\ strRemain \in 0..Len(word)
      BY <3>1, <3>2, <3>4 DEF word
    <3>. QED BY <2>5, <3>4, <3>5, CopyAdds
  <2>9. CASE ConvertString(arg)
    <3>. DEFINE text == IF arg.null THEN wszNull ELSE arg.text
                length == IF precision # 0 THEN Min2(Len(text), precision) ELSE Len(text)
    <3>1. Copy(text, length)
      BY <2>9 DEF ConvertString
    <3>2. text \in Seq(Character) /\ Len(text) \in Nat
      <4>1. wszNull \in Seq(Character)
        BY Characters
      <4>2. text \in Seq(Character)
        BY <2>4, <4>1
      <4>. QED BY <4>2
    <3>. HIDE DEF text
    <3>3. length \in 0..Len(text)
      BY <3>2, SprintfAssumption DEF TypeOK, Min2
    <3>. QED BY <2>5, <3>1, <3>2, <3>3, CopyAdds
  <2>10. CASE ConvertWildString(arg)
    <3>1. PICK null \in BOOLEAN : LET text == IF null THEN wszNull ELSE arg.text IN Copy(text, Len(text))
      BY <2>10 DEF ConvertWildString
    <3>. DEFINE text == IF null THEN wszNull ELSE arg.text
    <3>2. text \in Seq(Character) /\ Len(text) \in Nat
      <4>1. wszNull \in Seq(Character)
        BY Characters
      <4>2. text \in Seq(Character)
        BY <2>4, <4>1
      <4>. QED BY <4>2
    <3>3. Copy(text, Len(text))
      BY <3>1
    <3>. HIDE DEF text
    <3>4. Len(text) \in 0..Len(text)
      BY <3>2
    <3>. QED BY <2>5, <3>2, <3>3, <3>4, CopyAdds
  <2>. QED BY <2>1, <2>6, <2>7, <2>8, <2>9, <2>10
<1>4. CASE Done
  BY <1>4 DEF Done
<1>. QED BY <1>1, <1>2, <1>3, <1>4 DEF Next

LEMMA States ==
    DOMAIN NextStates = {"NORMAL", "PERCENT", "FLAG", "WIDTH", "DOT", "PRECIS", "TYPE"}
BY DEF NextStates

\* What the loop knows of the format, its state and its settings keeps its type.
LEMMA SettingsStep ==
    ASSUME TypeOK, CallInv, Next
    PROVE  /\ i' \in 1..Len(fmt')+1 /\ currState' \in DOMAIN NextStates
           /\ spec' \in [forceSign : BOOLEAN, leftAlign : BOOLEAN, padZeroes : BOOLEAN,
                         width : 0..DwordSize-1]
           /\ precision' \in 0..DwordSize-1
<1>1. /\ i \in 1..Len(fmt)+1 /\ currState \in DOMAIN NextStates /\ precision \in 0..DwordSize-1
      /\ spec \in [forceSign : BOOLEAN, leftAlign : BOOLEAN, padZeroes : BOOLEAN,
                   width : 0..DwordSize-1]
      /\ DwordSize \in Nat \ {0}
  BY SprintfAssumption DEF TypeOK
<1>2. \A n \in 0..DwordSize-1, d \in 0..9 : (10 * n + d) % DwordSize \in 0..DwordSize-1
  BY <1>1
<1>3. \A state : Turn(state) => i' \in 1..Len(fmt')+1 /\ currState' = state
  BY TurnReads
<1>4. CASE Literal \/ Type \/ Mismatch
  <2>1. i' \in 1..Len(fmt')+1 /\ currState' \in {"NORMAL", "TYPE"}
    BY <1>3, <1>4 DEF Literal, Type, Mismatch
  <2>2. UNCHANGED <<spec, precision>>
    BY <1>4 DEF Literal, Type, Mismatch, ConvertPackedString, ConvertInteger, ConvertBoolean,
                ConvertString, ConvertWildString, Converts
  <2>. QED BY <1>1, <2>1, <2>2, States
<1>5. CASE Percent \/ Flag
  <2>1. i' \in 1..Len(fmt')+1 /\ currState' \in {"PERCENT", "FLAG"} /\ precision' = precision
    BY <1>3, <1>5 DEF Percent, Flag
  <2>2. spec' \in [forceSign : BOOLEAN, leftAlign : BOOLEAN, padZeroes : BOOLEAN,
                   width : 0..DwordSize-1]
    <3>1. CASE Percent
      <4>1. spec' = [forceSign |-> FALSE, leftAlign |-> FALSE, padZeroes |-> FALSE, width |-> 0]
        BY <3>1 DEF Percent, NoSpec
      <4>2. 0 \in 0..DwordSize-1
        BY <1>1
      <4>. QED BY <4>1, <4>2
    <3>2. CASE Flag
      <4>1. spec' = [forceSign |-> spec.forceSign \/ wch = "+",
                     leftAlign |-> spec.leftAlign \/ wch = "-",
                     padZeroes |-> spec.padZeroes \/ wch = "0",
                     width     |-> spec.width]
        BY <3>2 DEF Flag
      <4>2. /\ (spec.forceSign \/ wch = "+") \in BOOLEAN /\ (spec.leftAlign \/ wch = "-") \in BOOLEAN
            /\ (spec.padZeroes \/ wch = "0") \in BOOLEAN /\ spec.width \in 0..DwordSize-1
        BY <1>1
      <4>. QED BY <4>1, <4>2
    <3>. QED BY <1>5, <3>1, <3>2
  <2>. QED BY <1>1, <2>1, <2>2, States
<1>6. CASE Width
  <2>1. i' \in 1..Len(fmt')+1 /\ currState' = "WIDTH" /\ precision' = precision
    BY <1>3, <1>6 DEF Width
  <2>2. DigitValue(wch) \in 0..9
    BY <1>1, <1>6, TurnReads, DigitRead DEF Width
  <2>3. spec' = [spec EXCEPT !.width = (10 * spec.width + DigitValue(wch)) % DwordSize]
    BY <1>6 DEF Width
  <2>4. (10 * spec.width + DigitValue(wch)) % DwordSize \in 0..DwordSize-1
    BY <1>1, <1>2, <2>2
  <2>5. spec' \in [forceSign : BOOLEAN, leftAlign : BOOLEAN, padZeroes : BOOLEAN,
                   width : 0..DwordSize-1]
    BY <1>1, <2>3, <2>4
  <2>. QED BY <1>1, <2>1, <2>5, States
<1>7. CASE Precision
  <2>1. i' \in 1..Len(fmt')+1 /\ currState' \in {"DOT", "PRECIS"} /\ spec' = spec
    BY <1>3, <1>7 DEF Precision
  <2>2. precision' \in 0..DwordSize-1
    <3>1. CASE precision' = 0
      BY <1>1, <3>1
    <3>2. CASE Turn("PRECIS") /\ precision' = (10 * precision + DigitValue(wch)) % DwordSize
      <4>1. DigitValue(wch) \in 0..9
        BY <1>1, <3>2, TurnReads, DigitRead
      <4>. QED BY <1>1, <1>2, <3>2, <4>1
    <3>. QED BY <1>7, <3>1, <3>2 DEF Precision
  <2>. QED BY <1>1, <2>1, <2>2, States
<1>8. CASE LoopEnd \/ Return \/ Done
  <2>1. UNCHANGED <<fmt, i, currState, spec, precision>>
    BY <1>8 DEF LoopEnd, Return, Done, vars
  <2>. QED BY <1>1, <2>1
<1>. QED BY <1>4, <1>5, <1>6, <1>7, <1>8 DEF Next

\* The terminating zero and the length.
LEMMA ReturnWrites ==
    ASSUME TypeOK, CallInv, Return
    PROVE  /\ pos' = (IF strRemain = 0 THEN pos - 1 ELSE pos) /\ pos' \in Nat
           /\ out' \in [0..Extent-1 -> Cell] /\ strLen' = pos' /\ pc' = "done"
           /\ UNCHANGED <<fmt, bufSize, args, strRemain>>
           /\ \A o \in 0..Extent-1 : o # pos' => out'[o] = out[o]
           /\ pos' \in 0..Extent-1 => out'[pos'] = NUL
<1>1. /\ strRemain \in 0..DwordSize-1 /\ pos \in Nat /\ Extent \in Nat /\ out \in [0..Extent-1 -> Cell]
  BY SprintfAssumption DEF TypeOK, Cell
<1>2. /\ pos' = (IF strRemain = 0 THEN pos - 1 ELSE pos) /\ out' = Written(<<NUL>>, pos')
      /\ strLen' = pos' /\ pc = "end" /\ pc' = "done" /\ UNCHANGED <<fmt, bufSize, args, strRemain>>
  BY DEF Return
<1>3. pos' \in Nat
  BY <1>1, <1>2 DEF CallInv
<1>. DEFINE zero == <<NUL>>
<1>4. zero \in Seq(Piece) /\ Len(zero) = 1 /\ zero[1] = NUL
  <2>1. NUL \in Piece
    BY Characters
  <2>. QED BY <2>1
<1>. DEFINE at == pos'
<1>5. out' = Written(zero, at) /\ at \in Nat
  BY <1>2, <1>3
<1>. HIDE DEF zero, at
<1>6. /\ out' \in [0..Extent-1 -> Cell]
      /\ \A o \in 0..Extent-1 : o < at \/ o >= at + 1 => out'[o] = out[o]
      /\ \A o \in 0..Extent-1 : at <= o /\ o < at + 1 =>
            out'[o] = IF zero[o - at + 1] = "skip" THEN out[o] ELSE zero[o - at + 1]
  <2>1. /\ out' \in [0..Extent-1 -> Cell]
        /\ \A o \in 0..Extent-1 : o < at \/ o >= at + Len(zero) => out'[o] = out[o]
        /\ \A o \in 0..Extent-1 : at <= o /\ o < at + Len(zero) =>
              out'[o] = IF zero[o - at + 1] = "skip" THEN out[o] ELSE zero[o - at + 1]
    <3>1. out \in [0..Extent-1 -> Cell] /\ zero \in Seq(Piece) /\ at \in Nat
      BY <1>1, <1>4, <1>5
    <3>. QED BY ONLY <1>5, <3>1, WrittenThere
  <2>2. Len(zero) = 1
    BY <1>4
  <2>. QED BY ONLY <2>1, <2>2
<1>7. ASSUME NEW o \in 0..Extent-1, o # at PROVE out'[o] = out[o]
  <2>1. o < at \/ o >= at + 1
    BY <1>1, <1>5, <1>7
  <2>. QED BY <1>6, <2>1
<1>8. ASSUME at \in 0..Extent-1 PROVE out'[at] = NUL
  <2>1. at <= at /\ at < at + 1 /\ at - at + 1 = 1
    BY <1>5
  <2>2. out'[at] = IF zero[1] = "skip" THEN out[at] ELSE zero[1]
    BY <1>6, <1>8, <2>1
  <2>. QED BY <1>4, <2>2, Characters
<1>. QED BY <1>2, <1>3, <1>6, <1>7, <1>8 DEF at

LEMMA InitInv == Init => SprintfInv
<1>. SUFFICES ASSUME Init PROVE SprintfInv
  OBVIOUS
<1>1. PICK c \in Calls : fmt = c.fmt /\ bufSize = c.bufSize /\ args = c.args
  BY DEF Init
<1>2. /\ bufSize \in 1..Extent /\ fmt \in Seq(Letters) /\ Extent \in Nat /\ DwordSize \in Nat
      /\ Extent < DwordSize \div 2
      /\ \A a \in args : /\ a.number \in 0..QwordSize-1 /\ a.text \in Seq(Letters)
                         /\ a.signed \in BOOLEAN /\ (a.type = "integer" => ~a.null)
  BY <1>1, SprintfAssumption
<1>3. out = [o \in 0..Extent-1 |-> "old"] /\ out \in [0..Extent-1 -> Character \cup {NUL, "old"}]
  BY DEF Init
<1>4. TypeOK
  <2>1. i \in 1..Len(fmt)+1 /\ currState \in DOMAIN NextStates
    BY <1>2, States DEF Init
  <2>2. 0 \in 0..DwordSize-1 /\ bufSize \in 0..DwordSize-1
    BY <1>2
  <2>3. spec \in [forceSign : BOOLEAN, leftAlign : BOOLEAN, padZeroes : BOOLEAN,
                  width : 0..DwordSize-1]
    BY <2>2 DEF Init, NoSpec
  <2>4. pos \in Nat /\ strLen \in Nat /\ precision = 0 /\ strRemain = bufSize /\ pc = "loop"
    BY DEF Init
  <2>. QED BY <1>2, <1>3, <2>1, <2>2, <2>3, <2>4 DEF TypeOK
<1>5. CallInv
  BY <1>2 DEF Init, CallInv
<1>6. RoomInv
  BY <1>2 DEF Init, RoomInv
<1>7. NeverOverruns
  BY <1>3 DEF NeverOverruns
<1>8. Terminated
  BY DEF Init, Terminated
<1>. QED BY <1>4, <1>5, <1>6, <1>7, <1>8 DEF SprintfInv

LEMMA TypeStep == TypeOK /\ CallInv /\ [Next]_vars => (TypeOK /\ CallInv)'
<1>. SUFFICES ASSUME TypeOK, CallInv, [Next]_vars PROVE TypeOK' /\ CallInv'
  OBVIOUS
<1>1. CASE UNCHANGED vars
  BY <1>1 DEF TypeOK, CallInv, vars
<1>2. CASE Next
  <2>1. /\ bufSize \in 1..Extent /\ strRemain \in 0..DwordSize-1 /\ pos \in Nat /\ strLen \in Nat
        /\ DwordSize \in Nat \ {0}
    BY SprintfAssumption DEF TypeOK
  <2>2. CASE /\ pc # "done" /\ pc' \in {"loop", "end"}
             /\ UNCHANGED <<fmt, bufSize, args, strLen>>
             /\ \E n \in Nat : Adds(n)
    <3>1. PICK n \in Nat : Adds(n)
      BY <2>2
    <3>2. out' \in [0..Extent-1 -> Cell] /\ pos' = pos + n /\ strRemain' = (strRemain - n) % DwordSize
      BY <3>1 DEF Adds
    <3>3. pos' \in Nat /\ strRemain' \in 0..DwordSize-1
      BY <2>1, <3>2
    <3>4. strRemain' = 0 => pos' > 0
      <4>1. CASE n = 0
        <5>1. strRemain' = strRemain /\ pos' = pos
          BY <2>1, <3>2, <4>1
        <5>. QED BY <2>2, <5>1 DEF CallInv
      <4>2. CASE n # 0
        BY <2>1, <3>2, <4>2
      <4>. QED BY <4>1, <4>2
    <3>5. TypeOK'
      BY <1>2, <2>1, <2>2, <3>2, <3>3, SettingsStep DEF TypeOK, Cell
    <3>6. CallInv'
      BY <2>2, <3>4 DEF CallInv
    <3>. QED BY <3>5, <3>6
  <2>3. CASE Return
    <3>1. TypeOK'
      BY <1>2, <2>1, <2>3, SettingsStep, ReturnWrites DEF TypeOK, Cell
    <3>2. CallInv'
      BY <2>3, ReturnWrites DEF CallInv
    <3>. QED BY <3>1, <3>2
  <2>. QED BY <1>1, <1>2, <2>2, <2>3, EveryStepAdds
<1>. QED BY <1>1, <1>2

LEMMA TextStep ==
    ASSUME SprintfInv, NumbersFit, Next
    PROVE  RoomInv' /\ NeverOverruns' /\ Terminated'
<1>1. /\ bufSize \in 1..Extent /\ strRemain \in Nat /\ pos \in Nat /\ Extent \in Nat
      /\ DOMAIN out = 0..Extent-1 /\ DwordSize \in Nat /\ strRemain < DwordSize
  BY SprintfAssumption DEF SprintfInv, TypeOK
<1>2. TypeOK /\ CallInv /\ RoomInv /\ NeverOverruns /\ Terminated
  BY DEF SprintfInv
<1>3. \A o \in 0..Extent-1 : o >= bufSize => out[o] = "old"
  BY <1>1, <1>2 DEF NeverOverruns
<1>4. CASE UNCHANGED vars
  BY <1>2, <1>4 DEF RoomInv, NeverOverruns, Terminated, vars
<1>5. CASE pc # "done"
  <2>1. /\ pos + strRemain = bufSize
        /\ \A o \in 0..pos-1 : out[o] \in {"old", NUL} => strRemain = 0 /\ o = pos - 1
    BY <1>2, <1>5 DEF RoomInv
  <2>2. strRemain <= Extent /\ pos <= Extent
    BY <1>1, <2>1
  <2>3. CASE /\ pc' \in {"loop", "end"}
             /\ UNCHANGED <<fmt, bufSize, args, strLen>>
             /\ \E n \in Nat : Adds(n) /\ AddsWithin(n)
    <3>1. PICK n \in Nat : Adds(n) /\ AddsWithin(n)
      BY <2>3
    <3>2. /\ out' \in [0..Extent-1 -> Cell] /\ pos' = pos + n
          /\ n <= strRemain /\ strRemain' = (strRemain - n) % DwordSize
          /\ \A o \in 0..Extent-1 : o < pos \/ o >= pos + strRemain => out'[o] = out[o]
          /\ \A o \in 0..Extent-1 : pos <= o /\ o < pos + n =>
                out'[o] \in Character \/ (o = pos + strRemain - 1 /\ n = strRemain)
      BY <3>1 DEF Adds, AddsWithin
    <3>3. strRemain' = strRemain - n
      BY <1>1, <3>2
    <3>4. pos' + strRemain' = bufSize'
      BY <1>1, <2>1, <2>3, <3>2, <3>3
    <3>5. ASSUME NEW o \in 0..pos'-1, out'[o] \in {"old", NUL}
          PROVE  strRemain' = 0 /\ o = pos' - 1
      <4>1. o \in 0..Extent-1 /\ o \in Int /\ o < pos + n
        BY <1>1, <2>1, <3>2
      <4>2. CASE o < pos
        <5>1. out[o] \in {"old", NUL} /\ o \in 0..pos-1
          BY <1>1, <3>2, <3>5, <4>1, <4>2
        <5>2. strRemain = 0 /\ o = pos - 1
          BY <2>1, <5>1
        <5>3. n = 0
          BY <1>1, <3>2, <5>2
        <5>. QED BY <1>1, <3>2, <3>3, <5>2, <5>3
      <4>3. CASE pos <= o
        <5>1. out'[o] \notin Character
          BY <3>5, Characters
        <5>2. o = pos + strRemain - 1 /\ n = strRemain
          BY <3>2, <4>1, <4>3, <5>1
        <5>. QED BY <1>1, <3>2, <3>3, <5>2
      <4>. QED BY <1>1, <4>1, <4>2, <4>3
    <3>6. RoomInv'
      BY <3>4, <3>5 DEF RoomInv
    <3>7. ASSUME NEW o \in 0..Extent-1, o >= bufSize PROVE out'[o] = "old"
      BY <1>1, <1>3, <2>1, <3>2, <3>7
    <3>8. NeverOverruns'
      <4>1. DOMAIN out' = 0..Extent-1 /\ bufSize' = bufSize
        BY <2>3, <3>2
      <4>. QED BY <3>7, <4>1 DEF NeverOverruns
    <3>9. Terminated'
      BY <2>3 DEF Terminated
    <3>. QED BY <3>6, <3>8, <3>9
  <2>4. CASE Return
    <3>1. /\ pos' = (IF strRemain = 0 THEN pos - 1 ELSE pos) /\ pos' \in Nat
          /\ out' \in [0..Extent-1 -> Cell] /\ strLen' = pos' /\ pc' = "done"
          /\ bufSize' = bufSize
          /\ \A o \in 0..Extent-1 : o # pos' => out'[o] = out[o]
          /\ pos' \in 0..Extent-1 => out'[pos'] = NUL
      BY <1>2, <2>4, ReturnWrites
    <3>2. pos' < bufSize /\ pos' \in 0..Extent-1 /\ pos' <= pos
      BY <1>1, <2>1, <3>1
    <3>3. RoomInv'
      BY <3>1 DEF RoomInv
    <3>4. ASSUME NEW o \in 0..Extent-1, o >= bufSize PROVE out'[o] = "old"
      <4>1. o # pos'
        BY <1>1, <3>2, <3>4
      <4>. QED BY <1>3, <3>1, <3>4, <4>1
    <3>5. NeverOverruns'
      <4>1. DOMAIN out' = 0..Extent-1
        BY <3>1
      <4>. QED BY <3>1, <3>4, <4>1 DEF NeverOverruns
    <3>6. ASSUME NEW o \in 0..pos'-1 PROVE out'[o] \notin {"old", NUL}
      <4>1. o \in 0..Extent-1 /\ o # pos' /\ o \in 0..pos-1 /\ ~(strRemain = 0 /\ o = pos - 1)
        BY <1>1, <3>1, <3>2
      <4>2. out[o] \notin {"old", NUL}
        BY <2>1, <4>1
      <4>. QED BY <3>1, <4>1, <4>2
    <3>7. Terminated'
      BY <3>1, <3>2, <3>6 DEF Terminated
    <3>. QED BY <3>3, <3>5, <3>7
  <2>. QED BY <1>2, <1>4, <2>2, <2>3, <2>4, EveryStepAdds
<1>6. CASE pc = "done"
  <2>1. UNCHANGED vars
    BY <1>2, <1>6, EveryStepAdds DEF Return
  <2>. QED BY <1>4, <2>1
<1>. QED BY <1>5, <1>6

LEMMA InvStep == SprintfInv /\ [Next]_vars /\ [NumbersFit]_vars => SprintfInv'
<1>. SUFFICES ASSUME SprintfInv, [Next]_vars, [NumbersFit]_vars PROVE SprintfInv'
  OBVIOUS
<1>1. (TypeOK /\ CallInv)'
  BY TypeStep DEF SprintfInv
<1>2. CASE UNCHANGED vars
  BY <1>1, <1>2 DEF SprintfInv, RoomInv, NeverOverruns, Terminated, vars
<1>3. CASE Next /\ NumbersFit
  BY <1>1, <1>3, TextStep DEF SprintfInv
<1>. QED BY <1>2, <1>3

-----------------------------------------------------------------------------
(* The settings are those of the specification *)

LEMMA Transitions ==
    ASSUME NEW charType, NEW state \in DOMAIN NextStates
    PROVE  /\ getState(charType, state) = "PERCENT" => charType = "PERCENT"
           /\ getState(charType, state) = "FLAG" =>
                 state \in {"PERCENT", "FLAG"} /\ charType \in {"FLAG", "ZERO"}
           /\ getState(charType, state) = "WIDTH" =>
                 \/ state \in {"PERCENT", "FLAG"} /\ charType = "DIGIT"
                 \/ state = "WIDTH" /\ charType \in {"ZERO", "DIGIT"}
           /\ getState(charType, state) = "DOT" =>
                 state \in {"PERCENT", "FLAG", "WIDTH"} /\ charType = "DOT"
           /\ getState(charType, state) = "PRECIS" =>
                 state \in {"DOT", "PRECIS"} /\ charType \in {"ZERO", "DIGIT"}
           /\ getState(charType, state) = "TYPE" =>
                 state \in {"PERCENT", "FLAG", "WIDTH", "PRECIS"} /\ charType = "TYPE"
<1>1. state \in {"NORMAL", "PERCENT", "FLAG", "WIDTH", "DOT", "PRECIS", "TYPE"}
  BY States
<1>. QED BY <1>1 DEF getState, NextStates

LEMMA CharTypes ==
    ASSUME NEW ch
    PROVE  /\ CharType(ch) = "FLAG" => ch \in {"-", "+"}
           /\ CharType(ch) = "ZERO" => ch = "0"
           /\ CharType(ch) = "DIGIT" => ch \in DigitChars \ {"0"}
           /\ CharType(ch) = "DOT" => ch = "."
           /\ CharType(ch) = "TYPE" => ch \in {"c", "d", "x", "X", "b", "B", "s", "w"}
BY DEF CharType

\* A turn reads a character more of the present specification, if there is one.
LEMMA SpecTextGrows ==
    ASSUME TypeOK, CallInv, NEW state, Turn(state), start \in 1..i-1
    PROVE  /\ SpecText \in Seq(Letters) /\ wch \in Letters /\ i' = i + 1
           /\ SubSeq(fmt', start + 1, i' - 1) = Append(SpecText, wch)
<1>1. i \in 1..Len(fmt) /\ fmt \in Seq(Letters) /\ wch = fmt[i] /\ i' = i + 1 /\ fmt' = fmt
  BY DEF TypeOK, CallInv, Turn, wch
<1>2. start + 1 \in 1..Len(fmt) /\ i \in start+1..Len(fmt) /\ i' - 1 = i
  BY <1>1
<1>3. \A k \in start+1..i-1 : fmt[k] \in Letters
  BY <1>1
<1>4. SpecText \in Seq(Letters) /\ wch \in Letters
  BY <1>1, <1>3, SubSeqProperties DEF SpecText
<1>5. SubSeq(fmt, start + 1, i) = SpecText \o <<wch>>
  BY <1>1, <1>2, SubSeqRecursiveSecond DEF SpecText
<1>. QED BY <1>1, <1>2, <1>4, <1>5, AppendIsConcat

LEMMA SaidStep ==
    ASSUME TypeOK, CallInv, SaidInv, Next
    PROVE  SaidInv'
<1>. DEFINE text == SpecText
            long == Append(text, wch)
<1>1. /\ i \in 1..Len(fmt)+1 /\ fmt \in Seq(Letters) /\ currState \in DOMAIN NextStates
      /\ spec \in [forceSign : BOOLEAN, leftAlign : BOOLEAN, padZeroes : BOOLEAN,
                   width : 0..DwordSize-1]
      /\ DwordSize \in Nat
  BY SprintfAssumption DEF TypeOK, CallInv
<1>2. CASE Percent
  <2>1. start' = i /\ i' = i + 1 /\ fmt' = fmt /\ currState' = "PERCENT"
    BY <1>2 DEF Percent, Turn
  <2>2. spec'.leftAlign = FALSE /\ spec'.padZeroes = FALSE /\ spec'.width = 0
    BY <1>2 DEF Percent, NoSpec
  <2>3. SpecText' = <<>>
    <3>1. SpecText' = SubSeq(fmt, i + 1, i)
      BY <1>1, <2>1 DEF SpecText
    <3>. QED BY <1>1, <3>1, SubSeqEmpty
  <2>4. FlagsEnd(<<>>) = 0 /\ WidthEnd(<<>>) = 0
    BY DEF FlagsEnd, WidthEnd, Before
  <2>5. FlagsSaid(<<>>) = {} /\ WidthSaid(<<>>) = 0
    <3>1. SubSeq(<<>>, 1, 0) = <<>>
      BY SubSeqEmpty
    <3>2. NumberOf(<<>>) = 0
      <4>1. "0" \in DigitChars /\ <<>> \in Seq(DigitChars)
        BY DEF DigitChars
      <4>. QED BY <4>1, NumberGrows
    <3>3. WidthSaid(<<>>) = NumberOf(SubSeq(<<>>, 1, 0)) /\ FlagsSaid(<<>>) = ToSet(SubSeq(<<>>, 1, 0))
      BY <2>4 DEF FlagsSaid, WidthSaid
    <3>4. ToSet(<<>>) = {}
      BY DEF ToSet
    <3>. QED BY <3>1, <3>2, <3>3, <3>4
  <2>6. Said(<<>>, "PERCENT", spec')
    BY <2>2, <2>4, <2>5 DEF Said
  <2>7. start' \in 1..i'-1
    BY <1>1, <2>1
  <2>. QED BY <2>1, <2>3, <2>6, <2>7 DEF SaidInv
<1>3. ASSUME NEW state, Turn(state), state \in {"FLAG", "WIDTH", "DOT", "PRECIS"},
             start' = start, pc' = pc
      PROVE  /\ Said(text, currState, spec) /\ text \in Seq(Letters) /\ wch \in Letters
             /\ Said(long, state, spec') => SaidInv'
             /\ Len(text) \in Nat /\ Len(long) = Len(text) + 1
             /\ state = getState(CharType(wch), currState)
  <2>1. pc = "loop" /\ state = getState(CharType(wch), currState) /\ currState' = state
    BY <1>3 DEF Turn
  <2>2. currState \in Specifying
    BY <1>1, <1>3, <2>1, Transitions DEF Specifying
  <2>3. start \in 1..i-1 /\ Said(text, currState, spec)
    BY <2>1, <2>2 DEF SaidInv
  <2>4. /\ SpecText \in Seq(Letters) /\ wch \in Letters /\ i' = i + 1
        /\ SubSeq(fmt', start + 1, i' - 1) = Append(SpecText, wch)
    BY <1>3, <2>3, SpecTextGrows
  <2>5. SpecText' = long
    BY <1>3, <2>4 DEF SpecText
  <2>6. start' \in 1..i'-1
    BY <1>1, <1>3, <2>3, <2>4
  <2>7. Len(text) \in Nat /\ Len(long) = Len(text) + 1
    BY <2>4, AppendProperties
  <2>. QED BY <2>1, <2>3, <2>4, <2>5, <2>6, <2>7 DEF SaidInv
<1>. HIDE DEF text
<1>4. CASE Flag
  <2>1. Turn("FLAG") /\ start' = start /\ pc' = pc
    BY <1>4 DEF Flag
  <2>2. /\ Said(text, currState, spec) /\ text \in Seq(Letters) /\ wch \in Letters
        /\ Said(long, "FLAG", spec') => SaidInv'
        /\ Len(text) \in Nat /\ Len(long) = Len(text) + 1
        /\ "FLAG" = getState(CharType(wch), currState)
    BY <1>3, <2>1
  <2>3. currState \in {"PERCENT", "FLAG"} /\ wch \in {"-", "+", "0"}
    BY <1>1, <2>2, Transitions, CharTypes
  <2>4. FlagsEnd(text) = Len(text) /\ WidthEnd(text) = Len(text)
    BY <2>2, <2>3 DEF Said
  <2>5. wch \notin (DigitChars \ {"0"}) \cup {"."}
    BY <2>3 DEF DigitChars
  <2>6. /\ FlagsEnd(long) = Len(long) /\ WidthEnd(long) = Len(long)
        /\ FlagsSaid(long) = FlagsSaid(text) \cup {wch}
        /\ WidthSaid(text) = 0 /\ WidthSaid(long) = 0
    BY <2>2, <2>4, <2>5, FlagSaid
  <2>7. /\ spec'.leftAlign = (spec.leftAlign \/ wch = "-")
        /\ spec'.padZeroes = (spec.padZeroes \/ wch = "0")
        /\ spec'.width = spec.width
    BY <1>4 DEF Flag
  <2>8. /\ spec'.leftAlign <=> "-" \in FlagsSaid(long)
        /\ spec'.padZeroes <=> "0" \in FlagsSaid(long)
    <3>1. (spec.leftAlign <=> "-" \in FlagsSaid(text)) /\ (spec.padZeroes <=> "0" \in FlagsSaid(text))
      BY <2>2 DEF Said
    <3>2. "-" \in FlagsSaid(long) <=> "-" \in FlagsSaid(text) \/ wch = "-"
      BY <2>6
    <3>3. "0" \in FlagsSaid(long) <=> "0" \in FlagsSaid(text) \/ wch = "0"
      BY <2>6
    <3>. QED BY <2>7, <3>1, <3>2, <3>3
  <2>9. spec'.width = 0 \/ ~(0 < DwordSize)
    BY <2>2, <2>6, <2>7 DEF Said
  <2>10. Said(long, "FLAG", spec')
    <3>. HIDE DEF long
    <3>. QED BY <2>2, <2>6, <2>8, <2>9 DEF Said
  <2>. QED BY <2>2, <2>10
<1>5. CASE Width
  <2>1. Turn("WIDTH") /\ start' = start /\ pc' = pc
    BY <1>5 DEF Width
  <2>2. /\ Said(text, currState, spec) /\ text \in Seq(Letters) /\ wch \in Letters
        /\ Said(long, "WIDTH", spec') => SaidInv'
        /\ Len(text) \in Nat /\ Len(long) = Len(text) + 1
        /\ "WIDTH" = getState(CharType(wch), currState)
    BY <1>3, <2>1
  <2>3. /\ currState \in {"PERCENT", "FLAG", "WIDTH"} /\ wch \in DigitChars
        /\ wch = "0" => currState = "WIDTH"
    <3>1. CharType(wch) = "ZERO" => wch = "0" /\ wch \in DigitChars
      BY CharTypes DEF DigitChars
    <3>2. CharType(wch) = "DIGIT" => wch # "0" /\ wch \in DigitChars
      BY CharTypes
    <3>. QED BY <1>1, <2>2, <3>1, <3>2, Transitions
  <2>4. /\ FlagsEnd(text) \in 0..Len(text) /\ WidthEnd(text) = Len(text)
        /\ \A k \in FlagsEnd(text)+1..Len(text) : text[k] \in DigitChars
        /\ FlagsEnd(text) < Len(text) \/ wch # "0"
    BY <2>2, <2>3 DEF Said
  <2>5. /\ FlagsEnd(long) = FlagsEnd(text) /\ WidthEnd(long) = Len(long)
        /\ FlagsSaid(long) = FlagsSaid(text)
        /\ WidthSaid(text) \in Nat
        /\ WidthSaid(long) = 10 * WidthSaid(text) + DigitValue(wch)
    BY <2>2, <2>3, <2>4, DigitSaid
  <2>6. \A k \in FlagsEnd(text)+1..Len(long) : long[k] \in DigitChars
    <3>. SUFFICES ASSUME NEW k \in FlagsEnd(text)+1..Len(long) PROVE long[k] \in DigitChars
      OBVIOUS
    <3>1. /\ long[Len(text) + 1] = wch /\ \A m \in 1..Len(text) : long[m] = text[m]
      BY <2>2, AppendProperties
    <3>2. CASE k = Len(text) + 1
      BY <2>3, <3>1, <3>2
    <3>3. CASE k # Len(text) + 1
      <4>1. k \in 1..Len(text) /\ k \in FlagsEnd(text)+1..Len(text)
        BY <2>2, <2>4, <3>3
      <4>. QED BY <2>4, <3>1, <4>1
    <3>. QED BY <3>2, <3>3
  <2>7. DigitValue(wch) \in 0..9
    BY <2>3, DigitChars10
  <2>8. /\ spec'.leftAlign = spec.leftAlign /\ spec'.padZeroes = spec.padZeroes
        /\ spec'.width = (10 * spec.width + DigitValue(wch)) % DwordSize
    BY <1>1, <1>5 DEF Width
  <2>9. /\ spec'.leftAlign <=> "-" \in FlagsSaid(long)
        /\ spec'.padZeroes <=> "0" \in FlagsSaid(long)
    BY <2>2, <2>5, <2>8 DEF Said
  <2>10. ASSUME WidthSaid(long) < DwordSize PROVE spec'.width = WidthSaid(long)
    <3>1. WidthSaid(text) < DwordSize
      BY <1>1, <2>5, <2>7, <2>10
    <3>2. spec.width = WidthSaid(text)
      BY <2>2, <3>1 DEF Said
    <3>3. spec'.width = WidthSaid(long) % DwordSize
      BY <2>5, <2>8, <3>2
    <3>4. \A n \in Nat : n < DwordSize => n % DwordSize = n
      BY <1>1
    <3>5. WidthSaid(long) \in Nat
      BY <2>5, <2>7
    <3>. QED BY <2>10, <3>3, <3>4, <3>5
  <2>11. Said(long, "WIDTH", spec')
    <3>1. FlagsEnd(long) \in 0..Len(long) /\ FlagsEnd(long) < Len(long) /\ WidthSaid(long) \in Nat
          /\ Len(long) \in 0..Len(long)
      BY <2>2, <2>4, <2>5, <2>7
    <3>. HIDE DEF long
    <3>. QED BY <2>5, <2>6, <2>9, <2>10, <3>1 DEF Said
  <2>. QED BY <2>2, <2>11
<1>6. CASE Precision
  <2>1. PICK state \in {"DOT", "PRECIS"} : Turn(state)
    BY <1>6 DEF Precision
  <2>2. start' = start /\ pc' = pc /\ spec' = spec
    BY <1>6 DEF Precision
  <2>3. /\ Said(text, currState, spec) /\ text \in Seq(Letters) /\ wch \in Letters
        /\ Said(long, state, spec') => SaidInv'
        /\ Len(text) \in Nat /\ Len(long) = Len(text) + 1
        /\ state = getState(CharType(wch), currState)
    BY <1>3, <2>1, <2>2
  <2>4. /\ currState \in {"PERCENT", "FLAG", "WIDTH"} /\ wch = "."
        \/ currState \in {"DOT", "PRECIS"}
    BY <1>1, <2>1, <2>3, Transitions, CharTypes
  <2>5. /\ FlagsEnd(text) \in 0..WidthEnd(text) /\ WidthEnd(text) \in 0..Len(text)
        /\ wch = "." \/ WidthEnd(text) < Len(text)
        /\ \A k \in FlagsEnd(text)+1..WidthEnd(text) : text[k] \in DigitChars
    BY <2>3, <2>4 DEF Said
  <2>6. /\ FlagsEnd(long) = FlagsEnd(text) /\ WidthEnd(long) = WidthEnd(text)
        /\ FlagsSaid(long) = FlagsSaid(text) /\ WidthSaid(long) = WidthSaid(text)
    BY <2>3, <2>5, PrecisionLeaves
  <2>7. \A k \in FlagsEnd(text)+1..WidthEnd(text) : long[k] = text[k]
    <3>1. \A k \in 1..Len(text) : long[k] = text[k]
      BY <2>3, AppendProperties
    <3>2. \A k \in FlagsEnd(text)+1..WidthEnd(text) : k \in 1..Len(text)
      BY <2>3, <2>5
    <3>. QED BY <3>1, <3>2
  <2>8. /\ spec'.leftAlign <=> "-" \in FlagsSaid(long)
        /\ spec'.padZeroes <=> "0" \in FlagsSaid(long)
        /\ WidthSaid(long) \in Nat
        /\ WidthSaid(long) < DwordSize => spec'.width = WidthSaid(long)
    BY <2>2, <2>3, <2>6 DEF Said
  <2>9. Said(long, state, spec')
    <3>1. WidthEnd(long) \in 0..Len(long) /\ WidthEnd(long) < Len(long)
      BY <2>3, <2>5, <2>6
    <3>2. \A k \in FlagsEnd(long)+1..WidthEnd(long) : long[k] \in DigitChars
      BY <2>5, <2>6, <2>7
    <3>3. FlagsEnd(long) \in 0..WidthEnd(long)
      BY <2>5, <2>6
    <3>. HIDE DEF long
    <3>. QED BY <2>1, <2>8, <3>1, <3>2, <3>3 DEF Said
  <2>. QED BY <2>3, <2>9
<1>7. CASE Literal \/ Type \/ Mismatch \/ LoopEnd \/ Return \/ Done
  <2>1. CASE Done
    <3>1. UNCHANGED vars
      BY <2>1 DEF Done
    <3>. QED BY <3>1 DEF SaidInv, SpecText, vars
  <2>2. CASE Literal \/ Type \/ Mismatch \/ LoopEnd \/ Return
    <3>1. pc' # "loop" \/ currState' \in {"NORMAL", "TYPE"}
      BY <2>2 DEF Literal, Type, Mismatch, LoopEnd, Return, Turn
    <3>. QED BY <3>1 DEF SaidInv, Specifying
  <2>. QED BY <1>7, <2>1, <2>2
<1>. QED BY <1>2, <1>4, <1>5, <1>6, <1>7 DEF Next

-----------------------------------------------------------------------------
(* A conversion with room prints what is documented *)

\* A text that fits is copied as it is.
LEMMA CopyPuts ==
    ASSUME TypeOK, pos + strRemain <= Extent,
           NEW text \in Seq(Character), NEW length \in 0..Len(text), Copy(text, length),
           length <= strRemain
    PROVE  pos' = pos + length /\ \A k \in 1..length : out'[pos + k - 1] = text[k]
<1>1. strRemain \in Nat /\ pos \in Nat /\ Extent \in Nat /\ length \in Nat
  BY SprintfAssumption DEF TypeOK
<1>2. Min2(length, strRemain) = length
  BY <1>1 DEF Min2
<1>3. /\ Adds(length)
      /\ \A o \in 0..Extent-1 : pos <= o /\ o < pos + length => out'[o] = text[o - pos + 1]
  BY <1>2, CopyAdds
<1>4. ASSUME NEW k \in 1..length PROVE out'[pos + k - 1] = text[k]
  <2>. DEFINE o == pos + k - 1
  <2>1. o \in 0..Extent-1 /\ pos <= o /\ o < pos + length /\ o - pos + 1 = k
    BY <1>1
  <2>. HIDE DEF o
  <2>2. out'[o] = text[k]
    BY <1>3, <2>1
  <2>. QED BY <2>2 DEF o
<1>. QED BY <1>3, <1>4 DEF Adds

\* A numeral in a field: the padding stands before it, or behind it as blanks.
Field(numeral, pad, settings) ==
    IF settings.leftAlign THEN numeral \o [k \in 1..pad |-> " "]
    ELSE [k \in 1..pad |-> IF settings.padZeroes THEN "0" ELSE " "] \o numeral

LEMMA Remainder ==
    ASSUME NEW n \in Int, NEW d \in Nat \ {0}
    PROVE  n % d = n - d * (n \div d)
BY SMTT(20)

\* The remainder of a number cut to a DWORD is that of the number.
LEMMA DigitKept ==
    ASSUME NEW number \in 0..QwordSize-1, NEW radix \in {10, 16},
           radix = 10 => number < DwordSize, NEW place \in 0..ValueSize(number, radix)
    PROVE  ((number \div radix^place) % DwordSize) % radix = (number \div radix^place) % radix
<1>1. DwordSize \in Nat \ {0} /\ DwordSize % 16 = 0 /\ number \in Nat
  BY SprintfAssumption
<1>2. radix^place \in Nat \ {0}
  BY NumeralAssumption
<1>. DEFINE q == radix^place
            n == number \div q
<1>3. n \in Nat /\ n <= number
  <2>. HIDE DEF q
  <2>1. q \in Nat \ {0}
    BY <1>2 DEF q
  <2>. QED BY <1>1, <2>1
<1>. HIDE DEF n
<1>4. CASE radix = 10
  <2>1. n < DwordSize
    BY <1>1, <1>3, <1>4
  <2>2. n % DwordSize = n
    BY <1>1, <1>3, <2>1
  <2>. QED BY <2>2 DEF n
<1>5. CASE radix = 16
  <2>1. (n % DwordSize) % 16 = n % 16
    <3>1. PICK m \in Int : DwordSize = 16 * m
      BY <1>1
    <3>2. n % DwordSize = n - DwordSize * (n \div DwordSize)
      <4>1. n \in Int /\ DwordSize \in Nat \ {0}
        BY <1>1, <1>3
      <4>. QED BY ONLY <4>1, Remainder
    <3>. DEFINE d == n \div DwordSize
                r == n % DwordSize
    <3>3. d \in Int /\ r \in Int /\ n = 16 * (m * d) + r
      BY <1>1, <1>3, <3>1, <3>2
    <3>4. m * d \in Int
      BY <3>3
    <3>. HIDE DEF d, r
    <3>5. \A e \in Int : (16 * e + r) % 16 = r % 16
      BY <3>3
    <3>. QED BY <3>3, <3>4, <3>5 DEF r
  <2>. QED BY <1>5, <2>1 DEF n
<1>. QED BY <1>4, <1>5

LEMMA NumeralText ==
    ASSUME NEW number \in 0..QwordSize-1, NEW radix \in {10, 16}, NEW upCase \in BOOLEAN,
           radix = 10 => number < DwordSize
    PROVE  LET size == ValueSize(number, radix)
               text == Numeral(number, radix, upCase)
           IN /\ text \in Seq(Character) /\ Len(text) = size /\ size \in Nat \ {0}
              /\ \A k \in 1..size : text[k] = DigitAt(number, radix, upCase, size - k)
<1>. DEFINE size == ValueSize(number, radix)
            text == Numeral(number, radix, upCase)
            digit(k) == ((number \div radix^(size - k)) % radix) + 1
<1>1. size \in 1..20 /\ \A k \in 1..size : size - k \in 0..size
  BY NumeralAssumption
<1>2. text = [k \in 1..size |-> IF upCase THEN UpDigits[digit(k)] ELSE Digits[digit(k)]]
  BY DEF Numeral
<1>. HIDE DEF text
<1>3. ASSUME NEW k \in 1..size
      PROVE  text[k] = DigitAt(number, radix, upCase, size - k) /\ text[k] \in Character
  <2>1. size - k \in 0..ValueSize(number, radix)
    BY <1>1
  <2>2. ((number \div radix^(size - k)) % DwordSize) % radix = (number \div radix^(size - k)) % radix
    BY <2>1, DigitKept
  <2>3. digit(k) \in 1..16
    <3>1. radix^(size - k) \in Nat \ {0}
      BY <2>1, NumeralAssumption
    <3>2. \A q \in Nat \ {0} : ((number \div q) % radix) + 1 \in 1..16
      OBVIOUS
    <3>. QED BY <3>1, <3>2
  <2>4. text[k] = IF upCase THEN UpDigits[digit(k)] ELSE Digits[digit(k)]
    BY <1>2
  <2>5. text[k] = DigitAt(number, radix, upCase, size - k)
    BY <2>2, <2>4 DEF DigitAt
  <2>. HIDE DEF digit
  <2>. QED BY <2>3, <2>4, <2>5, Characters
<1>4. text \in [1..size -> Character]
  BY <1>2, <1>3
<1>. HIDE DEF size
<1>5. text \in Seq(Character) /\ Len(text) = size
  BY ONLY <1>1, <1>4, Listed
<1>. QED BY <1>1, <1>3, <1>5 DEF size, text

\* A field of a numeral, character by character.
FieldChar(numeral, pad, settings, k) ==
    LET left == IF settings.leftAlign THEN 0 ELSE pad
    IN IF k <= left THEN IF settings.padZeroes THEN "0" ELSE " "
       ELSE IF k <= left + Len(numeral) THEN numeral[k - left] ELSE " "

LEMMA FieldText ==
    ASSUME NEW numeral \in Seq(Character), NEW pad \in Nat, NEW settings, NEW field,
           field = Field(numeral, pad, settings)
    PROVE  /\ Len(field) = Len(numeral) + pad
           /\ \A k \in 1..Len(field) : field[k] = FieldChar(numeral, pad, settings, k)
<1>. DEFINE zeroes == [k \in 1..pad |-> IF settings.padZeroes THEN "0" ELSE " "]
            blanks == [k \in 1..pad |-> " "]
<1>1. zeroes \in [1..pad -> Character] /\ blanks \in [1..pad -> Character]
  BY Characters
<1>2. /\ zeroes \in Seq(Character) /\ Len(zeroes) = pad /\ blanks \in Seq(Character) /\ Len(blanks) = pad
      /\ \A k \in 1..pad : zeroes[k] = (IF settings.padZeroes THEN "0" ELSE " ") /\ blanks[k] = " "
  <2>1. \A k \in 1..pad : zeroes[k] = (IF settings.padZeroes THEN "0" ELSE " ") /\ blanks[k] = " "
    OBVIOUS
  <2>. HIDE DEF zeroes, blanks
  <2>. QED BY ONLY <1>1, <2>1, pad \in Nat, Listed
<1>3. field = IF settings.leftAlign THEN numeral \o blanks ELSE zeroes \o numeral
  BY DEF Field
<1>. HIDE DEF zeroes, blanks
<1>4. numeral \in Seq(Character) /\ Len(numeral) \in Nat
  OBVIOUS
<1>5. CASE settings.leftAlign
  <2>1. field = numeral \o blanks
    BY <1>3, <1>5
  <2>2. /\ field \in Seq(Character) /\ Len(field) = Len(numeral) + Len(blanks)
        /\ \A k \in 1..Len(field) :
              field[k] = IF k <= Len(numeral) THEN numeral[k] ELSE blanks[k - Len(numeral)]
    <3>1. numeral \in Seq(Character) /\ zeroes \in Seq(Character) /\ blanks \in Seq(Character)
      BY <1>2
    <3>. QED BY ONLY <2>1, <3>1, Joined
  <2>3. \A k \in 1..Len(numeral)+pad :
           /\ k > Len(numeral) => k - Len(numeral) \in 1..pad
           /\ ~(k <= 0) /\ k - 0 = k /\ (k <= Len(numeral) \/ k > Len(numeral))
    BY <1>4
  <2>4. 0 + Len(numeral) = Len(numeral)
    BY <1>4
  <2>. QED BY <1>2, <1>5, <2>2, <2>3, <2>4 DEF FieldChar
<1>6. CASE ~settings.leftAlign
  <2>1. field = zeroes \o numeral
    BY <1>3, <1>6
  <2>2. /\ field \in Seq(Character) /\ Len(field) = Len(zeroes) + Len(numeral)
        /\ \A k \in 1..Len(field) :
              field[k] = IF k <= Len(zeroes) THEN zeroes[k] ELSE numeral[k - Len(zeroes)]
    <3>1. numeral \in Seq(Character) /\ zeroes \in Seq(Character) /\ blanks \in Seq(Character)
      BY <1>2
    <3>. QED BY ONLY <2>1, <3>1, Joined
  <2>3. \A k \in 1..pad+Len(numeral) : k <= pad + Len(numeral) /\ (k <= pad => k \in 1..pad)
    BY <1>4
  <2>4. pad + Len(numeral) = Len(numeral) + pad
    BY <1>4
  <2>. QED BY <1>2, <1>6, <2>2, <2>3, <2>4 DEF FieldChar
<1>. QED BY <1>5, <1>6

\* printInt fills the field with the numeral where sign and room raise no doubt.
LEMMA NumberPuts ==
    ASSUME TypeOK, pos + strRemain <= Extent, NEW number \in 0..QwordSize-1,
           NEW radix \in {10, 16}, NEW signed \in BOOLEAN, NEW upCase \in BOOLEAN,
           printInt(number, radix, signed, upCase),
           radix = 10 => number < DwordSize /\ ~signed,
           ~(spec.leftAlign /\ spec.padZeroes),
           NEW field,
           field = Field(Numeral(number, radix, upCase),
                         Max2(spec.width - ValueSize(number, radix), 0), spec),
           Len(field) < strRemain
    PROVE  pos' = pos + Len(field) /\ \A k \in 1..Len(field) : out'[pos + k - 1] = field[k]
<1>. DEFINE size == ValueSize(number, radix)
            numeral == Numeral(number, radix, upCase)
            pad == Max2(spec.width - size, 0)
            left == IF spec.leftAlign THEN 0 ELSE pad
<1>1. /\ numeral \in Seq(Character) /\ Len(numeral) = size /\ size \in Nat \ {0}
      /\ \A k \in 1..size : numeral[k] = DigitAt(number, radix, upCase, size - k)
  BY NumeralText
<1>2. /\ strRemain \in 0..DwordSize-1 /\ pos \in Nat /\ Extent \in Nat
      /\ spec.width \in 0..DwordSize-1 /\ spec.leftAlign \in BOOLEAN /\ spec.padZeroes \in BOOLEAN
      /\ Extent < DwordSize \div 2 /\ DwordSize \in Nat
  BY SprintfAssumption DEF TypeOK
<1>. HIDE DEF size, numeral
<1>3. pad \in Nat /\ pad = (IF spec.width <= size THEN 0 ELSE spec.width - size)
  BY <1>1, <1>2 DEF Max2
<1>4. field = Field(numeral, pad, spec)
  BY DEF numeral, size
<1>. HIDE DEF pad
<1>5. /\ Len(field) = size + pad
      /\ \A k \in 1..Len(field) :
            field[k] = IF k <= left THEN IF spec.padZeroes THEN "0" ELSE " "
                       ELSE IF k <= left + size THEN numeral[k - left] ELSE " "
  <2>1. numeral \in Seq(Character) /\ pad \in Nat
    BY <1>1, <1>3
  <2>2. LET before == IF spec.leftAlign THEN 0 ELSE pad
        IN /\ Len(field) = Len(numeral) + pad
           /\ \A k \in 1..Len(field) :
                 field[k] = IF k <= before THEN IF spec.padZeroes THEN "0" ELSE " "
                            ELSE IF k <= before + Len(numeral) THEN numeral[k - before] ELSE " "
    <3>1. /\ Len(field) = Len(numeral) + pad
          /\ \A k \in 1..Len(field) : field[k] = FieldChar(numeral, pad, spec, k)
      BY ONLY <1>4, <2>1, FieldText
    <3>. QED BY ONLY <3>1 DEF FieldChar
  <2>3. Len(numeral) = size
    BY <1>1
  <2>. QED BY ONLY <2>2, <2>3
<1>6. NumberSize(number, radix, signed) = size
  <2>1. ~(signed /\ radix = 10)
    OBVIOUS
  <2>. QED BY <1>1, <2>1 DEF NumberSize, size
<1>7. strRemain # 0 /\ size + pad < strRemain
  <2>1. size + pad < strRemain
    BY ONLY <1>5, Len(field) < strRemain
  <2>. QED BY <1>1, <1>2, <1>3, <2>1
<1>8. PICK text : IsPrinted(text, number, radix, upCase, size) /\ Puts(text) /\ Adds(Len(text))
  BY <1>6, <1>7, PrintWrites
<1>9. PrintRoom = strRemain - 1
  BY <1>2 DEF PrintRoom
<1>10. PrintLeft(size) = left /\ PrintRight(size) = (IF spec.leftAlign THEN pad ELSE 0)
  <2>1. pad \in Nat /\ pad <= PrintRoom
    BY ONLY <1>1, <1>2, <1>3, <1>7, <1>9
  <2>2. PrintPad(size) = pad
    <3>1. /\ Max2(spec.width, 1) \in Nat /\ Max2(spec.width, 1) >= 1
          /\ (spec.width >= 1 => Max2(spec.width, 1) = spec.width)
          /\ (spec.width = 0 => Max2(spec.width, 1) = 1)
      BY ONLY <1>2 DEF Max2
    <3>2. Max2(Max2(spec.width, 1) - size, 0) = pad
      BY ONLY <1>1, <1>2, <1>3, <3>1 DEF Max2
    <3>. QED BY ONLY <3>2 DEF PrintPad
  <2>3. Min2(pad, PrintRoom) = pad
    BY ONLY <2>1, <1>2, <1>9 DEF Min2
  <2>4. Min2(pad, Max2(PrintRoom - size, 0)) = pad
    <3>1. pad <= PrintRoom - size /\ PrintRoom - size \in Nat
      BY ONLY <1>1, <1>2, <1>3, <1>7, <1>9
    <3>2. Max2(PrintRoom - size, 0) = PrintRoom - size
      BY ONLY <3>1 DEF Max2
    <3>. QED BY ONLY <2>1, <3>1, <3>2 DEF Min2
  <2>5. PrintLeft(size) = IF spec.leftAlign THEN 0 ELSE pad
    BY ONLY <2>2, <2>3 DEF PrintLeft
  <2>6. PrintRight(size) = IF spec.leftAlign THEN pad ELSE 0
    BY ONLY <2>2, <2>4 DEF PrintRight
  <2>. QED BY ONLY <2>5, <2>6
<1>11. Len(text) = Len(field) /\ Len(text) = size + pad
  <2>1. Len(text) = left + size + (IF spec.leftAlign THEN pad ELSE 0)
    BY ONLY <1>8, <1>10 DEF IsPrinted
  <2>2. Len(text) = size + pad
    BY ONLY <1>1, <1>3, <2>1
  <2>. QED BY ONLY <1>5, <2>2
<1>12. ASSUME NEW k \in 1..size+pad PROVE text[k] = field[k] /\ text[k] # "skip"
  <2>1. text[k] = IF k <= left THEN PadChar
                  ELSE IF k <= left + size
                       THEN IF k > PrintRoom THEN "skip"
                            ELSE DigitAt(number, radix, upCase, size - (k - left))
                  ELSE PadChar
    BY <1>8, <1>10, <1>11 DEF IsPrinted
  <2>2. field[k] = IF k <= left THEN IF spec.padZeroes THEN "0" ELSE " "
                   ELSE IF k <= left + size THEN numeral[k - left] ELSE " "
    BY <1>5
  <2>3. left \in Nat /\ k \in Nat /\ ~(k > PrintRoom)
    BY <1>1, <1>2, <1>3, <1>7, <1>9
  <2>4. PadChar # "skip"
    BY DEF PadChar
  <2>5. CASE k <= left
    BY <2>1, <2>2, <2>4, <2>5 DEF PadChar
  <2>6. CASE ~(k <= left) /\ k <= left + size
    <3>1. k - left \in 1..size
      BY <1>1, <2>3, <2>6
    <3>2. text[k] = DigitAt(number, radix, upCase, size - (k - left))
      BY <2>1, <2>3, <2>6
    <3>3. field[k] = numeral[k - left]
      BY <2>2, <2>6
    <3>4. numeral[k - left] \in Character
      BY <1>1, <3>1
    <3>. QED BY <1>1, <3>1, <3>2, <3>3, <3>4, Characters
  <2>7. CASE ~(k <= left) /\ ~(k <= left + size)
    <3>1. spec.leftAlign
      <4>1. ~spec.leftAlign => left + size = size + pad
        BY <1>1, <1>3
      <4>. QED BY <1>1, <1>3, <2>3, <2>7, <4>1
    <3>2. PadChar = " "
      BY <3>1 DEF PadChar
    <3>. QED BY <2>1, <2>2, <2>7, <3>2, <2>4
  <2>. QED BY <2>5, <2>6, <2>7
<1>13. ASSUME NEW k \in 1..size+pad PROVE out'[pos + k - 1] = field[k]
  <2>. DEFINE o == pos + k - 1
  <2>1. /\ o \in 0..Extent-1 /\ pos <= o /\ o < pos + Len(text) /\ o - pos + 1 = k
    BY <1>1, <1>2, <1>3, <1>7, <1>11
  <2>. HIDE DEF o
  <2>2. out'[o] = IF text[k] = "skip" THEN out[o] ELSE text[k]
    BY <1>8, <2>1 DEF Puts
  <2>3. out'[o] = field[k]
    BY <1>12, <2>2
  <2>. QED BY <2>3 DEF o
<1>14. pos' = pos + Len(field)
  BY <1>8, <1>11 DEF Adds
<1>. QED BY <1>5, <1>13, <1>14

\* What a number's conversion is documented to print is a field, where text and code agree.
LEMMA IntegerField ==
    ASSUME NEW c, c.arg.number \in 0..QwordSize-1, c.type \in {"d", "x", "X"},
           c.type = "d" => ~c.arg.signed /\ c.arg.number < DwordSize,
           WidthSaid(c.spec) \in Nat, NEW settings,
           settings.leftAlign <=> "-" \in FlagsSaid(c.spec),
           settings.padZeroes <=> "0" \in FlagsSaid(c.spec)
    PROVE  LET radix == IF c.type = "d" THEN 10 ELSE 16
           IN Documented(c) = Field(Numeral(c.arg.number, radix, c.type = "X"),
                                    Max2(WidthSaid(c.spec) - ValueSize(c.arg.number, radix), 0), settings)
<1>. DEFINE number == c.arg.number
            radix == IF c.type = "d" THEN 10 ELSE 16
            upCase == c.type = "X"
            numeral == Numeral(number, radix, upCase)
            pad == Max2(WidthSaid(c.spec) - ValueSize(number, radix), 0)
<1>1. /\ numeral \in Seq(Character) /\ Len(numeral) = ValueSize(number, radix)
      /\ ValueSize(number, radix) \in Nat
  <2>1. number \in 0..QwordSize-1 /\ radix \in {10, 16} /\ upCase \in BOOLEAN
    OBVIOUS
  <2>2. radix = 10 => number < DwordSize
    OBVIOUS
  <2>. HIDE DEF number, radix, upCase
  <2>. QED BY ONLY <2>1, <2>2, NumeralText DEF numeral
<1>2. Sign(c) = <<>>
  BY DEF Sign
<1>3. Magnitude(c) = numeral
  <2>1. CASE c.type # "d"
    BY <2>1 DEF Magnitude
  <2>2. CASE c.type = "d"
    <3>1. TrueValue(c.arg) = number /\ ~(number < 0)
      <4>1. number \in Nat
        BY SprintfAssumption
      <4>. QED BY <2>2, <4>1 DEF TrueValue
    <3>2. upCase = FALSE /\ radix = 10
      BY <2>2
    <3>. QED BY <2>2, <3>1, <3>2 DEF Magnitude
  <2>. QED BY <2>1, <2>2
<1>. HIDE DEF numeral
<1>4. <<>> \o numeral = numeral
  BY <1>1, ConcatEmptySeq
<1>5. DocumentedInteger(c) =
         IF "-" \in FlagsSaid(c.spec) THEN numeral \o [k \in 1..pad |-> " "]
         ELSE IF "0" \in FlagsSaid(c.spec) THEN <<>> \o [k \in 1..pad |-> "0"] \o numeral
         ELSE [k \in 1..pad |-> " "] \o numeral
  BY <1>1, <1>2, <1>3, <1>4 DEF DocumentedInteger
<1>6. Documented(c) = DocumentedInteger(c)
  BY DEF Documented
<1>7. pad \in Nat => <<>> \o [k \in 1..pad |-> "0"] = [k \in 1..pad |-> "0"]
  <2>. SUFFICES ASSUME pad \in Nat PROVE <<>> \o [k \in 1..pad |-> "0"] = [k \in 1..pad |-> "0"]
    OBVIOUS
  <2>. HIDE DEF pad
  <2>1. [k \in 1..pad |-> "0"] \in Seq({"0"})
    OBVIOUS
  <2>. QED BY <2>1, ConcatEmptySeq

<1>8. pad \in Nat
  BY <1>1 DEF Max2
<1>. HIDE DEF pad
<1>9. Documented(c) = Field(numeral, pad, settings)
  <2>1. CASE "-" \in FlagsSaid(c.spec)
    BY <1>5, <1>6, <2>1 DEF Field
  <2>2. CASE "-" \notin FlagsSaid(c.spec) /\ "0" \in FlagsSaid(c.spec)
    BY <1>5, <1>6, <1>7, <1>8, <2>2 DEF Field
  <2>3. CASE "-" \notin FlagsSaid(c.spec) /\ "0" \notin FlagsSaid(c.spec)
    BY <1>5, <1>6, <2>3 DEF Field
  <2>. QED BY <2>1, <2>2, <2>3
<1>. QED BY <1>9 DEF numeral, pad

\* Text no shorter than its width is documented to be printed as it is.
LEMMA UnpaddedText ==
    ASSUME NEW c, c.type \notin {"d", "x", "X"}, TextSaid(c) \in Seq(Character),
           WidthSaid(c.spec) \in Nat, WidthSaid(c.spec) <= Len(TextSaid(c))
    PROVE  Documented(c) = TextSaid(c)
<1>. DEFINE pad    == Max2(WidthSaid(c.spec) - Len(TextSaid(c)), 0)
            blanks == [k \in 1..pad |-> " "]
<1>1. pad = 0
  BY DEF Max2
<1>2. blanks = <<>>
  <2>1. blanks \in [1..0 -> Character] /\ 0 \in Nat
    BY <1>1
  <2>. HIDE DEF blanks
  <2>2. blanks \in Seq(Character) /\ Len(blanks) = 0
    BY <2>1, Listed
  <2>. QED BY <2>2
<1>3. Documented(c) = IF "-" \in FlagsSaid(c.spec) THEN TextSaid(c) \o blanks ELSE blanks \o TextSaid(c)
  BY DEF Documented, DocumentedText
<1>. HIDE DEF blanks
<1>. QED BY <1>2, <1>3, ConcatEmptySeq

LEMMA DocumentedStep ==
    ASSUME TypeOK, CallInv, RoomInv, SaidInv, Next
    PROVE  PrintsAsDocumented'
<1>. DEFINE c == last'
            Goal == /\ pos' = c.at + Len(Documented(c))
                    /\ \A k \in 1..Len(Documented(c)) : out'[c.at + k - 1] = Documented(c)[k]
<1>1. SUFFICES ASSUME currState' = "TYPE", pc' = "loop", Agreed(last)', Len(Documented(c)) < c.room
               PROVE  Goal
  BY DEF PrintsAsDocumented
<1>2. Type
  <2>1. ~Mismatch /\ ~LoopEnd /\ ~Return /\ ~Done
    BY <1>1 DEF Mismatch, LoopEnd, Return, Done, vars
  <2>2. ~Literal /\ ~Percent /\ ~Flag /\ ~Width /\ ~Precision
    BY <1>1 DEF Literal, Percent, Flag, Width, Precision, Turn
  <2>. QED BY <2>1, <2>2 DEF Next
<1>3. PICK arg \in args :
          \/ ConvertPackedString(arg) \/ ConvertInteger(arg) \/ ConvertBoolean(arg)
          \/ ConvertString(arg) \/ ConvertWildString(arg)
  BY <1>2 DEF Type
<1>4. /\ last' = [type |-> wch, spec |-> SpecText, arg |-> arg, at |-> pos, room |-> strRemain]
      /\ precision' = precision
  BY <1>3 DEF ConvertPackedString, ConvertInteger, ConvertBoolean, ConvertString,
              ConvertWildString, Converts, SpecText
<1>5. c.type = wch /\ c.spec = SpecText /\ c.arg = arg /\ c.at = pos /\ c.room = strRemain
  BY <1>4
<1>6. \/ /\ wch \in {"d", "x", "X"} /\ ~({"-", "0"} \subseteq FlagsSaid(SpecText))
         /\ wch = "d" => ~arg.signed /\ arg.number < DwordSize
      \/ /\ WidthSaid(SpecText) <= Len(TextSaid(c))
         /\ \/ wch = "c"
            \/ wch = "w" /\ arg.type = "ansi"
            \/ /\ wch = "s" /\ PrecisionSaid(SpecText) # 0
               /\ precision = (IF PrecisionSaid(SpecText) = -1 THEN 0 ELSE PrecisionSaid(SpecText))
  BY <1>1, <1>4, <1>5 DEF Agreed
<1>7. Said(SpecText, currState, spec)
  <2>1. pc = "loop" /\ getState(CharType(wch), currState) = "TYPE"
    BY <1>2 DEF Type, Turn
  <2>2. currState \in Specifying
    BY <2>1, Transitions DEF TypeOK, Specifying
  <2>. QED BY <2>1, <2>2 DEF SaidInv
<1>8. /\ pos + strRemain <= Extent /\ strRemain \in 0..DwordSize-1 /\ pos \in Nat /\ precision \in Nat
      /\ Extent \in Nat /\ DwordSize \in Nat /\ Extent < DwordSize
  <2>1. pos + strRemain = bufSize
    BY <1>2 DEF RoomInv, Type, Turn
  <2>. QED BY <2>1, SprintfAssumption DEF TypeOK
<1>9. /\ arg.number \in 0..QwordSize-1 /\ arg.signed \in BOOLEAN /\ arg.text \in Seq(Character)
      /\ arg.type = "integer" => ~arg.null
  <2>1. arg.text \in Seq(Letters)
    BY DEF CallInv
  <2>2. Letters \subseteq Character
    BY Characters
  <2>3. arg.text \in Seq(Character)
    BY ONLY <2>1, <2>2, Widened
  <2>. QED BY <2>3 DEF CallInv
<1>. HIDE DEF c
<1>10. ASSUME wch \in {"c", "s", "w"}, TextSaid(c) \in Seq(Character)
       PROVE  Documented(c) = TextSaid(c)
  <2>1. WidthSaid(SpecText) \in Nat
    BY <1>7 DEF Said
  <2>2. WidthSaid(SpecText) <= Len(TextSaid(c))
    BY <1>6, <1>10
  <2>. QED BY <1>5, <1>10, <2>1, <2>2, UnpaddedText
<1>11. ASSUME NEW text \in Seq(Character), NEW length \in 0..Len(text), Copy(text, length),
              Documented(c) = SubSeq(text, 1, length)
       PROVE  Goal
  <2>1. /\ Len(SubSeq(text, 1, length)) = length
        /\ \A k \in 1..length : SubSeq(text, 1, length)[k] = text[k]
    <3>1. \A k \in 1..length : text[k] \in Character
      BY <1>11
    <3>2. /\ Len(SubSeq(text, 1, length)) = (IF 1 <= length THEN length - 1 + 1 ELSE 0)
          /\ \A k \in 1..length-1+1 : SubSeq(text, 1, length)[k] = text[1 + k - 1]
      BY <3>1, SubSeqProperties
    <3>3. \A k \in 1..length : k \in 1..length-1+1 /\ 1 + k - 1 = k
      OBVIOUS
    <3>. QED BY <3>2, <3>3
  <2>2. length < strRemain
    BY <1>1, <1>5, <1>11, <2>1
  <2>3. pos' = pos + length /\ \A k \in 1..length : out'[pos + k - 1] = text[k]
    BY <1>8, <1>11, <2>2, CopyPuts
  <2>. QED BY <1>5, <1>11, <2>1, <2>3
<1>12. CASE ConvertPackedString(arg)
  <2>1. wch = "c" /\ arg.type = "integer" /\ Copy(arg.text, Len(arg.text))
    BY <1>12 DEF ConvertPackedString, Converts
  <2>2. Documented(c) = arg.text
    <3>1. TextSaid(c) = arg.text
      BY <1>5, <1>9, <2>1 DEF TextSaid
    <3>. QED BY <1>9, <1>10, <2>1, <3>1
  <2>3. Len(arg.text) \in 0..Len(arg.text) /\ SubSeq(arg.text, 1, Len(arg.text)) = arg.text
    BY <1>9, SubSeqFull
  <2>. QED BY <1>9, <1>11, <2>1, <2>2, <2>3
<1>13. CASE ConvertInteger(arg)
  <2>. DEFINE number == arg.number
              upCase == wch = "X"
              said == WidthSaid(SpecText)
              numeral == Numeral(number, Radix, upCase)
              size == ValueSize(number, Radix)
  <2>1. /\ wch \in {"d", "x", "X"} /\ printInt(number, Radix, arg.signed, upCase)
        /\ Radix \in {10, 16} /\ upCase \in BOOLEAN
    BY <1>13 DEF ConvertInteger, Radix
  <2>2. /\ ~({"-", "0"} \subseteq FlagsSaid(SpecText))
        /\ wch = "d" => ~arg.signed /\ number < DwordSize
    BY <1>6, <2>1
  <2>3. /\ spec.leftAlign <=> "-" \in FlagsSaid(SpecText)
        /\ spec.padZeroes <=> "0" \in FlagsSaid(SpecText)
        /\ said \in Nat
        /\ said < DwordSize => spec.width = said
    BY <1>7 DEF Said
  <2>4. Documented(c) = Field(numeral, Max2(said - size, 0), spec)
    BY <1>5, <1>9, <2>1, <2>2, <2>3, IntegerField DEF Radix
  <2>6. (Radix = 10 => number < DwordSize /\ ~arg.signed) /\ number \in 0..QwordSize-1
    BY <1>9, <2>2 DEF Radix
  <2>. HIDE DEF number, upCase, said
  <2>7. numeral \in Seq(Character) /\ Len(numeral) = size /\ size \in Nat
    BY <2>1, <2>6, NumeralText
  <2>. HIDE DEF numeral, size
  <2>8. Len(Documented(c)) = size + Max2(said - size, 0) /\ Max2(said - size, 0) \in Nat
    <3>. DEFINE pad == Max2(said - size, 0)
    <3>1. pad \in Nat
      BY <2>3, <2>7 DEF Max2
    <3>. HIDE DEF pad
    <3>2. Documented(c) = Field(numeral, pad, spec)
      BY <2>4 DEF pad
    <3>3. Len(Documented(c)) = Len(numeral) + pad
      BY <2>7, <3>1, <3>2, FieldText
    <3>. QED BY <2>7, <3>1, <3>3 DEF pad
  <2>9. Len(Documented(c)) < strRemain
    BY <1>1, <1>5
  <2>10. spec.width = said
    <3>1. said <= size + Max2(said - size, 0)
      BY <2>3, <2>7 DEF Max2
    <3>. QED BY <1>8, <2>3, <2>7, <2>8, <2>9, <3>1
  <2>11. ~(spec.leftAlign /\ spec.padZeroes)
    BY <2>2, <2>3
  <2>12. /\ pos' = pos + Len(Documented(c))
         /\ \A k \in 1..Len(Documented(c)) : out'[pos + k - 1] = Documented(c)[k]
    <3>. DEFINE field == Documented(c)
    <3>1. field = Field(Numeral(number, Radix, upCase), Max2(spec.width - ValueSize(number, Radix), 0), spec)
      BY <2>4, <2>10 DEF numeral, size
    <3>2. Len(field) < strRemain
      BY <2>9
    <3>3. printInt(number, Radix, arg.signed, upCase) /\ arg.signed \in BOOLEAN
      BY <1>9, <2>1
    <3>. HIDE DEF field
    <3>4. pos' = pos + Len(field) /\ \A k \in 1..Len(field) : out'[pos + k - 1] = field[k]
      BY <1>8, <2>1, <2>6, <2>11, <3>1, <3>2, <3>3, NumberPuts
    <3>. QED BY <3>4 DEF field
  <2>. QED BY <1>5, <2>12
<1>14. CASE ConvertBoolean(arg)
  BY <1>6, <1>14 DEF ConvertBoolean
<1>15. CASE ConvertString(arg)
  <2>. DEFINE text == IF arg.null THEN wszNull ELSE arg.text
              length == IF precision # 0 THEN Min2(Len(text), precision) ELSE Len(text)
  <2>1. wch = "s" /\ Copy(text, length)
    BY <1>15 DEF ConvertString
  <2>2. text \in Seq(Character) /\ Len(text) \in Nat
    <3>1. wszNull \in Seq(Character)
      BY Characters
    <3>2. text \in Seq(Character)
      BY <1>9, <3>1
    <3>. QED BY <3>2
  <2>3. /\ PrecisionSaid(SpecText) # 0
        /\ precision = (IF PrecisionSaid(SpecText) = -1 THEN 0 ELSE PrecisionSaid(SpecText))
    BY <1>6, <2>1
  <2>. HIDE DEF text
  <2>4. length \in 0..Len(text)
    BY <1>8, <2>2 DEF Min2
  <2>5. Documented(c) = SubSeq(text, 1, length)
    <3>1. TextSaid(c) = IF PrecisionSaid(SpecText) >= 0
                        THEN SubSeq(text, 1, Min2(PrecisionSaid(SpecText), Len(text))) ELSE text
      BY <1>5, <2>1 DEF TextSaid, text
    <3>2. TextSaid(c) = SubSeq(text, 1, length)
      <4>1. CASE PrecisionSaid(SpecText) = -1
        <5>1. length = Len(text) /\ TextSaid(c) = text
          BY <2>3, <3>1, <4>1
        <5>. QED BY <2>2, <5>1, SubSeqFull
      <4>2. CASE PrecisionSaid(SpecText) # -1
        <5>1. precision = PrecisionSaid(SpecText) /\ precision # 0
          BY <2>3, <4>2
        <5>2. Min2(precision, Len(text)) = Min2(Len(text), precision)
          BY <1>8, <2>2 DEF Min2
        <5>3. length = Min2(Len(text), precision) /\ PrecisionSaid(SpecText) >= 0
          BY <1>8, <5>1
        <5>. HIDE DEF length
        <5>. QED BY ONLY <3>1, <5>1, <5>2, <5>3
      <4>. QED BY <4>1, <4>2
    <3>3. SubSeq(text, 1, length) \in Seq(Character)
      BY <2>2, <2>4
    <3>. QED BY <1>10, <2>1, <3>2, <3>3
  <2>. HIDE DEF length
  <2>. QED BY <1>11, <2>1, <2>2, <2>4, <2>5
<1>16. CASE ConvertWildString(arg)
  <2>. DEFINE text == IF arg.null THEN wszNull ELSE arg.text
  <2>1. wch = "w" /\ arg.type = "ansi"
    BY <1>6, <1>16 DEF ConvertWildString
  <2>2. Copy(text, Len(text))
    BY <1>16, <2>1 DEF ConvertWildString
  <2>3. text \in Seq(Character) /\ Len(text) \in Nat
    <3>1. wszNull \in Seq(Character)
      BY Characters
    <3>2. text \in Seq(Character)
      BY <1>9, <3>1
    <3>. QED BY <3>2
  <2>4. Documented(c) = text
    <3>1. TextSaid(c) = text
      BY <1>5, <2>1 DEF TextSaid
    <3>. HIDE DEF text
    <3>. QED BY <1>10, <2>1, <2>3, <3>1
  <2>. HIDE DEF text
  <2>5. Len(text) \in 0..Len(text) /\ SubSeq(text, 1, Len(text)) = text
    BY <2>3, SubSeqFull
  <2>. QED BY <1>11, <2>2, <2>3, <2>4, <2>5
<1>. QED BY <1>3, <1>12, <1>13, <1>14, <1>15, <1>16

LEMMA DocumentedInvStep ==
    DocumentedInv /\ [Next]_vars /\ [NumbersFit]_vars => DocumentedInv'
<1>. SUFFICES ASSUME DocumentedInv, [Next]_vars, [NumbersFit]_vars PROVE DocumentedInv'
  OBVIOUS
<1>1. SprintfInv'
  BY InvStep DEF DocumentedInv
<1>2. CASE UNCHANGED vars
  BY <1>1, <1>2 DEF DocumentedInv, SaidInv, SpecText, PrintsAsDocumented, Agreed, vars
<1>3. CASE Next
  BY <1>1, <1>3, SaidStep, DocumentedStep DEF DocumentedInv, SprintfInv
<1>. QED BY <1>2, <1>3

-----------------------------------------------------------------------------
(* The theorems *)

\* Every variable of kSprintf stays in its type, its unsigned lengths in a DWORD
\* even where they wrap.
THEOREM SprintfTypeCorrect == Spec => []TypeOK
<1>1. Init => TypeOK /\ CallInv
  BY InitInv DEF SprintfInv
<1>. QED BY <1>1, TypeStep, PTL DEF Spec

\* Where every number finds room for its field, whatever else the format holds and
\* the arguments are, nothing is written past the string's buffer.
THEOREM BufferKept == Spec /\ [][NumbersFit]_vars => []NeverOverruns
<1>1. SprintfInv => NeverOverruns
  BY DEF SprintfInv
<1>. QED BY <1>1, InitInv, InvStep, PTL DEF Spec

\* There kSprintf also returns the length of a string that is terminated in its
\* buffer, with no character before the end left out.
THEOREM StringTerminated == Spec /\ [][NumbersFit]_vars => []Terminated
<1>1. SprintfInv => Terminated
  BY DEF SprintfInv
<1>. QED BY <1>1, InitInv, InvStep, PTL DEF Spec

\* There every conversion on whose text the code and its documentation agree prints
\* that text: the settings the loop has taken from the format are what the format says,
\* and a number's digits, its padding and a string's precision come out as documented.
THEOREM DocumentedPrinted == Spec /\ [][NumbersFit]_vars => []PrintsAsDocumented
<1>1. DocumentedInv => PrintsAsDocumented
  BY DEF DocumentedInv
<1>2. Init => DocumentedInv
  BY InitInv DEF Init, DocumentedInv, SaidInv, Specifying, PrintsAsDocumented
<1>. QED BY <1>1, <1>2, DocumentedInvStep, PTL DEF Spec
=============================================================================
