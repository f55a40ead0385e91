----------------------------- MODULE MCSprintf -----------------------------
(***************************************************************************)
(* Calls whose formats are put together of pieces: strings and numbers of  *)
(* one digit in buffers too small for most of them, what the kernel's own  *)
(* messages are made of, and text with a width it fills or does not, in a  *)
(* buffer that holds it; and, for the violation, a number in a buffer one  *)
(* digit too small.                                                        *)
(***************************************************************************)
EXTENDS Sprintf

MCLetters == {"a", "b", "c", "d", "p", "q", "s", "u", "v", "w", "x", "X", "0", "1", "2", "4",
              "%", "-", ".", ":"}

\* Up to three pieces in a row.
Composed(pieces) == {FlattenSeq(s) : s \in UNION {[1..n -> pieces] : n \in 0..3}}

CallsOf(formats, sizes, arguments) == [fmt : formats, bufSize : sizes, args : {arguments}]

MCText == <<"u", "v", "w">>

MCTextCalls ==
    CallsOf(Composed({<<"a">>, <<"%", "%">>, <<"%", "-">>, <<"%", ".">>, <<"%", "s">>,
                      <<"%", ".", "2", "s">>, <<"%", ".", "0", "s">>, <<"%", "c">>, <<"%", "w">>,
                      <<"%", "b">>, <<"%", "d">>}),
            {1, 2, 5},
            {Text("kstring", MCText), Null("kstring"), Text("ansi", MCText), Null("ansi"),
             Text("wide", MCText), Boolean(TRUE),
             Integer(FALSE, 256, 7, <<"p", "q">>), Integer(TRUE, 256, 7, <<"p">>)})

MCKernelCalls ==
    CallsOf(Composed({<<":">>, <<"%", "d">>, <<"%", "4", "d">>, <<"%", "-", "4", "d">>,
                      <<"%", "0", "4", "X">>, <<"%", "1", "0", "x">>, <<"%", "c">>, <<"%", "s">>,
                      <<"%", ".", "2", "s">>, <<"%", "w">>, <<"%", "4", "s">>, <<"%", "-", "2", "c">>,
                      <<"%", "2", "w">>}),
            {30},
            {Integer(FALSE, 256, n, <<"p", "q">>) : n \in {0, 10, 171, 255}}
            \cup {Integer(FALSE, 65536, 4095, <<"p">>), Text("kstring", MCText), Null("kstring"),
                  Text("ansi", MCText), Null("ansi")})

MCCalls == MCTextCalls \cup MCKernelCalls

MCOverrunCalls ==
    CallsOf({<<"%", "d">>, <<"a", "%", "d">>, <<"%", "d", "a">>}, {2, 3},
            {Integer(FALSE, 256, n, <<"p">>) : n \in {7, 171}})
=============================================================================
