-------------------------- MODULE MCDebugFraming --------------------------
(***************************************************************************)
(* Three messages of every kind, their data made of zeroes, of bytes that  *)
(* equal a packet type, and of others; strings of up to two characters.    *)
(***************************************************************************)
EXTENDS DebugFraming

Message(kind, data) == [kind |-> kind, data |-> data]

MCLoaderMessages ==
    {Message("lf", <<>>)}
    \cup {Message("byte", <<b>>) : b \in {0, 5}} \cup {Message("char", <<5>>)}
    \cup {Message("word", <<a, b>>) : a, b \in {0, DBG_LF}}
    \cup {Message("dword", d) : d \in {<<0, 0, 0, 0>>, <<5, 0, 0, 5>>, <<0, 5, 5, 0>>, <<5, 5, 5, 5>>}}
    \cup {Message("str", t) : t \in {<<5>>, <<DBG_LF, 5>>}}

\* The pairs of a unicode character: of a Latin one the second byte is zero.
MCKernelMessages ==
    {Message("lf", <<>>)}
    \cup {Message("str", t) : t \in {<<>>, <<5>>, <<DBG_WSTR, 5>>}}
    \cup {Message("kstring", t) : t \in {<<5, 0>>, <<0, 5>>, <<5, 0, 0, 5>>, <<0, 5, 5, 0>>}}

MCFollowing == <<7, 0>>

\* The messages of the run are ones the proofs are about.
ASSUME MCMessagesAssumption == MessagesSound
=============================================================================
