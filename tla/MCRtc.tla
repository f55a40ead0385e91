------------------------------- MODULE MCRtc -------------------------------
(***************************************************************************)
(* The last seconds of 1999, where every register changes at once, and two *)
(* at noon, where the 12-hour form is easiest to get wrong.                *)
(***************************************************************************)
EXTENDS Rtc

MCDate(s, m, h, w, d, mo, y) ==
    [second |-> s, minute |-> m, hour |-> h, weekday |-> w,
     day |-> d, month |-> mo, year |-> y]

MCInstants == <<MCDate(58, 59, 23, 6, 31, 12, 1999), MCDate(59, 59, 23, 6, 31, 12, 1999),
                MCDate(0, 0, 0, 7, 1, 1, 2000), MCDate(59, 59, 11, 7, 1, 1, 2000),
                MCDate(0, 0, 12, 7, 1, 1, 2000)>>
MCGarbage == {0, 255}
=============================================================================
