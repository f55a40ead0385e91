------------------------------- MODULE Vesa -------------------------------
(***************************************************************************)
(* initVesa and draw32quad (vkern/vkern.cpp): the walk over the BIOS's     *)
(* list of video modes, the choice of one, and the picture drawn into its  *)
(* frame buffer.  Each call of the video BIOS may fail; the code looks at  *)
(* the result of the first only.  Sizes are scaled: Side stands for the    *)
(* 256 values of a byte, in colours as in coordinates.                     *)
(***************************************************************************)
EXTENDS Integers, Sequences, FiniteSets, Functions

CONSTANTS
    Modes,          \* mode numbers, none of them 0 or 0FFFFh
    Info,           \* VBEMODEINFO of each mode, its fields that are read
    Lists,          \* the lists of modes a BIOS may have, without their end mark
    Leftovers,      \* what may lie at MEM_VBEMODE_BASE before the first call
    MinX, MaxX, MinY, MaxY,     \* 800, 1280, 600, 768
    Side                        \* 256

None == "none"          \* mode number 0
Text == "text"          \* the mode the machine boots in

ModeInfo == [resolutionX : Nat, resolutionY : Nat, linear : BOOLEAN, bitsPerPixel : Nat,
             linearFrameBuffer : Nat, pitch : Nat]

ASSUME VesaAssumption ==
    /\ None \notin Modes /\ Info \in [Modes -> ModeInfo] /\ Leftovers \subseteq ModeInfo
    /\ \A list \in Lists : list \in Seq(Modes) /\ IsInjective(list)
    /\ {MinX, MaxX, MinY, MaxY} \subseteq Nat
    /\ Side \in Nat \ {0} /\ MinX >= 2 * Side /\ MinY >= 2 * Side

VARIABLES
    pc,
    list,           \* the BIOS's list of modes
    iMode,          \* its entry looked at next
    block,          \* the mode information block at MEM_VBEMODE_BASE
    modeSelected,
    display,        \* DISPLAYBUFFER
    card,           \* the mode the adapter is in
    iy, painted,    \* draw32quad: the row, and the pixels of the buffer written
    answered        \* history: the modes whose information the BIOS gave

vars == <<pc, list, iMode, block, modeSelected, display, card, iy, painted, answered>>

NoBuffer == [bValid |-> FALSE, pBuffer |-> 0, width |-> 0, height |-> 0]

Init ==
    /\ pc = "info"
    /\ list \in Lists /\ block \in Leftovers
    /\ iMode = 1 /\ modeSelected = None
    /\ display = NoBuffer       \* only bValid is set; the rest is unread until chosen
    /\ card = Text
    /\ iy = 0 /\ painted = <<>> /\ answered = {}

\* VBE_GETCTLRINFO, whose result decides on everything else.
GetControllerInfo ==
    /\ pc = "info"
    /\ \E ok \in BOOLEAN : pc' = IF ok THEN "walk" ELSE "done"
    /\ UNCHANGED <<list, iMode, block, modeSelected, display, card, iy, painted, answered>>

\* VBE_GETMODEINFO for the next entry: when it fails, the block stays as it was.
GetModeInfo ==
    /\ pc = "walk" /\ iMode \in DOMAIN list
    /\ pc' = "judge"
    /\ \/ block' = Info[list[iMode]] /\ answered' = answered \cup {list[iMode]}
       \/ UNCHANGED <<block, answered>>
    /\ UNCHANGED <<list, iMode, modeSelected, display, card, iy, painted>>

\* MUTANT of Suitable: a window instead of a linear buffer will do.
SuitableWindowed(mi) ==
    /\ mi.resolutionX \in MinX..MaxX /\ mi.resolutionY \in MinY..MaxY
    /\ mi.bitsPerPixel = 32

\* MUTANT of Suitable: no least height.
SuitableFlat(mi) ==
    /\ mi.resolutionX \in MinX..MaxX /\ mi.resolutionY <= MaxY
    /\ mi.linear /\ mi.bitsPerPixel = 32

Suitable(mi) ==
    /\ mi.resolutionX \in MinX..MaxX /\ mi.resolutionY \in MinY..MaxY
    /\ mi.linear /\ mi.bitsPerPixel = 32

BufferOf(mi) == [bValid |-> FALSE, pBuffer |-> mi.linearFrameBuffer,
                 width |-> mi.resolutionX, height |-> mi.resolutionY]

\* MUTANT of JudgeMode: the buffer stays that of the first mode that will do.
JudgeModeKeepsBuffer ==
    /\ pc = "judge" /\ pc' = "walk"
    /\ IF Suitable(block)
       THEN /\ modeSelected' = list[iMode]
            /\ display' = IF modeSelected = None THEN BufferOf(block) ELSE display
       ELSE UNCHANGED <<modeSelected, display>>
    /\ iMode' = iMode + 1
    /\ UNCHANGED <<list, block, card, iy, painted, answered>>

\* MUTANT of JudgeMode: a mode that will not do is not stepped over.
JudgeModeStays ==
    /\ pc = "judge" /\ pc' = "walk"
    /\ IF Suitable(block)
       THEN modeSelected' = list[iMode] /\ display' = BufferOf(block) /\ iMode' = iMode + 1
       ELSE UNCHANGED <<modeSelected, display, iMode>>
    /\ UNCHANGED <<list, block, card, iy, painted, answered>>

\* The block is judged, whoever wrote it; the last mode that will do is kept.
JudgeMode ==
    /\ pc = "judge" /\ pc' = "walk"
    /\ IF Suitable(block)
       THEN modeSelected' = list[iMode] /\ display' = BufferOf(block)
       ELSE UNCHANGED <<modeSelected, display>>
    /\ iMode' = iMode + 1
    /\ UNCHANGED <<list, block, card, iy, painted, answered>>

\* MUTANT of EndOfList: the end mark is stepped over like an entry.
EndOfListStepsOver ==
    /\ pc = "walk" /\ iMode \notin DOMAIN list
    /\ pc' = IF modeSelected = None THEN "done" ELSE "set"
    /\ iMode' = iMode + 1
    /\ UNCHANGED <<list, block, modeSelected, display, card, iy, painted, answered>>

EndOfList ==
    /\ pc = "walk" /\ iMode \notin DOMAIN list
    /\ pc' = IF modeSelected = None THEN "done" ELSE "set"
    /\ UNCHANGED <<list, iMode, block, modeSelected, display, card, iy, painted, answered>>

\* MUTANT of SetMode: the mode set is the last one of the list.
SetModeLast ==
    /\ pc = "set" /\ pc' = "draw"
    /\ card' \in {card, list[iMode - 1]}
    /\ display' = [display EXCEPT !.bValid = TRUE]
    /\ UNCHANGED <<list, iMode, block, modeSelected, iy, painted, answered>>

\* VBE_SETMODE with VMN_USELINEARFB: whether it worked is not asked.
SetMode ==
    /\ pc = "set" /\ pc' = "draw"
    /\ card' \in {card, modeSelected}
    /\ display' = [display EXCEPT !.bValid = TRUE]
    /\ UNCHANGED <<list, iMode, block, modeSelected, iy, painted, answered>>

avg256(a, b) == (a * b) \div Side

\* MUTANT of Colour: the last quarter's blue without its row.
ColourFlat(row, col) ==
    LET y == row % Side   x == col % Side   top == Side - 1
    IN CASE row < Side /\ col < Side   -> [b |-> 0, g |-> top - x, r |-> top - y]
         [] row < Side /\ col >= Side  -> [b |-> x, g |-> 0, r |-> top - y]
         [] row >= Side /\ col < Side  -> [b |-> y, g |-> top - x, r |-> 0]
         [] row >= Side /\ col >= Side -> [b |-> ((x * (top - y)) \div Side) % Side,
                                           g |-> avg256(x, y), r |-> avg256(x, y)]

\* The colour of a pixel of the four quarters, each component a byte.
Colour(row, col) ==
    LET y == row % Side   x == col % Side   top == Side - 1
    IN CASE row < Side /\ col < Side   -> [b |-> 0, g |-> top - x, r |-> top - y]
         [] row < Side /\ col >= Side  -> [b |-> x, g |-> 0, r |-> top - y]
         [] row >= Side /\ col < Side  -> [b |-> y, g |-> top - x, r |-> 0]
         [] row >= Side /\ col >= Side -> [b |-> (y + ((x * (top - y)) \div Side)) % Side,
                                           g |-> avg256(x, y), r |-> avg256(x, y)]

\* One turn of the outer loop: a row of the upper two quarters and one of the lower.
\* Rows are as wide as the picture, not as the adapter's bytes per scan line.
DrawRow ==
    /\ pc = "draw" /\ display.bValid /\ iy < Side
    /\ LET row == {display.width * r + c : r \in {iy, iy + Side}, c \in 0..2*Side-1}
       IN painted' = [o \in row \cup DOMAIN painted |->
                        IF o \in row THEN Colour(o \div display.width, o % display.width) ELSE painted[o]]
    /\ iy' = iy + 1
    /\ UNCHANGED <<pc, list, iMode, block, modeSelected, display, card, answered>>

DrawEnds ==
    /\ pc = "draw" /\ iy = Side
    /\ pc' = "done"
    /\ UNCHANGED <<list, iMode, block, modeSelected, display, card, iy, painted, answered>>

Done == pc = "done" /\ UNCHANGED vars

Next == \/ GetControllerInfo \/ GetModeInfo \/ JudgeMode \/ EndOfList \/ SetMode
        \/ DrawRow \/ DrawEnds \/ Done

Spec == Init /\ [][Next]_vars /\ WF_vars(Next)

-----------------------------------------------------------------------------
(* Properties *)

\* The type of every variable.
TypeOK ==
    /\ pc \in {"info", "walk", "judge", "set", "draw", "done"}
    /\ list \in Lists /\ iMode \in 1..Len(list) + 1
    /\ block \in Leftovers \cup Range(Info)
    /\ modeSelected \in Modes \cup {None} /\ card \in Modes \cup {Text}
    /\ display \in [bValid : BOOLEAN, pBuffer : Nat, width : Nat, height : Nat]
    /\ iy \in 0..Side /\ \A o \in DOMAIN painted : painted[o] \in [b : 0..Side-1, g : 0..Side-1, r : 0..Side-1]
    /\ answered \subseteq Modes

\* The buffer, the size and the mode chosen (vkern.cpp:726-735) belong together,
\* whatever failed for other modes: a mode whose own information arrived is
\* described by it and by nothing left over from another.
DescribesItsMode ==
    modeSelected \in answered =>
        /\ Suitable(Info[modeSelected])
        /\ display = [BufferOf(Info[modeSelected]) EXCEPT !.bValid = display.bValid]

\* When the BIOS described every mode of its list, a mode is set exactly if one of
\* them is a linear one of 32 bits and of a size in the range, and of several the
\* last (vkern.cpp:697-749).
ChoosesTheLastSuitable ==
    pc \in {"set", "draw", "done"} /\ answered = Range(list) =>
        LET fit == {k \in DOMAIN list : /\ Info[list[k]].linear
                                        /\ Info[list[k]].bitsPerPixel = 32
                                        /\ MinX <= Info[list[k]].resolutionX /\ Info[list[k]].resolutionX <= MaxX
                                        /\ MinY <= Info[list[k]].resolutionY /\ Info[list[k]].resolutionY <= MaxY}
        IN IF fit = {} THEN modeSelected = None
           ELSE \E k \in fit : modeSelected = list[k] /\ \A j \in fit : j <= k

\* No pixel is written outside the width by height of the display, even if they
\* were taken from a block that describes another mode (vkern.cpp:866-898).
StaysInFrame == \A o \in DOMAIN painted : o \in 0..(display.width * display.height - 1)

OnScreen(row, col) == painted[row * Info[card].pitch + col]

Near(p, q) == /\ p.b - q.b \in -1..1 /\ p.g - q.g \in -1..1 /\ p.r - q.r \in -1..1

\* The picture vkern.cpp:838-843 draws appears on the screen: yellow, red, magenta,
\* blue, (nearly) white, blue, cyan, green around a black centre, and from pixel to
\* pixel no component jumps, neither inside a quarter nor across its edges.  For a
\* mode that was set, whose information arrived and whose lines are not padded.
PictureAsDrawn ==
    LET top == Side - 1   end == 2 * Side - 1
        rgb(r, g, b) == [b |-> b, g |-> g, r |-> r]
    IN  pc = "done" /\ card # Text /\ card \in answered /\ Info[card].pitch = Info[card].resolutionX
            => /\ OnScreen(0, 0) = rgb(top, top, 0)      /\ OnScreen(0, top) = rgb(top, 0, 0)
               /\ OnScreen(0, end) = rgb(top, 0, top)    /\ OnScreen(top, 0) = rgb(0, top, 0)
               /\ OnScreen(top, top) = rgb(0, 0, 0)      /\ OnScreen(top, end) = rgb(0, 0, top)
               /\ OnScreen(end, 0) = rgb(0, top, top)    /\ OnScreen(end, top) = rgb(0, 0, top)
               /\ Near(OnScreen(end, end), rgb(top, top, top))
               /\ \A row \in 0..end, col \in 0..end :
                    /\ row < end => Near(OnScreen(row, col), OnScreen(row + 1, col))
                    /\ col < end => Near(OnScreen(row, col), OnScreen(row, col + 1))

\* initVesa and draw32quad end, whatever the BIOS has in its list and however many
\* of its calls fail.
Ends == <>(pc = "done")
=============================================================================
