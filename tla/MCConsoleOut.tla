---------------------------- MODULE MCConsoleOut ----------------------------
(***************************************************************************)
(* Console output for TLC.  The virtual consoles, the virtual graphics      *)
(* output, the graphics console, the block transfers and the debug output   *)
(* on the boot screen share no state that is modelled, so the run checks    *)
(* them side by side: part says which of them moves.  The text consoles     *)
(* move twice, in one colour, and mConOut alone in two; the graphics        *)
(* console too, with a resolution on which wide characters wrap and with    *)
(* one on which the cursor changes its colour.  What is said of either is   *)
(* the same for both.                                                       *)
(***************************************************************************)
EXTENDS GraphicsConsole, OutputDevices, TLC

CONSTANTS out1, out2, out3, r1, r2, r3

VARIABLES
    part        \* which of the components moves

glyphs == vars
pixels == <<graphics, glyphs, blt, serial>>

\* The graphics console.
MCGopModes == <<<<2, 1>>, <<3, 2>>>>
MCFirstMode == <<2, 2>>
MCModeTable == <<<<9, 9>>>>
MCZero == <<0, 0>>
MCPositions == {<<1, 1>>}
MCStrings == {<<"a">>, <<"WIDE", "a">>, <<"BS">>, <<"LF">>, <<"CR">>}
Coloured == INSTANCE GraphicsConsole WITH
    GopModes <- <<<<2, 1>>, <<2, 2>>>>, GopFaulty <- {1}, Attributes <- {7, 1}

\* The text consoles: modes 0 and 1 are 80 x 25 and 80 x 50, scaled down.
MCSize25 == <<2, 1>>
MCSize50 == <<2, 2>>
MCTextModes == out1 :> <<MCSize25, MCSize50, <<3, 2>>, <<3, 3>>>>
            @@ out2 :> <<MCSize25, MCSize50, <<3, 3>>>>
            @@ out3 :> <<MCSize25, <<0, 0>>, <<3, 3>>>>
MCTextPositions == {<<0, 0>>}
OneColour == INSTANCE ConSplitterOut WITH
    Devices <- TextDevices, Faulty <- FaultyTexts, Modes <- TextModes, Colours <- {Gray},
    Chars <- TextChars, Positions <- TextPositions, mode <- textMode, colour <- textColour
TwoColours == INSTANCE ConSplitterOut WITH
    Devices <- TextDevices, ErrDevices <- {}, Faulty <- {}, Modes <- TextModes,
    Colours <- TextColours, Chars <- {"a"}, Positions <- TextPositions,
    mode <- textMode, colour <- textColour

\* The virtual graphics output.
MCDeviceModes == out1 :> <<r2, r1, r3>> @@ out2 :> <<r1, r3>> @@ out3 :> <<r2>>

\* The block transfers: two by three pixels as SimpleFbDxe has them, with a
\* padded line, of three bytes each, and a line that is too short; a bitmap of
\* different bytes and one that starts with a gray pixel.
Screen(perLine, masks, reserved) ==
    [HorizontalResolution |-> 2, VerticalResolution |-> 3, PixelsPerScanLine |-> perLine,
     masks |-> masks, reserved |-> reserved]
Rgb == <<0, 1, 2>>
BltCall(op, sx, sy, dx, dy, w, h, d) ==
    [op |-> op, SourceX |-> sx, SourceY |-> sy, DestinationX |-> dx, DestinationY |-> dy,
     Width |-> w, Height |-> h, Delta |-> d]
MCBltCalls ==
    {BltCall("VideoFill", 0, 0, x, y, w, h, 0) : x \in 0..1, y \in 0..2, w \in 0..2, h \in 0..3}
    \cup {BltCall("VideoToVideo", sx, sy, dx, dy, w, h, 0) :
             sx \in 0..1, sy \in 0..1, dx \in 0..1, dy \in 0..2, w \in 1..2, h \in 1..2}
    \cup {BltCall(op, sx, sy, dx, dy, 1, h, d) :
             op \in {"BufferToVideo", "VideoToBltBuffer"}, sx \in 0..1, sy \in 0..1,
             dx \in 0..1, dy \in 0..1, h \in 1..2, d \in {8}}
    \cup {BltCall("VideoToBltBuffer", sx, sy, dx, dy, 1, 2, 0) :
             sx \in 0..1, sy \in 0..1, dx \in 0..1, dy \in 0..1}
    \cup {BltCall("BufferToVideo", 0, sy, dx, dy, 2, h, 0) :
             sy \in 0..1, dx \in 0..1, dy \in 0..2, h \in 1..2}
    \cup {BltCall("BufferToVideo", 0, 0, 0, 0, 2, 3, 0)}
MCSizes == {<<2, 3>>}
MCInfos == {Screen(3, Rgb, 3), Screen(2, Rgb, 0),
            [Screen(2, Rgb, 0) EXCEPT !.HorizontalResolution = 3]}
MCBitmaps == {[a \in 0..23 |-> a + 10], [a \in 0..23 |-> IF a < 4 THEN 8 ELSE a + 10]}

\* The debug output: two columns, four lines, glyphs of two by two pixels.
MCTexts == {<<"a", "a", " ">>, <<"nl", "a">>, <<"cr", "nl">>}

ASSUME PartsAssumption ==
    Coloured!ConsoleAssumption /\ OneColour!OutAssumption /\ TwoColours!OutAssumption

MCInit ==
    /\ part \in {"text", "painted", "graphics", "console", "coloured", "transfer", "serial"}
    /\ Text!Init
    /\ Gop!Init
    /\ IF part = "coloured" THEN Coloured!Init
       ELSE Init /\ (part # "console" => gop = 0)
    /\ Blt!Init /\ (part # "transfer" => bitmap[0] = 8)
    /\ Serial!Init

MCNext ==
    \/ part = "text" /\ OneColour!Next /\ UNCHANGED <<part, pixels>>
    \/ part = "painted" /\ TwoColours!Next /\ UNCHANGED <<part, pixels>>
    \/ part = "graphics" /\ Gop!Next /\ UNCHANGED <<part, text, glyphs, blt, serial>>
    \/ part = "console" /\ Next /\ UNCHANGED <<part, text, graphics, blt, serial>>
    \/ part = "coloured" /\ Coloured!Next /\ UNCHANGED <<part, text, graphics, blt, serial>>
    \/ part = "transfer" /\ Blt!Next /\ UNCHANGED <<part, text, graphics, glyphs, serial>>
    \/ part = "serial" /\ Serial!Next /\ UNCHANGED <<part, text, graphics, glyphs, blt>>

MCSpec == MCInit /\ [][MCNext]_<<part, text, pixels>>
=============================================================================
