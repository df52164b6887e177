---------------------------- MODULE OutputDevices ----------------------------
(***************************************************************************)
(* What draws on the screen beside the graphics console: the console        *)
(* splitter's text consoles and its graphics output, the block transfers on *)
(* the boot frame buffer, and the debug output.  The four share no state;   *)
(* each is an instance here, for whatever devices and screens there are,    *)
(* with what is said of it.                                                 *)
(***************************************************************************)
EXTENDS Integers

CONSTANTS
    TextDevices, ErrDevices,      \* text outputs, those for mStdErr too,
    FaultyTexts,                  \* and those that may fail
    TextModes,                    \* the sizes of each
    Size25, Size50,               \* 80 x 25 and 80 x 50
    TextColours, Gray,            \* attributes
    TextChars, TextPositions,     \* what clients write, and where
    AllocUnit,                    \* by how much tables grow
    GopDevices, FaultyGops,       \* graphics outputs, and those that may fail
    DeviceModes,                  \* the resolutions of each
    SmallMode,                    \* 800 x 600
    Pictures, BlackPicture,       \* what is drawn on them
    BltSizes, Infos,              \* the screens transfers are made for
    MemorySize, Bitmaps,          \* their memory, and the callers'
    BltCalls, MaxCalls,           \* calls of Blt, and a bound of their number
    PoolRunsOut,                  \* may SimpleFbDxe's allocation fail
    Images, Texts,                \* who prints, and what
    ScreenWidth, ScreenHeight,    \* PcdMipiFrameBufferWidth, ...Height
    FontWidth, FontHeight, ScaleFactor,
    Stack                         \* what an uninitialised BOOLEAN may be

VARIABLES
    con, textMode, textColour, stale, lagging,
    gops, installed, buffer, max, current, info, frame, gopMode, picture,
    drawn, behind, gopLagging, forced, shrunk,
    bltInstalled, configure, memory, bitmap, calls,
    interrupts, initialized, pos, printColour, write, glyph

text == <<con, textMode, textColour, stale, lagging>>
graphics == <<gops, installed, buffer, max, current, info, frame, gopMode, picture,
              drawn, behind, gopLagging, forced, shrunk>>
blt == <<bltInstalled, configure, memory, bitmap, calls>>
serial == <<interrupts, initialized, pos, printColour, write, glyph>>

Text == INSTANCE ConSplitterOut WITH
    Devices <- TextDevices, Faulty <- FaultyTexts, Modes <- TextModes, Colours <- TextColours,
    Chars <- TextChars, Positions <- TextPositions, mode <- textMode, colour <- textColour
Gop == INSTANCE ConSplitterGop WITH
    Devices <- GopDevices, Faulty <- FaultyGops, Modes <- DeviceModes, Small <- SmallMode,
    Black <- BlackPicture, mode <- gopMode, lagging <- gopLagging
Blt == INSTANCE FrameBufferBlt WITH
    Sizes <- BltSizes, Calls <- BltCalls, MemoryFails <- PoolRunsOut, installed <- bltInstalled
Serial == INSTANCE FrameBufferSerial WITH
    Width <- ScreenWidth, Height <- ScreenHeight, colour <- printColour, drawn <- glyph

ASSUME OutputAssumption ==
    /\ Text!OutAssumption
    /\ Gop!GopAssumption /\ Blt!BltAssumption /\ Serial!SerialAssumption

-----------------------------------------------------------------------------
\* The text consoles, ConSplitterOut: the mode map tells every device's number of
\* every mode a client can query, and has a place for all of them.
MapTellsModes == Text!TypeOK /\ Text!MapTellsModes /\ Text!MapLargeEnough

\* ConSplitterOut: the current mode and the colour are the devices', and where
\* there is no device the cursor is on the screen.
ModeIsSet == Text!ModeIsSet /\ Text!CursorOnScreen /\ Text!ColourShared

\* The current mode of a console is one of its modes.
ModeExists == Text!ModeExists

\* The virtual graphics output, ConSplitterGop: modes, resolution, frame
\* buffer and picture are the devices', and a query tells what a mode sets.
GraphicsShared ==
    /\ Gop!TypeOK
    /\ Gop!ModesAreCommon /\ Gop!ResolutionShared /\ Gop!FrameBufferIsLive
    /\ Gop!PictureShared /\ Gop!QueryTellsModeUntilRemoval

\* FrameBufferBlt: a transfer puts into its rectangle what its source shows and
\* changes nothing else, but for two cases the module names.
BltExact == Blt!TypeOK /\ Blt!BltExact

\* The comment on a copy to a higher address: it goes from the last line so
\* that the source is not corrupted by copying (FrameBufferBltLib.c:612).
CopyExact == Blt!CopyExact

\* FrameBufferSerial: glyphs stay on the screen and emergency colours pass.
SerialKept == Serial!TypeOK /\ Serial!SerialKept
=============================================================================
