--------------------------- MODULE GraphicsConsole ---------------------------
(***************************************************************************)
(* Drivers/GraphicsConsoleDxe: a text console drawn on a graphics output.   *)
(* The driver picks a resolution, derives text modes from it, and draws     *)
(* characters and an inverting cursor; a graphics client may set the        *)
(* resolution under it.  A pixel shows a character and is inverted with a   *)
(* set of colours; other colours, glyph shapes, characters without a glyph, *)
(* UGA and the installation of the font are left out.  Memory runs out in   *)
(* SetMode only.  Every function runs at TPL_NOTIFY: one action each.       *)
(***************************************************************************)
EXTENDS Integers, SequencesExt

CONSTANTS
    GopModes,                 \* resolutions of the graphics output, in pixels
    GopFaulty,                \* modes it may fail to set, from 0
    GlyphWidth, GlyphHeight,  \* EFI_GLYPH_WIDTH, EFI_GLYPH_HEIGHT
    FirstMode,                \* columns and rows of mode 0
    ModeTable,                \* mGraphicsConsoleModeData but the last
    Word,                     \* 2^64: where UINTN wraps
    PcdVideo,                 \* PcdVideoHorizontal/VerticalResolution
    PcdConOut,                \* PcdConOutColumn, PcdConOutRow
    MemoryFails,              \* the line buffer may not be allocated
    Attributes, Chars, Strings, Positions,
    Blank

Controls == {"BS", "LF", "CR", "WIDE", "NARROW"}

\* A text mode takes a wide character (the code asserts 80 columns on every
\* resolution, GraphicsConsole.c:267); UINTN is wide enough for any mode.
ASSUME ConsoleAssumption ==
    /\ GopModes \in Seq(Nat \X Nat) /\ GopModes # <<>>
    /\ GopFaulty \subseteq 0 .. Len(GopModes) - 1
    /\ GlyphWidth \in Nat \ {0} /\ GlyphHeight \in Nat \ {0}
    /\ FirstMode \in (Nat \ {0, 1}) \X (Nat \ {0})
    /\ ModeTable \in Seq((Nat \ {1}) \X Nat)
    /\ Word \in Nat \ {0}
    /\ PcdVideo[1] = 0 <=> PcdVideo[2] = 0     \* both or none, as in the platform's file
    /\ \A i \in DOMAIN GopModes :
         /\ GopModes[i][1] \div GlyphWidth # 1
         /\ GopModes[i][1] + FirstMode[1] * GlyphWidth <= Word
         /\ GopModes[i][2] + FirstMode[2] * GlyphHeight <= Word
    /\ Attributes \subseteq 0 .. 127
    /\ Chars \cap (Controls \cup {Blank}) = {}
    /\ Strings \subseteq Seq(Chars \cup Controls)
    /\ Positions \subseteq Nat \X Nat

VARIABLES
    gop,        \* mode of the graphics output, from 0
    screen,     \* pixel -> [shows, inv]
    started,    \* the text output protocol is installed
    modes,      \* ModeData, one record for every text mode
    mode,       \* SimpleTextOutputMode.Mode
    attribute, column, row, visible,
    line,       \* LineBuffer: "null", "live", or "freed" while still pointed to
    disturbed   \* history: the screen is not the console's own any more

console == <<modes, mode, attribute, column, row, visible, line>>
vars == <<gop, screen, started, console, disturbed>>

Resolution(g) == GopModes[g + 1]
Rectangle(x, y, w, h) == (x .. x + w - 1) \X (y .. y + h - 1)
Dots(g) == Rectangle(0, 0, Resolution(g)[1], Resolution(g)[2])
Pixel == [shows : Chars \cup {Blank}, inv : SUBSET (0 .. 15)]

TypeOK ==
    /\ gop \in 0 .. Len(GopModes) - 1
    /\ screen \in [Dots(gop) -> Pixel]
    /\ started \in BOOLEAN /\ visible \in BOOLEAN /\ disturbed \in BOOLEAN
    /\ mode \in -1 .. Len(modes) - 1
    /\ attribute \in 0 .. 127
    /\ column \in Nat /\ row \in Nat
    /\ line \in {"null", "live", "freed"}

-----------------------------------------------------------------------------
(* The screen: GRAPHICS_OUTPUT, which refuses what is not all on it.        *)

Plain(c) == [shows |-> c, inv |-> {}]
BlackScreen(g) == [p \in Dots(g) |-> Plain(Blank)]

Paint(s, area, c) ==
    IF area \subseteq DOMAIN s
    THEN [p \in DOMAIN s |-> IF p \in area THEN Plain(c) ELSE s[p]]
    ELSE s

Toggled(a, b) == (a \ b) \cup (b \ a)
Invert(s, area, colours) ==
    IF area \subseteq DOMAIN s
    THEN [p \in DOMAIN s |->
             IF p \in area THEN [shows |-> s[p].shows, inv |-> Toggled(s[p].inv, colours)]
             ELSE s[p]]
    ELSE s

\* EfiBltVideoToVideo from one line of text further down.
Scroll(s, x, y, w, h) ==
    IF Rectangle(x, y, w, h + GlyphHeight) \subseteq DOMAIN s
    THEN [p \in DOMAIN s |-> IF p \in Rectangle(x, y, w, h)
                             THEN s[<<p[1], p[2] + GlyphHeight>>] ELSE s[p]]
    ELSE s

-----------------------------------------------------------------------------
(* InitializeGraphicsConsoleTextMode.                                      *)

Centred(res, size) == ((res - size) % Word) \div 2

ModeData(size, g) ==
    [cols |-> size[1], rows |-> size[2], gop |-> g,
     width |-> Resolution(g)[1], height |-> Resolution(g)[2],
     deltaX |-> IF size = <<0, 0>> THEN 0 ELSE Centred(Resolution(g)[1], size[1] * GlyphWidth),
     deltaY |-> IF size = <<0, 0>> THEN 0 ELSE Centred(Resolution(g)[2], size[2] * GlyphHeight)]

Most(g) == <<Resolution(g)[1] \div GlyphWidth, Resolution(g)[2] \div GlyphHeight>>
FitsOn(size, g) ==
    /\ size[1] # 0 /\ size[2] # 0
    /\ size[1] <= Most(g)[1] /\ size[2] <= Most(g)[2]

Extended(list, size, g) ==
    IF FitsOn(size, g) /\ ~Contains(list, size) THEN Append(list, size) ELSE list

\* Mode 1 stays without a size; then every defined mode that fits, once.
InitializeGraphicsConsoleTextMode(g) ==
    LET offered == Append(ModeTable, Most(g))
        sizes[n \in 0 .. Len(offered)] ==
            IF n = 0 THEN <<FirstMode, <<0, 0>>>> ELSE Extended(sizes[n - 1], offered[n], g)
        all == sizes[Len(offered)]
    IN  [i \in DOMAIN all |-> ModeData(all[i], g)]

-----------------------------------------------------------------------------
(* GraphicsConsoleControllerDriverStart and Stop.                          *)

\* The first mode of that resolution that is in use or can be set.
CheckModeSupported(res, failing) ==
    LET at == {g \in 0 .. Len(GopModes) - 1 :
                 Resolution(g) = res /\ (Resolution(gop) = res \/ g \notin failing)}
    IN  IF at = {} THEN Len(GopModes) ELSE Min(at)

\* With no resolution in the PCDs the widest mode, and the highest of those.
Widest ==
    CHOOSE g \in 0 .. Len(GopModes) - 1 :
        \A h \in 0 .. Len(GopModes) - 1 :
            LET a == Resolution(g) b == Resolution(h)
            IN  \/ a[1] > b[1]
                \/ a[1] = b[1] /\ a[2] > b[2]
                \/ a = b /\ g <= h

\* The current mode is the last resort, and is then set once more.
ChosenGopMode(failing) ==
    LET wanted == CheckModeSupported(PcdVideo, failing)
        small  == CheckModeSupported(<<800, 600>>, failing)
        chosen == IF PcdVideo[1] = 0 \/ PcdVideo[2] = 0 THEN Widest
                  ELSE IF wanted < Len(GopModes) THEN wanted ELSE small
    IN  IF chosen < Len(GopModes) THEN [mode |-> chosen, set |-> chosen # gop]
        ELSE [mode |-> gop, set |-> TRUE]

LargerOf(list, best, n) ==
    IF /\ list[n].cols > (IF best = 0 THEN 0 ELSE list[best].cols)
       /\ list[n].rows > (IF best = 0 THEN 0 ELSE list[best].rows)
    THEN n ELSE best

\* The text mode the console starts in: the one the PCDs ask for, or the last
\* in a chain of larger and larger ones.
PreferMode(list) ==
    IF PcdConOut[1] # 0 /\ PcdConOut[2] # 0
    THEN LET at == {i \in DOMAIN list : <<list[i].cols, list[i].rows>> = PcdConOut}
         IN  IF at = {} THEN -1 ELSE Min(at) - 1
    ELSE LET best[n \in 0 .. Len(list)] ==
                 IF n = 0 THEN 0 ELSE LargerOf(list, best[n - 1], n)
         IN  best[Len(list)] - 1

\* The resolution stays set when the protocol cannot be installed after it.
Start(failing, installs) ==
    LET chosen == ChosenGopMode(failing)
        g      == chosen.mode
    IN  /\ ~started
        /\ chosen.set => g \notin failing
        /\ gop' = g
        /\ screen' = IF chosen.set THEN BlackScreen(g) ELSE screen
        /\ started' = installs
        /\ IF installs
           THEN /\ modes' = InitializeGraphicsConsoleTextMode(g)
                /\ mode' = PreferMode(modes')
                /\ attribute' = 7 /\ column' = 0 /\ row' = 0 /\ visible' = FALSE
                /\ line' = "null"
                /\ disturbed' = (screen' # BlackScreen(g))
           ELSE UNCHANGED <<console, disturbed>>

\* What the screen shows stays, the cursor with it.
Stop ==
    /\ started
    /\ started' = FALSE
    /\ modes' = <<>> /\ mode' = -1 /\ line' = "null"
    /\ attribute' = 7 /\ column' = 0 /\ row' = 0 /\ visible' = FALSE
    /\ disturbed' = FALSE
    /\ UNCHANGED <<gop, screen>>

-----------------------------------------------------------------------------
(* Drawing.  c is the screen and the cursor while a function runs.          *)

Now == modes[mode + 1]
CellX(c) == c.col * GlyphWidth + Now.deltaX
CellY(c) == c.row * GlyphHeight + Now.deltaY
Cell(c) == Rectangle(CellX(c), CellY(c), GlyphWidth, GlyphHeight)
Foreground(a) == {a % 16} \ {0}        \* inverting with black changes nothing

Here == [s |-> screen, col |-> column, row |-> row, wide |-> FALSE]

FlushCursor(c) ==
    IF visible THEN [c EXCEPT !.s = Invert(@, Cell(c), Foreground(attribute))] ELSE c

\* DrawUnicodeWeightAtCursorN for one character of w columns.
DrawAtCursor(c, ch, w) ==
    LET area == Rectangle(CellX(c), CellY(c), w * GlyphWidth, GlyphHeight)
    IN  [c EXCEPT !.s = Paint(@, area, ch), !.col = @ + w]

LineFeed(c) ==
    IF c.row = Now.rows - 1
    THEN LET wide == Now.cols * GlyphWidth
             high == (Now.rows - 1) * GlyphHeight
             up   == Scroll(c.s, Now.deltaX, Now.deltaY, wide, high)
         IN  [c EXCEPT !.s = Paint(up, Rectangle(Now.deltaX, Now.deltaY + high, wide, GlyphHeight),
                                   Blank)]
    ELSE [c EXCEPT !.row = @ + 1]

\* The nested OutputString of CR LF, and what the caller flushes around it.
CrLf(c) == FlushCursor(LineFeed([FlushCursor(c) EXCEPT !.col = 0]))
WrapIfFull(c) ==
    IF c.col >= Now.cols THEN FlushCursor(CrLf(FlushCursor(c))) ELSE c

\* The nested OutputString of a narrow space.
Space(c) == FlushCursor(WrapIfFull(DrawAtCursor(FlushCursor(c), Blank, 1)))

Backspace(c) ==
    LET over(to) == [FlushCursor(Space(to)) EXCEPT !.col = to.col, !.row = to.row]
    IN  IF c.col = 0 /\ c.row > 0
        THEN over([c EXCEPT !.row = @ - 1, !.col = Now.cols - 1])
        ELSE IF c.col > 0 THEN over([c EXCEPT !.col = @ - 1]) ELSE c

\* Mutant of Character: a wide one is drawn over the end of the line.
CharacterCut(c, ch) == WrapIfFull(DrawAtCursor(c, ch, IF c.wide THEN 2 ELSE 1))

\* A wide character that does not fit leaves a space at the end of the line.
Character(c, ch) ==
    IF ~c.wide THEN WrapIfFull(DrawAtCursor(c, ch, 1))
    ELSE LET at == IF c.col + 2 > Now.cols THEN Space(c) ELSE c
         IN  WrapIfFull(DrawAtCursor(at, ch, 2))

Item(c, ch) ==
    CASE ch = "BS" -> Backspace(c)
      [] ch = "LF" -> LineFeed(c)
      [] ch = "CR" -> [c EXCEPT !.col = 0]
      [] ch = "WIDE" -> [c EXCEPT !.wide = TRUE]
      [] ch = "NARROW" -> [c EXCEPT !.wide = FALSE]
      [] OTHER -> Character(c, ch)

Leaves(c) == screen' = c.s /\ column' = c.col /\ row' = c.row

OutputString(str) ==
    /\ started /\ mode # -1
    /\ LET after[n \in 0 .. Len(str)] ==
               IF n = 0 THEN FlushCursor(Here) ELSE Item(after[n - 1], str[n])
       IN  Leaves(FlushCursor(after[Len(str)]))
    /\ UNCHANGED <<gop, started, modes, mode, attribute, visible, line, disturbed>>

-----------------------------------------------------------------------------
(* The other functions of the protocol.                                    *)

Cleared(m) ==
    FlushCursor([Here EXCEPT
        !.s = Paint(@, Rectangle(0, 0, m.width, m.height), Blank), !.col = 0, !.row = 0])

ClearScreen ==
    /\ started /\ mode # -1
    /\ Leaves(Cleared(Now))
    /\ disturbed' = (disturbed /\ gop # Now.gop)
    /\ UNCHANGED <<gop, started, modes, mode, attribute, visible, line>>

SetCursorPosition(x, y) ==
    /\ started /\ mode # -1
    /\ x < Now.cols /\ y < Now.rows /\ <<x, y>> # <<column, row>>
    /\ Leaves(FlushCursor([FlushCursor(Here) EXCEPT !.col = x, !.row = y]))
    /\ UNCHANGED <<gop, started, modes, mode, attribute, visible, line, disturbed>>

\* Mutant of Recoloured: the cursor stays drawn in the old colour.
RecolouredLater(s, cell, a) == s

\* The cursor is inverted back with the old colour, then inverted anew.
Recoloured(s, cell, a) ==
    Invert(Invert(s, cell, Foreground(attribute)), cell, Foreground(a))

SetAttribute(a) ==
    /\ started /\ a # attribute
    /\ attribute' = a
    /\ screen' = IF visible THEN Recoloured(screen, Cell(Here), a) ELSE screen
    /\ UNCHANGED <<gop, started, modes, mode, column, row, visible, line, disturbed>>

\* Before the change the cursor is erased if it shows, after it drawn if it is to.
EnableCursor(v) ==
    /\ started /\ mode # -1
    /\ visible' = v
    /\ screen' = IF visible = v THEN screen
                 ELSE Invert(screen, Cell(Here), Foreground(attribute))
    /\ UNCHANGED <<gop, started, modes, mode, attribute, column, row, line, disturbed>>

\* The new mode is entered with the cursor in its corner.
Corner(s, m) ==
    IF visible THEN Invert(s, Rectangle(m.deltaX, m.deltaY, GlyphWidth, GlyphHeight),
                           Foreground(attribute)) ELSE s

Unchanged == [ok |-> FALSE, gop |-> gop, s |-> screen, mode |-> mode, col |-> column,
              row |-> row, line |-> line, disturbed |-> disturbed]

\* What SetMode(n) leaves.  The line buffer is freed before there is another.
AfterSetMode(n, allocates, failing) ==
    LET m      == modes[n + 1]
        erased == IF line = "null" THEN screen ELSE FlushCursor(Here).s
        fails  == [Unchanged EXCEPT !.s = erased, !.disturbed = TRUE,
                     !.line = IF allocates THEN "live" ELSE IF line = "null" THEN line ELSE "freed"]
        enters(s) == [ok |-> TRUE, gop |-> m.gop, s |-> Corner(s, m), mode |-> n, col |-> 0,
                      row |-> 0, line |-> "live", disturbed |-> FALSE]
    IN  IF m.cols = 0 /\ m.rows = 0 THEN Unchanged
        ELSE IF line # "null" /\ n = mode
        THEN LET c == Cleared(Now)
             IN  [Unchanged EXCEPT !.ok = TRUE, !.s = c.s, !.col = 0, !.row = 0,
                                   !.disturbed = @ /\ gop # Now.gop]
        ELSE IF ~allocates \/ (m.gop # gop /\ m.gop \in failing) THEN fails
        ELSE IF m.gop # gop THEN enters(BlackScreen(m.gop))
        ELSE enters(Paint(erased, Rectangle(0, 0, m.width, m.height), Blank))

Becomes(r) ==
    /\ gop' = r.gop /\ mode' = r.mode /\ column' = r.col /\ row' = r.row
    /\ line' = r.line /\ disturbed' = r.disturbed

SetMode(n, allocates, failing) ==
    /\ started /\ n < Len(modes)
    /\ LET r == AfterSetMode(n, allocates, failing) IN Becomes(r) /\ screen' = r.s
    /\ UNCHANGED <<started, modes, attribute, visible>>

\* SetMode(0); if that works the background is black again.
Reset(allocates, failing) ==
    /\ started
    /\ LET r == AfterSetMode(0, allocates, failing)
           m == modes[1]
           a == IF r.ok THEN attribute % 16 ELSE attribute
       IN  /\ Becomes(r)
           /\ attribute' = a
           /\ screen' = IF visible /\ a # attribute
                        THEN Recoloured(r.s, Rectangle(m.deltaX, m.deltaY, GlyphWidth, GlyphHeight), a)
                        ELSE r.s
    /\ UNCHANGED <<started, modes, visible>>

\* A graphics client that has disabled the cursor, as the boot manager does
\* before a logo, sets the resolution.
GraphicsClient(g) ==
    /\ ~visible
    /\ gop' = g /\ screen' = BlackScreen(g)
    /\ disturbed' = started
    /\ UNCHANGED <<started, console>>

-----------------------------------------------------------------------------
Init ==
    /\ gop \in 0 .. Len(GopModes) - 1 /\ screen = BlackScreen(gop)
    /\ started = FALSE
    /\ modes = <<>> /\ mode = -1 /\ line = "null"
    /\ attribute = 7 /\ column = 0 /\ row = 0 /\ visible = FALSE
    /\ disturbed = FALSE

Next ==
    \/ \E failing \in SUBSET GopFaulty :
         \/ \E installs \in BOOLEAN : Start(failing, installs)
         \/ \E allocates \in {TRUE, ~MemoryFails} :
              \/ \E n \in 0 .. Len(modes) - 1 : SetMode(n, allocates, failing)
              \/ Reset(allocates, failing)
    \/ Stop \/ ClearScreen
    \/ \E str \in Strings : OutputString(str)
    \/ \E p \in Positions : SetCursorPosition(p[1], p[2])
    \/ \E a \in Attributes : SetAttribute(a)
    \/ \E v \in BOOLEAN : EnableCursor(v)
    \/ \E g \in 0 .. Len(GopModes) - 1 : GraphicsClient(g)

Spec == Init /\ [][Next]_vars

-----------------------------------------------------------------------------
(* Properties.                                                             *)

PageOf(m) == Rectangle(m.deltaX, m.deltaY, m.cols * GlyphWidth, m.rows * GlyphHeight)

\* What is inverted on the screen is the cursor, where it is and in the present
\* colour, if it is enabled: whatever was written, scrolled, wrapped, erased,
\* recoloured or moved, it was taken away and drawn again as often.  Outside the
\* page nothing is left of any text.
CursorShown ==
    started /\ mode # -1 /\ ~disturbed => \A p \in DOMAIN screen :
        /\ screen[p].inv = IF visible /\ p \in Cell(Here) THEN Foreground(attribute) ELSE {}
        /\ screen[p].shows = Blank \/ p \in PageOf(Now)

\* The console is a terminal: a page of characters on which every string has the
\* effect the protocol gives it, in spite of the nested calls that write it.
Shown == started /\ mode # -1 /\ gop = Now.gop /\ PageOf(Now) \subseteq DOMAIN screen
ShownSize == IF Shown THEN <<Now.cols, Now.rows>> ELSE <<0, 0>>
ShownPage ==
    [p \in (0 .. ShownSize[1] - 1) \X (0 .. ShownSize[2] - 1) |->
        screen[<<p[1] * GlyphWidth + Now.deltaX, p[2] * GlyphHeight + Now.deltaY>>].shows]
ShownCursor == IF Shown THEN <<column, row>> ELSE <<0, 0>>
T == INSTANCE Terminal WITH size <- ShownSize, page <- ShownPage,
                            col <- ShownCursor[1], row <- ShownCursor[2]
IsTerminal == T!TSpec

\* After mode 0, and but for mode 1 if it has no size, every mode fits on the
\* resolution it was made for, and no two are the same.
Fits(m) == m.cols * GlyphWidth <= m.width /\ m.rows * GlyphHeight <= m.height
ModesFit == \A i \in 2 .. Len(modes) : Fits(modes[i])
ModesDiffer == \A i, j \in DOMAIN modes : modes[i] = modes[j] => i = j
OtherModesFit == ModesFit /\ ModesDiffer

\* What a client of the console sees of both: its modes, and on the screen the
\* cursor.
ConsoleKept == OtherModesFit /\ CursorShown
=============================================================================
