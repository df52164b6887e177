----------------------- MODULE GraphicsConsole_proofs -----------------------
(***************************************************************************)
(* GraphicsConsole: the types, the cursor's drawing and the modes; and that *)
(* the console implements Terminal.                                        *)
(***************************************************************************)
EXTENDS GraphicsConsole, SequenceTheorems, WellFoundedInduction, TLAPS

(***************************************************************************)
(* The canvas: the screen and the cursor while a function runs.  Every      *)
(* function below is described by what it does to each field of one.        *)
(***************************************************************************)

Canvas == [s : [Dots(gop) -> Pixel], col : Nat, row : Nat, wide : BOOLEAN]
Colours == Foreground(attribute)

Ready ==
    /\ visible \in BOOLEAN /\ attribute \in 0 .. 127
    /\ Now.cols \in Nat /\ Now.rows \in Nat /\ Now.cols > 1 /\ Now.rows > 0
    /\ Now.deltaX \in Nat /\ Now.deltaY \in Nat

Inside(c) == c \in Canvas /\ c.col < Now.cols /\ c.row < Now.rows
Wrapped(c) == IF c.col >= Now.cols THEN LineFeed([c EXCEPT !.col = 0]) ELSE c

\* Every part of the page is on the screen, or none of it is.
Whole(m, g) == PageOf(m) \subseteq Dots(g) \/ PageOf(m) \cap Dots(g) = {}

\* Products of naturals, which the proofs below hide behind names.
LEMMA TimesMonotone ==
    ASSUME NEW a \in Nat, NEW b \in Nat, NEW n \in Nat, a <= b
    PROVE  a * n <= b * n
BY Z3

\* The product of a sum.
LEMMA TimesSum ==
    ASSUME NEW a \in Int, NEW b \in Int, NEW n \in Int
    PROVE  (a + b) * n = a * n + b * n
BY Z3

\* The product of naturals is one.
LEMMA TimesNat ==
    ASSUME NEW a \in Nat, NEW n \in Nat
    PROVE  a * n \in Nat
BY Z3

\* A rectangle lies in another if its four sides do.
LEMMA RectangleWithin ==
    ASSUME NEW x \in Int, NEW y \in Int, NEW w \in Int, NEW h \in Int,
           NEW u \in Int, NEW v \in Int, NEW k \in Int, NEW l \in Int,
           u <= x, v <= y, x + w <= u + k, y + h <= v + l
    PROVE  Rectangle(x, y, w, h) \subseteq Rectangle(u, v, k, l)
BY DEF Rectangle

\* A colour to invert with is one of sixteen.
LEMMA ForegroundTyped ==
    ASSUME NEW a \in 0 .. 127
    PROVE  Foreground(a) \subseteq 0 .. 15
BY DEF Foreground

\* Inverting keeps a screen a screen.
LEMMA InvertTyped ==
    ASSUME NEW D, NEW s \in [D -> Pixel], NEW area, NEW k \in SUBSET (0 .. 15)
    PROVE  Invert(s, area, k) \in [D -> Pixel]
BY DEF Invert, Toggled, Pixel

\* Painting keeps a screen a screen.
LEMMA PaintTyped ==
    ASSUME NEW D, NEW s \in [D -> Pixel], NEW area, NEW ch \in Chars \cup {Blank}
    PROVE  Paint(s, area, ch) \in [D -> Pixel]
BY DEF Paint, Plain, Pixel

\* Inverting twice changes nothing: so the cursor is taken away.
LEMMA InvertTwice ==
    ASSUME NEW D, NEW s \in [D -> Pixel], NEW area, NEW k \in SUBSET (0 .. 15)
    PROVE  Invert(Invert(s, area, k), area, k) = s
<1> DEFINE t == Invert(s, area, k)
<1>1. t \in [D -> Pixel]
  BY InvertTyped
<1>2. CASE area \subseteq D
  <2>1. t = [p \in D |-> IF p \in area
                        THEN [shows |-> s[p].shows, inv |-> Toggled(s[p].inv, k)] ELSE s[p]]
    BY <1>2 DEF Invert
  <2>2. Invert(t, area, k) = [p \in D |-> IF p \in area
                        THEN [shows |-> t[p].shows, inv |-> Toggled(t[p].inv, k)] ELSE t[p]]
    BY <1>1, <1>2 DEF Invert
  <2>3. ASSUME NEW p \in D
        PROVE  Invert(t, area, k)[p] = s[p]
    <3>1. CASE p \in area
      <4>1. t[p] = [shows |-> s[p].shows, inv |-> Toggled(s[p].inv, k)]
        BY <2>1, <3>1
      <4>2. Invert(t, area, k)[p] = [shows |-> t[p].shows, inv |-> Toggled(t[p].inv, k)]
        BY <2>2, <3>1
      <4>3. Toggled(Toggled(s[p].inv, k), k) = s[p].inv
        BY DEF Toggled
      <4>4. s[p] \in Pixel
        OBVIOUS
      <4> QED
        BY <4>1, <4>2, <4>3, <4>4 DEF Pixel
    <3>2. CASE p \notin area
      BY <2>1, <2>2, <3>2
    <3> QED
      BY <3>1, <3>2
  <2> HIDE DEF t
  <2>4. Invert(t, area, k) \in [D -> Pixel]
    BY <1>1, InvertTyped
  <2> QED
    BY <2>3, <2>4 DEF t
<1>3. CASE ~(area \subseteq D)
  BY <1>3 DEF Invert
<1> QED
  BY <1>2, <1>3

\* Drawing or erasing the cursor leaves the place it is drawn at.
LEMMA FlushTyped ==
    ASSUME Ready, NEW c \in Canvas
    PROVE  /\ FlushCursor(c) \in Canvas
           /\ FlushCursor(c).col = c.col /\ FlushCursor(c).row = c.row
           /\ FlushCursor(c).wide = c.wide
           /\ FlushCursor(c).s = IF visible THEN Invert(c.s, Cell(c), Colours) ELSE c.s
<1>1. Colours \in SUBSET (0 .. 15)
  BY ForegroundTyped DEF Ready, Colours
<1>2. Invert(c.s, Cell(c), Colours) \in [Dots(gop) -> Pixel]
  BY <1>1, InvertTyped DEF Canvas
<1> QED
  BY <1>2 DEF Canvas, FlushCursor, Colours, Ready

\* A cursor drawn twice is none.
LEMMA FlushTwice ==
    ASSUME Ready, NEW c \in Canvas
    PROVE  FlushCursor(FlushCursor(c)) = c
<1> DEFINE d == FlushCursor(c)
           e == FlushCursor(d)
<1>1. d \in Canvas /\ e \in Canvas
  BY FlushTyped
<1> HIDE DEF d, e
<1>2. /\ d.col = c.col /\ d.row = c.row /\ d.wide = c.wide
      /\ d.s = IF visible THEN Invert(c.s, Cell(c), Colours) ELSE c.s
  BY FlushTyped DEF d
<1>3. /\ e.col = d.col /\ e.row = d.row /\ e.wide = d.wide
      /\ e.s = IF visible THEN Invert(d.s, Cell(d), Colours) ELSE d.s
  BY FlushTyped, <1>1 DEF e
<1>4. Cell(d) = Cell(c)
  BY <1>2 DEF Cell, CellX, CellY
<1>5. Colours \in SUBSET (0 .. 15)
  BY ForegroundTyped DEF Ready, Colours
<1>6. Invert(Invert(c.s, Cell(c), Colours), Cell(c), Colours) = c.s
  BY <1>5, InvertTwice DEF Canvas
<1>7. e.s = c.s
  BY <1>2, <1>3, <1>4, <1>6 DEF Ready
<1>8. e = c
  BY <1>1, <1>2, <1>3, <1>7 DEF Canvas
<1> QED
  BY <1>8 DEF e, d

\* Scrolling keeps a screen a screen.
LEMMA ScrollTyped ==
    ASSUME NEW D, NEW s \in [D -> Pixel], NEW x \in Int, NEW y \in Int, NEW w \in Int, NEW h \in Int
    PROVE  Scroll(s, x, y, w, h) \in [D -> Pixel]
<1>1. GlyphHeight \in Nat
  BY ConsoleAssumption
<1>2. CASE Rectangle(x, y, w, h + GlyphHeight) \subseteq D
  <2>1. ASSUME NEW p \in D, p \in Rectangle(x, y, w, h)
        PROVE  s[<<p[1], p[2] + GlyphHeight>>] \in Pixel
    BY <1>1, <1>2, <2>1 DEF Rectangle
  <2> QED
    BY <1>2, <2>1 DEF Scroll
<1>3. CASE ~(Rectangle(x, y, w, h + GlyphHeight) \subseteq D)
  BY <1>3 DEF Scroll
<1> QED
  BY <1>2, <1>3

\* What DrawUnicodeWeightAtCursorN does to the canvas, field by field.
LEMMA DrawTyped ==
    ASSUME NEW c \in Canvas, NEW ch \in Chars \cup {Blank}, NEW w \in Nat
    PROVE  /\ DrawAtCursor(c, ch, w) \in Canvas
           /\ DrawAtCursor(c, ch, w).s =
                Paint(c.s, Rectangle(CellX(c), CellY(c), w * GlyphWidth, GlyphHeight), ch)
           /\ DrawAtCursor(c, ch, w).col = c.col + w
           /\ DrawAtCursor(c, ch, w).row = c.row
           /\ DrawAtCursor(c, ch, w).wide = c.wide
<1> DEFINE t == Paint(c.s, Rectangle(CellX(c), CellY(c), w * GlyphWidth, GlyphHeight), ch)
<1>1. t \in [Dots(gop) -> Pixel]
  BY PaintTyped DEF Canvas
<1>2. DrawAtCursor(c, ch, w) = [c EXCEPT !.s = t, !.col = c.col + w]
  BY DEF DrawAtCursor, Canvas
<1> HIDE DEF t
<1>3. c \in [s : [Dots(gop) -> Pixel], col : Nat, row : Nat, wide : BOOLEAN] /\ c.col + w \in Nat
  BY DEF Canvas
<1>4. /\ DrawAtCursor(c, ch, w) \in Canvas
      /\ DrawAtCursor(c, ch, w).s = t
      /\ DrawAtCursor(c, ch, w).col = c.col + w
      /\ DrawAtCursor(c, ch, w).row = c.row
      /\ DrawAtCursor(c, ch, w).wide = c.wide
  BY <1>1, <1>2, <1>3 DEF Canvas
<1> QED
  BY <1>4 DEF t

\* What LineFeed leaves on the screen.
FedScreen(c) ==
    Paint(Scroll(c.s, Now.deltaX, Now.deltaY, Now.cols * GlyphWidth, (Now.rows - 1) * GlyphHeight),
          Rectangle(Now.deltaX, Now.deltaY + (Now.rows - 1) * GlyphHeight,
                    Now.cols * GlyphWidth, GlyphHeight), Blank)

\* What a line feed does to the canvas, field by field.
LEMMA FeedTyped ==
    ASSUME Ready, NEW c \in Canvas, c.row < Now.rows
    PROVE  /\ LineFeed(c) \in Canvas
           /\ LineFeed(c).s = IF c.row = Now.rows - 1 THEN FedScreen(c) ELSE c.s
           /\ LineFeed(c).row = IF c.row = Now.rows - 1 THEN c.row ELSE c.row + 1
           /\ LineFeed(c).row < Now.rows
           /\ LineFeed(c).col = c.col
           /\ LineFeed(c).wide = c.wide
<1>1. FedScreen(c) \in [Dots(gop) -> Pixel]
  <2>1. Now.cols * GlyphWidth \in Int /\ (Now.rows - 1) * GlyphHeight \in Int
    <3>1. /\ Now.cols \in Nat /\ Now.rows - 1 \in Nat
          /\ GlyphWidth \in Nat /\ GlyphHeight \in Nat
      BY SMTT(40), ConsoleAssumption DEF Ready
    <3> QED
      BY <3>1, TimesNat
  <2>2. Now.deltaX \in Int /\ Now.deltaY \in Int
    BY DEF Ready
  <2> DEFINE w == Now.cols * GlyphWidth
             h == (Now.rows - 1) * GlyphHeight
  <2> HIDE DEF w, h
  <2>3. Scroll(c.s, Now.deltaX, Now.deltaY, w, h) \in [Dots(gop) -> Pixel]
    BY <2>1, <2>2, ScrollTyped DEF Canvas, w, h
  <2>4. Paint(Scroll(c.s, Now.deltaX, Now.deltaY, w, h),
              Rectangle(Now.deltaX, Now.deltaY + h, w, GlyphHeight), Blank)
          \in [Dots(gop) -> Pixel]
    BY <2>3, PaintTyped
  <2> QED
    BY <2>4 DEF FedScreen, w, h
<1>2. CASE c.row = Now.rows - 1
  <2>1. LineFeed(c) = [c EXCEPT !.s = FedScreen(c)]
    BY <1>2 DEF LineFeed, FedScreen
  <2> QED
    BY <1>1, <1>2, <2>1 DEF Canvas, Ready
<1>3. CASE c.row # Now.rows - 1
  <2>1. LineFeed(c) = [c EXCEPT !.row = c.row + 1]
    BY <1>3 DEF LineFeed
  <2> QED
    BY <1>3, <2>1 DEF Canvas, Ready
<1> QED
  BY <1>2, <1>3

\* The column of a canvas set to the left.
LEMMA Returned ==
    ASSUME NEW c \in Canvas
    PROVE  /\ [c EXCEPT !.col = 0] \in Canvas
           /\ [c EXCEPT !.col = 0].col = 0
           /\ [c EXCEPT !.col = 0].s = c.s
           /\ [c EXCEPT !.col = 0].row = c.row
           /\ [c EXCEPT !.col = 0].wide = c.wide
BY DEF Canvas

\* The nested calls at the end of a line erase and draw the cursor in vain.
LEMMA WrapIsLineFeed ==
    ASSUME Ready, NEW c \in Canvas, c.row < Now.rows
    PROVE  WrapIfFull(c) = Wrapped(c)
<1>1. CASE c.col >= Now.cols
  <2> DEFINE d == FlushCursor(FlushCursor(c))
             l == LineFeed([d EXCEPT !.col = 0])
  <2>1. d = c
    BY FlushTwice
  <2>2. l \in Canvas
    BY <2>1, Returned, FeedTyped
  <2>3. FlushCursor(FlushCursor(l)) = l
    BY <2>2, FlushTwice
  <2>4. WrapIfFull(c) = FlushCursor(FlushCursor(l))
    BY <1>1 DEF WrapIfFull, CrLf
  <2> QED
    BY <1>1, <2>1, <2>3, <2>4 DEF Wrapped
<1>2. CASE ~(c.col >= Now.cols)
  BY <1>2 DEF WrapIfFull, Wrapped
<1> QED
  BY <1>1, <1>2

\* After a wrap the cursor is on the page again.
LEMMA WrappedInside ==
    ASSUME Ready, NEW c \in Canvas, c.row < Now.rows
    PROVE  /\ Inside(Wrapped(c))
           /\ Wrapped(c).wide = c.wide
<1>1. CASE c.col >= Now.cols
  <2> DEFINE d == [c EXCEPT !.col = 0]
  <2>1. d \in Canvas /\ d.col = 0 /\ d.row = c.row /\ d.wide = c.wide
    BY Returned
  <2> HIDE DEF d
  <2>2. LineFeed(d) \in Canvas /\ LineFeed(d).col = 0 /\ LineFeed(d).row < Now.rows
        /\ LineFeed(d).wide = c.wide
    BY <2>1, FeedTyped
  <2>3. Wrapped(c) = LineFeed(d)
    BY <1>1 DEF Wrapped, d
  <2> QED
    BY <2>2, <2>3 DEF Inside, Ready
<1>2. CASE ~(c.col >= Now.cols)
  BY <1>2 DEF Wrapped, Inside, Ready, Canvas
<1> QED
  BY <1>1, <1>2

\* The nested space erases the cursor, draws, wraps and draws the cursor.
LEMMA SpaceTyped ==
    ASSUME Ready, NEW c \in Canvas, c.row < Now.rows
    PROVE  /\ Space(c) = FlushCursor(Wrapped(DrawAtCursor(FlushCursor(c), Blank, 1)))
           /\ Inside(Space(c))
           /\ Space(c).wide = c.wide
<1> DEFINE e == FlushCursor(c)
           d == DrawAtCursor(e, Blank, 1)
           w == Wrapped(d)
<1>1. e \in Canvas /\ e.row = c.row /\ e.wide = c.wide
  BY FlushTyped
<1> HIDE DEF e
<1>0. Blank \in Chars \cup {Blank} /\ 1 \in Nat
  OBVIOUS
<1>2. d \in Canvas /\ d.row = c.row /\ d.wide = c.wide
  BY <1>0, <1>1, DrawTyped
<1> HIDE DEF d
<1>3. WrapIfFull(d) = w /\ Inside(w) /\ w.wide = c.wide
  BY <1>2, WrapIsLineFeed, WrappedInside
<1> HIDE DEF w
<1>4. FlushCursor(w) \in Canvas /\ FlushCursor(w).col = w.col /\ FlushCursor(w).row = w.row
      /\ FlushCursor(w).wide = w.wide
  BY <1>3, FlushTyped DEF Inside
<1>5. Inside(FlushCursor(w)) /\ FlushCursor(w).wide = c.wide
  BY <1>3, <1>4 DEF Inside
<1>6. Space(c) = FlushCursor(w)
  BY <1>3 DEF Space, d, e
<1> QED
  BY <1>5, <1>6 DEF w, d, e

\* A backspace leaves the cursor on the page.
LEMMA BackspaceTyped ==
    ASSUME Ready, NEW c, Inside(c)
    PROVE  /\ Inside(Backspace(c))
           /\ Backspace(c).wide = c.wide
<1>1. ASSUME NEW to, Inside(to), to.wide = c.wide
      PROVE  LET o == [FlushCursor(Space(to)) EXCEPT !.col = to.col, !.row = to.row]
             IN  Inside(o) /\ o.wide = c.wide
  <2> DEFINE d == FlushCursor(Space(to))
             o == [d EXCEPT !.col = to.col, !.row = to.row]
  <2>1. d \in Canvas /\ d.wide = to.wide
    <3>1. to \in Canvas /\ to.row < Now.rows
      BY <1>1 DEF Inside
    <3>2. Space(to) \in Canvas /\ Space(to).wide = to.wide
      BY <3>1, SpaceTyped DEF Inside
    <3> QED
      BY <3>2, FlushTyped
  <2> HIDE DEF d
  <2>2. to.col \in Nat /\ to.row \in Nat /\ to.col < Now.cols /\ to.row < Now.rows
    BY <1>1 DEF Inside, Canvas
  <2>3. o \in Canvas /\ o.col = to.col /\ o.row = to.row /\ o.wide = d.wide
    BY <2>1, <2>2 DEF Canvas
  <2>4. Inside(o) /\ o.wide = c.wide
    BY <1>1, <2>1, <2>2, <2>3 DEF Inside
  <2> QED
    BY <2>4 DEF d
<1>2. CASE c.col = 0 /\ c.row > 0
  <2> DEFINE to == [c EXCEPT !.row = c.row - 1, !.col = Now.cols - 1]
  <2>1. Inside(to) /\ to.wide = c.wide
    <3>1. c \in Canvas /\ c.row - 1 \in Nat /\ Now.cols - 1 \in Nat
      BY <1>2 DEF Inside, Canvas, Ready
    <3>2. to \in Canvas /\ to.col = Now.cols - 1 /\ to.row = c.row - 1 /\ to.wide = c.wide
      BY <3>1 DEF Canvas
    <3> HIDE DEF to
    <3> QED
      BY <3>1, <3>2 DEF Inside, Ready, Canvas
  <2>2. Backspace(c) = [FlushCursor(Space(to)) EXCEPT !.col = to.col, !.row = to.row]
    BY <1>2 DEF Backspace
  <2> HIDE DEF to
  <2> QED
    BY <1>1, <2>1, <2>2
<1>3. CASE c.col > 0
  <2> DEFINE to == [c EXCEPT !.col = c.col - 1]
  <2>1. Inside(to) /\ to.wide = c.wide
    <3>1. c \in Canvas /\ c.col - 1 \in Nat
      BY <1>3 DEF Inside, Canvas
    <3>2. to \in Canvas /\ to.col = c.col - 1 /\ to.row = c.row /\ to.wide = c.wide
      BY <3>1 DEF Canvas
    <3> HIDE DEF to
    <3> QED
      BY <3>1, <3>2 DEF Inside, Ready, Canvas
  <2>2. Backspace(c) = [FlushCursor(Space(to)) EXCEPT !.col = to.col, !.row = to.row]
    BY <1>3 DEF Backspace, Inside, Canvas
  <2> HIDE DEF to
  <2> QED
    BY <1>1, <2>1, <2>2
<1>4. CASE ~(c.col = 0 /\ c.row > 0) /\ ~(c.col > 0)
  BY <1>4 DEF Backspace
<1> QED
  BY <1>2, <1>3, <1>4

\* A character, narrow or wide, leaves the cursor on the page.
LEMMA CharacterTyped ==
    ASSUME Ready, NEW c, Inside(c), NEW ch \in Chars
    PROVE  /\ Inside(Character(c, ch))
           /\ Character(c, ch).wide = c.wide
           /\ ~c.wide => Character(c, ch) = Wrapped(DrawAtCursor(c, ch, 1))
           /\ c.wide => Character(c, ch) =
                Wrapped(DrawAtCursor(IF c.col + 2 > Now.cols THEN Space(c) ELSE c, ch, 2))
<1>0. ch \in Chars \cup {Blank} /\ 1 \in Nat /\ 2 \in Nat
  OBVIOUS
<1>a. c \in Canvas /\ c.row < Now.rows
  BY DEF Inside
<1>1. CASE ~c.wide
  <2> DEFINE d == DrawAtCursor(c, ch, 1)
  <2>1. d \in Canvas /\ d.row < Now.rows /\ d.wide = c.wide
    BY <1>0, <1>a, DrawTyped
  <2> HIDE DEF d
  <2>2. WrapIfFull(d) = Wrapped(d) /\ Inside(Wrapped(d)) /\ Wrapped(d).wide = c.wide
    BY <2>1, WrapIsLineFeed, WrappedInside
  <2>3. Character(c, ch) = WrapIfFull(d)
    BY <1>1 DEF Character, d
  <2> QED
    BY <1>1, <2>2, <2>3 DEF d
<1>2. CASE c.wide
  <2> DEFINE at == IF c.col + 2 > Now.cols THEN Space(c) ELSE c
             d  == DrawAtCursor(at, ch, 2)
  <2>1. at \in Canvas /\ at.row < Now.rows /\ at.wide = c.wide
    BY <1>a, SpaceTyped DEF Inside
  <2>3. Character(c, ch) = WrapIfFull(d)
    BY <1>2, Zenon DEF Character
  <2> HIDE DEF at
  <2>4. d \in Canvas /\ d.row < Now.rows /\ d.wide = c.wide
    BY <1>0, <2>1, DrawTyped
  <2> HIDE DEF d
  <2>5. WrapIfFull(d) = Wrapped(d) /\ Inside(Wrapped(d)) /\ Wrapped(d).wide = c.wide
    BY <2>4, WrapIsLineFeed, WrappedInside
  <2> QED
    BY <1>2, <2>3, <2>5 DEF d, at
<1> QED
  BY <1>1, <1>2 DEF Inside, Canvas

\* Which function of the driver takes which item of a string.
LEMMA ItemCases ==
    ASSUME NEW c
    PROVE  /\ Item(c, "BS") = Backspace(c)
           /\ Item(c, "LF") = LineFeed(c)
           /\ Item(c, "CR") = [c EXCEPT !.col = 0]
           /\ Item(c, "WIDE") = [c EXCEPT !.wide = TRUE]
           /\ Item(c, "NARROW") = [c EXCEPT !.wide = FALSE]
           /\ \A ch : ch \notin Controls => Item(c, ch) = Character(c, ch)
<1>1. Item(c, "BS") = Backspace(c)
  BY DEF Item
<1>2. Item(c, "LF") = LineFeed(c)
  BY DEF Item
<1>3. Item(c, "CR") = [c EXCEPT !.col = 0]
  BY DEF Item
<1>4. Item(c, "WIDE") = [c EXCEPT !.wide = TRUE]
  BY DEF Item
<1>5. Item(c, "NARROW") = [c EXCEPT !.wide = FALSE]
  BY DEF Item
<1>6. ASSUME NEW ch, ch \notin Controls
      PROVE  Item(c, ch) = Character(c, ch)
  BY <1>6 DEF Item, Controls
<1> QED
  BY <1>1, <1>2, <1>3, <1>4, <1>5, <1>6

\* Every character of a string leaves the cursor on the page.
LEMMA ItemTyped ==
    ASSUME Ready, NEW c, Inside(c), NEW ch \in Chars \cup Controls
    PROVE  Inside(Item(c, ch))
<1>1. CASE ch = "BS"
  BY <1>1, ItemCases, BackspaceTyped
<1>2. CASE ch = "LF"
  BY <1>2, ItemCases, FeedTyped DEF Inside
<1>3. CASE ch = "CR"
  <2>1. Item(c, ch) = [c EXCEPT !.col = 0]
    BY <1>3, ItemCases
  <2> QED
    BY <2>1, Returned DEF Inside, Ready
<1>4. CASE ch = "WIDE" \/ ch = "NARROW"
  <2>1. Item(c, ch) = [c EXCEPT !.wide = TRUE] \/ Item(c, ch) = [c EXCEPT !.wide = FALSE]
    BY <1>4, ItemCases
  <2> QED
    BY <2>1 DEF Inside, Canvas
<1>5. CASE ch \notin Controls
  <2>1. ch \in Chars /\ Item(c, ch) = Character(c, ch)
    BY <1>5, ItemCases
  <2> QED
    BY <2>1, CharacterTyped
<1> QED
  BY <1>1, <1>2, <1>3, <1>4, <1>5 DEF Controls

-----------------------------------------------------------------------------
\* A canvas without the cursor, and one with the cursor where it is.
Bare(c) == \A p \in Dots(gop) :
    c.s[p].inv = {} /\ (c.s[p].shows = Blank \/ p \in PageOf(Now))
Marked(c) == \A p \in Dots(gop) :
    /\ c.s[p].inv = IF visible /\ p \in Cell(c) THEN Colours ELSE {}
    /\ c.s[p].shows = Blank \/ p \in PageOf(Now)

\* What is drawn in the page is drawn in it whole.
LEMMA AreaInPage ==
    ASSUME Ready, NEW c, Inside(c), NEW w \in Nat, c.col + w <= Now.cols
    PROVE  Rectangle(CellX(c), CellY(c), w * GlyphWidth, GlyphHeight) \subseteq PageOf(Now)
<1>1. GlyphWidth \in Nat /\ GlyphHeight \in Nat
  BY ConsoleAssumption
<1>2. /\ c.col \in Nat /\ c.row \in Nat /\ c.row + 1 <= Now.rows
      /\ Now.cols \in Nat /\ Now.rows \in Nat
  BY DEF Inside, Canvas, Ready
<1>3. /\ c.col * GlyphWidth \in Nat /\ w * GlyphWidth \in Nat /\ c.row * GlyphHeight \in Nat
      /\ Now.cols * GlyphWidth \in Nat /\ Now.rows * GlyphHeight \in Nat
  BY <1>1, <1>2, TimesNat
<1>4. c.col * GlyphWidth + w * GlyphWidth <= Now.cols * GlyphWidth
  <2>1. (c.col + w) * GlyphWidth <= Now.cols * GlyphWidth
    BY <1>1, <1>2, TimesMonotone
  <2> QED
    BY <1>1, <1>2, <2>1, TimesSum
<1>5. c.row * GlyphHeight + GlyphHeight <= Now.rows * GlyphHeight
  <2>1. (c.row + 1) * GlyphHeight <= Now.rows * GlyphHeight
    BY <1>1, <1>2, TimesMonotone
  <2>2. (c.row + 1) * GlyphHeight = c.row * GlyphHeight + 1 * GlyphHeight
    BY <1>1, <1>2, TimesSum
  <2> QED
    BY <1>1, <2>1, <2>2
<1>6. Now.deltaX \in Nat /\ Now.deltaY \in Nat
  BY DEF Ready
<1> DEFINE a == c.col * GlyphWidth
           b == c.row * GlyphHeight
           d == w * GlyphWidth
           e == Now.cols * GlyphWidth
           f == Now.rows * GlyphHeight
<1> HIDE DEF a, b, d, e, f
<1>7. Rectangle(a + Now.deltaX, b + Now.deltaY, d, GlyphHeight)
        \subseteq Rectangle(Now.deltaX, Now.deltaY, e, f)
  BY <1>1, <1>3, <1>4, <1>5, <1>6, RectangleWithin DEF a, b, d, e, f
<1> QED
  BY <1>7 DEF a, b, d, e, f, CellX, CellY, PageOf

\* The cursor's cell is part of the page.
LEMMA CellInPage ==
    ASSUME Ready, NEW c, Inside(c)
    PROVE  Cell(c) \subseteq PageOf(Now)
<1>1. 1 \in Nat /\ c.col + 1 <= Now.cols
  BY DEF Inside, Canvas, Ready
<1>2. Rectangle(CellX(c), CellY(c), 1 * GlyphWidth, GlyphHeight) \subseteq PageOf(Now)
  BY <1>1, AreaInPage
<1>3. 1 * GlyphWidth = GlyphWidth
  BY ConsoleAssumption
<1> QED
  BY <1>2, <1>3 DEF Cell

\* Drawing on the page puts into its area what it is to show.
LEMMA PaintOnPage ==
    ASSUME NEW m, NEW g, Whole(m, g), NEW s \in [Dots(g) -> Pixel],
           NEW area, area \subseteq PageOf(m), NEW ch
    PROVE  Paint(s, area, ch) = [p \in Dots(g) |-> IF p \in area THEN Plain(ch) ELSE s[p]]
<1>1. CASE area \subseteq Dots(g)
  BY <1>1 DEF Paint
<1>2. CASE ~(area \subseteq Dots(g))
  <2>1. area \cap Dots(g) = {}
    BY <1>2 DEF Whole
  <2>2. Paint(s, area, ch) = s
    BY <1>2 DEF Paint
  <2> QED
    BY <2>1, <2>2
<1> QED
  BY <1>1, <1>2

\* Inverting a part of the page does so dot by dot, or the page is not there.
LEMMA InvertOnPage ==
    ASSUME NEW m, NEW g, Whole(m, g), NEW s \in [Dots(g) -> Pixel],
           NEW area, area \subseteq PageOf(m), NEW k
    PROVE  \A p \in Dots(g) :
             /\ Invert(s, area, k)[p].shows = s[p].shows
             /\ Invert(s, area, k)[p].inv = IF p \in area THEN Toggled(s[p].inv, k) ELSE s[p].inv
<1>1. CASE area \subseteq Dots(g)
  BY <1>1 DEF Invert
<1>2. CASE ~(area \subseteq Dots(g))
  <2>1. area \cap Dots(g) = {}
    BY <1>2 DEF Whole
  <2>2. Invert(s, area, k) = s
    BY <1>2 DEF Invert
  <2> QED
    BY <2>1, <2>2
<1> QED
  BY <1>1, <1>2

\* The cursor is drawn where there was none.
LEMMA FlushMarks ==
    ASSUME Ready, Whole(Now, gop), NEW c, Inside(c), Bare(c)
    PROVE  Marked(FlushCursor(c)) /\ Inside(FlushCursor(c))
<1> DEFINE d == FlushCursor(c)
<1>1. /\ d \in Canvas /\ d.col = c.col /\ d.row = c.row
      /\ d.s = IF visible THEN Invert(c.s, Cell(c), Colours) ELSE c.s
  BY FlushTyped DEF Inside
<1> HIDE DEF d
<1>2. Cell(d) = Cell(c) /\ Cell(c) \subseteq PageOf(Now)
  BY <1>1, CellInPage DEF Cell, CellX, CellY
<1>3. c.s \in [Dots(gop) -> Pixel]
  BY DEF Inside, Canvas
<1>4. ASSUME NEW p \in Dots(gop)
      PROVE  /\ d.s[p].inv = IF visible /\ p \in Cell(c) THEN Colours ELSE {}
             /\ d.s[p].shows = c.s[p].shows
  <2>1. c.s[p].inv = {}
    BY DEF Bare
  <2>2. Toggled({}, Colours) = Colours
    BY DEF Toggled
  <2>5. /\ Invert(c.s, Cell(c), Colours)[p].shows = c.s[p].shows
        /\ Invert(c.s, Cell(c), Colours)[p].inv =
             IF p \in Cell(c) THEN Toggled(c.s[p].inv, Colours) ELSE c.s[p].inv
    BY <1>2, <1>3, InvertOnPage
  <2>3. CASE visible
    BY <1>1, <2>1, <2>2, <2>3, <2>5
  <2>4. CASE ~visible
    BY <1>1, <2>1, <2>4
  <2> QED
    BY <2>3, <2>4
<1>5. Marked(d)
  BY <1>2, <1>4 DEF Marked, Bare
<1> QED
  BY <1>1, <1>5 DEF d, Inside

\* The cursor is taken away where it was.
LEMMA FlushBares ==
    ASSUME Ready, Whole(Now, gop), NEW c, Inside(c), Marked(c)
    PROVE  Bare(FlushCursor(c)) /\ Inside(FlushCursor(c))
<1> DEFINE d == FlushCursor(c)
<1>1. /\ d \in Canvas /\ d.col = c.col /\ d.row = c.row
      /\ d.s = IF visible THEN Invert(c.s, Cell(c), Colours) ELSE c.s
  BY FlushTyped DEF Inside
<1> HIDE DEF d
<1>2. Cell(c) \subseteq PageOf(Now)
  BY CellInPage
<1>3. c.s \in [Dots(gop) -> Pixel]
  BY DEF Inside, Canvas
<1>4. ASSUME NEW p \in Dots(gop)
      PROVE  d.s[p].inv = {} /\ d.s[p].shows = c.s[p].shows
  <2>1. c.s[p].inv = IF visible /\ p \in Cell(c) THEN Colours ELSE {}
    BY DEF Marked
  <2>2. Toggled(Colours, Colours) = {}
    BY DEF Toggled
  <2>5. /\ Invert(c.s, Cell(c), Colours)[p].shows = c.s[p].shows
        /\ Invert(c.s, Cell(c), Colours)[p].inv =
             IF p \in Cell(c) THEN Toggled(c.s[p].inv, Colours) ELSE c.s[p].inv
    BY <1>2, <1>3, InvertOnPage
  <2>3. CASE visible
    BY <1>1, <2>1, <2>2, <2>3, <2>5
  <2>4. CASE ~visible
    BY <1>1, <2>1, <2>4
  <2> QED
    BY <2>3, <2>4
<1>5. Bare(d)
  BY <1>4 DEF Marked, Bare
<1> QED
  BY <1>1, <1>5 DEF d, Inside

\* Drawing over the cursor's cell leaves none, drawn before or not.
LEMMA DrawBares ==
    ASSUME Ready, Whole(Now, gop), NEW c, Inside(c), Bare(c) \/ Marked(c),
           NEW ch \in Chars \cup {Blank}, NEW w \in Nat, w > 0, c.col + w <= Now.cols
    PROVE  Bare(DrawAtCursor(c, ch, w))
<1> DEFINE d    == DrawAtCursor(c, ch, w)
           area == Rectangle(CellX(c), CellY(c), w * GlyphWidth, GlyphHeight)
<1>1. c.s \in [Dots(gop) -> Pixel] /\ d.s = Paint(c.s, area, ch)
  BY DrawTyped DEF Inside, Canvas
<1>2. area \subseteq PageOf(Now)
  BY AreaInPage
<1>3. Cell(c) \subseteq area
  <2>1. GlyphWidth \in Nat /\ GlyphHeight \in Nat /\ 1 * GlyphWidth = GlyphWidth
    BY ConsoleAssumption
  <2>2. GlyphWidth <= w * GlyphWidth /\ w * GlyphWidth \in Nat
    BY <2>1, TimesMonotone, TimesNat
  <2>3. CellX(c) \in Int /\ CellY(c) \in Int
    BY <2>1, TimesNat DEF CellX, CellY, Inside, Canvas, Ready
  <2> QED
    BY <2>1, <2>2, <2>3, RectangleWithin DEF Cell
<1> HIDE DEF d, area
<1>4. d.s = [p \in Dots(gop) |-> IF p \in area THEN Plain(ch) ELSE c.s[p]]
  BY <1>1, <1>2, PaintOnPage
<1>5. ASSUME NEW p \in Dots(gop)
      PROVE  d.s[p].inv = {} /\ (d.s[p].shows = Blank \/ p \in PageOf(Now))
  <2>1. CASE p \in area
    BY <1>2, <1>4, <2>1 DEF Plain
  <2>2. CASE p \notin area
    BY <1>3, <1>4, <2>2 DEF Bare, Marked
  <2> QED
    BY <2>1, <2>2
<1>6. Bare(d)
  BY <1>5 DEF Bare
<1> QED
  BY <1>6 DEF d

\* A line feed brings no cursor.
LEMMA FeedBares ==
    ASSUME Ready, Whole(Now, gop), NEW c \in Canvas, c.row < Now.rows, Bare(c)
    PROVE  Bare(LineFeed(c))
<1>1. CASE c.row # Now.rows - 1
  BY <1>1, FeedTyped DEF Bare
<1>2. CASE c.row = Now.rows - 1
  <2> DEFINE w  == Now.cols * GlyphWidth
             h  == (Now.rows - 1) * GlyphHeight
             up == Scroll(c.s, Now.deltaX, Now.deltaY, w, h)
             last == Rectangle(Now.deltaX, Now.deltaY + h, w, GlyphHeight)
             d  == LineFeed(c)
  <2>1. d.s = Paint(up, last, Blank)
    BY <1>2, FeedTyped DEF FedScreen
  <2>2. /\ GlyphWidth \in Nat /\ GlyphHeight \in Nat /\ Now.cols \in Nat /\ Now.rows - 1 \in Nat
        /\ Now.deltaX \in Nat /\ Now.deltaY \in Nat
    BY SMTT(40), ConsoleAssumption DEF Ready
  <2>3. w \in Nat /\ h \in Nat
    BY <2>2, TimesNat
  <2>4. PageOf(Now) = Rectangle(Now.deltaX, Now.deltaY, w, h + GlyphHeight)
    <3>1. Now.rows * GlyphHeight = h + 1 * GlyphHeight
      <4>1. Now.rows = (Now.rows - 1) + 1
        BY <2>2 DEF Ready
      <4> QED
        BY <2>2, <4>1, TimesSum
    <3> QED
      BY <2>2, <3>1 DEF PageOf
  <2> HIDE DEF w, h
  <2>5. last \subseteq PageOf(Now) /\ Rectangle(Now.deltaX, Now.deltaY, w, h) \subseteq PageOf(Now)
    BY <2>2, <2>3, <2>4, RectangleWithin
  <2>6. up \in [Dots(gop) -> Pixel]
    BY <2>2, <2>3, ScrollTyped DEF Canvas
  <2>7. ASSUME NEW p \in Dots(gop)
        PROVE  up[p].inv = {} /\ (up[p].shows = Blank \/ p \in PageOf(Now))
    <3>1. c.s \in [Dots(gop) -> Pixel]
      BY DEF Canvas
    <3>2. CASE ~(Rectangle(Now.deltaX, Now.deltaY, w, h + GlyphHeight) \subseteq Dots(gop))
      <4>1. up = c.s
        BY <3>1, <3>2 DEF Scroll
      <4> QED
        BY <4>1 DEF Bare
    <3>3. CASE Rectangle(Now.deltaX, Now.deltaY, w, h + GlyphHeight) \subseteq Dots(gop)
      <4>1. up = [q \in Dots(gop) |-> IF q \in Rectangle(Now.deltaX, Now.deltaY, w, h)
                                      THEN c.s[<<q[1], q[2] + GlyphHeight>>] ELSE c.s[q]]
        BY <3>1, <3>3 DEF Scroll
      <4>2. CASE p \notin Rectangle(Now.deltaX, Now.deltaY, w, h)
        BY <4>1, <4>2 DEF Bare
      <4>3. CASE p \in Rectangle(Now.deltaX, Now.deltaY, w, h)
        <5> DEFINE q == <<p[1], p[2] + GlyphHeight>>
        <5>1. q \in Rectangle(Now.deltaX, Now.deltaY, w, h + GlyphHeight)
          BY <2>2, <2>3, <4>3 DEF Rectangle
        <5>2. up[p] = c.s[q] /\ q \in Dots(gop)
          BY <3>3, <4>1, <4>3, <5>1
        <5> HIDE DEF q
        <5>3. p \in PageOf(Now)
          BY <2>5, <4>3
        <5> QED
          BY <5>2, <5>3 DEF Bare
      <4> QED
        BY <4>2, <4>3
    <3> QED
      BY <3>2, <3>3
  <2> HIDE DEF up, d, last
  <2>8. d.s = [p \in Dots(gop) |-> IF p \in last THEN Plain(Blank) ELSE up[p]]
    BY <2>1, <2>5, <2>6, PaintOnPage
  <2>9. Bare(d)
    BY <2>5, <2>7, <2>8 DEF Bare, Plain
  <2> QED
    BY <2>9 DEF d
<1> QED
  BY <1>1, <1>2

\* A wrap brings no cursor.
LEMMA WrappedBares ==
    ASSUME Ready, Whole(Now, gop), NEW c \in Canvas, c.row < Now.rows, Bare(c)
    PROVE  Bare(Wrapped(c))
<1> DEFINE d == [c EXCEPT !.col = 0]
<1>1. d \in Canvas /\ d.row < Now.rows /\ d.s = c.s
  BY Returned
<1> HIDE DEF d
<1>2. Bare(LineFeed(d))
  <2>1. Bare(d)
    BY <1>1 DEF Bare
  <2> QED
    BY <1>1, <2>1, FeedBares
<1>3. Wrapped(c) = LineFeed(d) \/ Wrapped(c) = c
  BY DEF Wrapped, d
<1> QED
  BY <1>2, <1>3

\* Space leaves the cursor drawn, and nothing but a space where it was.
LEMMA SpaceMarks ==
    ASSUME Ready, Whole(Now, gop), NEW c, Inside(c), Bare(c)
    PROVE  Marked(Space(c)) /\ Bare(FlushCursor(Space(c)))
<1> DEFINE e == FlushCursor(c)
           d == DrawAtCursor(e, Blank, 1)
           w == Wrapped(d)
<1>0. Blank \in Chars \cup {Blank} /\ 1 \in Nat /\ 1 > 0
  OBVIOUS
<1>1. Inside(e) /\ Marked(e)
  BY FlushMarks
<1> HIDE DEF e
<1>2. d \in Canvas /\ d.row < Now.rows
  BY <1>0, <1>1, DrawTyped DEF Inside
<1>3. Bare(d)
  <2>1. e.col + 1 <= Now.cols
    BY <1>1 DEF Inside, Canvas, Ready
  <2> QED
    BY <1>0, <1>1, <2>1, DrawBares
<1> HIDE DEF d
<1>4. Inside(w) /\ Bare(w)
  BY <1>2, <1>3, WrappedInside, WrappedBares
<1> HIDE DEF w
<1>5. Marked(FlushCursor(w))
  BY <1>4, FlushMarks
<1>6. FlushCursor(FlushCursor(w)) = w
  BY <1>4, FlushTwice DEF Inside
<1>7. Space(c) = FlushCursor(w)
  BY SpaceTyped DEF w, d, e, Inside
<1> QED
  BY <1>4, <1>5, <1>6, <1>7

\* A backspace, two nested calls and all, brings no cursor.
LEMMA BackspaceBares ==
    ASSUME Ready, Whole(Now, gop), NEW c, Inside(c), Bare(c)
    PROVE  Bare(Backspace(c))
<1>1. ASSUME NEW to, Inside(to), to.s = c.s
      PROVE  Bare([FlushCursor(Space(to)) EXCEPT !.col = to.col, !.row = to.row])
  <2> DEFINE d == FlushCursor(Space(to))
  <2>1. d \in Canvas
    <3>1. to \in Canvas /\ to.row < Now.rows
      BY <1>1 DEF Inside
    <3>2. Space(to) \in Canvas
      BY <3>1, SpaceTyped DEF Inside
    <3> QED
      BY <3>2, FlushTyped
  <2>2. Bare(d)
    <3>1. Bare(to)
      BY <1>1 DEF Bare
    <3> QED
      BY <1>1, <3>1, SpaceMarks
  <2> HIDE DEF d
  <2>3. [d EXCEPT !.col = to.col, !.row = to.row].s = d.s
    BY <2>1 DEF Canvas
  <2>4. Bare([d EXCEPT !.col = to.col, !.row = to.row])
    BY <2>2, <2>3 DEF Bare
  <2> QED
    BY <2>4 DEF d
<1>a. c \in Canvas /\ c.col < Now.cols /\ c.row < Now.rows
  BY DEF Inside
<1>2. CASE c.col = 0 /\ c.row > 0
  <2> DEFINE to == [c EXCEPT !.row = c.row - 1, !.col = Now.cols - 1]
  <2>1. c.row - 1 \in Nat /\ Now.cols - 1 \in Nat
    BY <1>2, <1>a DEF Canvas, Ready
  <2>2. to \in Canvas /\ to.col = Now.cols - 1 /\ to.row = c.row - 1 /\ to.s = c.s
    BY <1>a, <2>1 DEF Canvas
  <2>3. Backspace(c) = [FlushCursor(Space(to)) EXCEPT !.col = to.col, !.row = to.row]
    BY <1>2 DEF Backspace
  <2> HIDE DEF to
  <2>4. Inside(to)
    BY <1>a, <2>1, <2>2 DEF Inside, Canvas, Ready
  <2> QED
    BY <1>1, <2>2, <2>3, <2>4
<1>3. CASE c.col > 0
  <2> DEFINE to == [c EXCEPT !.col = c.col - 1]
  <2>1. c.col - 1 \in Nat
    BY <1>3, <1>a DEF Canvas
  <2>2. to \in Canvas /\ to.col = c.col - 1 /\ to.row = c.row /\ to.s = c.s
    BY <1>a, <2>1 DEF Canvas
  <2>3. Backspace(c) = [FlushCursor(Space(to)) EXCEPT !.col = to.col, !.row = to.row]
    BY <1>3, <1>a DEF Backspace, Canvas
  <2> HIDE DEF to
  <2>4. Inside(to)
    BY <1>a, <2>1, <2>2 DEF Inside, Canvas, Ready
  <2> QED
    BY <1>1, <2>2, <2>3, <2>4
<1>4. CASE ~(c.col = 0 /\ c.row > 0) /\ ~(c.col > 0)
  BY <1>4 DEF Backspace
<1> QED
  BY <1>2, <1>3, <1>4

\* A character brings no cursor.
LEMMA CharacterBares ==
    ASSUME Ready, Whole(Now, gop), NEW c, Inside(c), Bare(c), NEW ch \in Chars
    PROVE  Bare(Character(c, ch))
<1>0. ch \in Chars \cup {Blank} /\ 1 \in Nat /\ 2 \in Nat /\ 1 > 0 /\ 2 > 0
  OBVIOUS
<1>1. CASE ~c.wide
  <2> DEFINE d == DrawAtCursor(c, ch, 1)
  <2>1. d \in Canvas /\ d.row < Now.rows
    BY <1>0, DrawTyped DEF Inside
  <2>2. c.col + 1 <= Now.cols
    BY DEF Inside, Canvas, Ready
  <2>3. Bare(d)
    BY <1>0, <2>2, DrawBares
  <2>4. Character(c, ch) = Wrapped(d)
    BY <1>1, CharacterTyped
  <2> HIDE DEF d
  <2> QED
    BY <2>1, <2>3, <2>4, WrappedBares
<1>2. CASE c.wide
  <2> DEFINE at == IF c.col + 2 > Now.cols THEN Space(c) ELSE c
             d  == DrawAtCursor(at, ch, 2)
  <2>1. Inside(at) /\ (Bare(at) \/ Marked(at)) /\ at.col + 2 <= Now.cols
    <3>1. CASE c.col + 2 > Now.cols
      <4>1. Inside(Space(c)) /\ Marked(Space(c))
        BY SpaceTyped, SpaceMarks DEF Inside
      <4>2. Space(c).col = 0
        <5> DEFINE e == FlushCursor(c)
                   f == DrawAtCursor(e, Blank, 1)
                   g == [f EXCEPT !.col = 0]
        <5>1. e \in Canvas /\ e.col = c.col /\ e.row = c.row
          BY FlushTyped DEF Inside
        <5>2. Blank \in Chars \cup {Blank}
          OBVIOUS
        <5> HIDE DEF e
        <5>3. f \in Canvas /\ f.col = c.col + 1 /\ f.row = c.row
          <6>1. f \in Canvas /\ f.col = e.col + 1 /\ f.row = e.row
            BY <1>0, <5>1, <5>2, DrawTyped
          <6> QED
            BY <5>1, <6>1
        <5> HIDE DEF f
        <5>4. g \in Canvas /\ g.col = 0 /\ g.row < Now.rows
          BY <5>3, Returned DEF Inside
        <5>5. Wrapped(f) = LineFeed(g)
          BY <3>1, <5>3 DEF Wrapped, Inside, Canvas, Ready
        <5> HIDE DEF g
        <5>6. LineFeed(g) \in Canvas /\ LineFeed(g).col = 0
          BY <5>4, FeedTyped
        <5>7. Space(c) = FlushCursor(LineFeed(g))
          BY <5>5, SpaceTyped DEF Inside, e, f
        <5> QED
          BY <5>6, <5>7, FlushTyped
      <4> QED
        BY <3>1, <4>1, <4>2 DEF Ready
    <3>2. CASE ~(c.col + 2 > Now.cols)
      BY <3>2 DEF Inside, Canvas, Ready
    <3> QED
      BY <3>1, <3>2
  <2>2. Character(c, ch) = Wrapped(d)
    BY <1>2, CharacterTyped
  <2> HIDE DEF at
  <2>3. d \in Canvas /\ d.row < Now.rows
    BY <1>0, <2>1, DrawTyped DEF Inside
  <2>4. Bare(d)
    BY <1>0, <2>1, DrawBares
  <2> HIDE DEF d
  <2> QED
    BY <2>2, <2>3, <2>4, WrappedBares
<1> QED
  BY <1>1, <1>2

\* No character of a string brings a cursor.
LEMMA ItemBares ==
    ASSUME Ready, Whole(Now, gop), NEW c, Inside(c), Bare(c), NEW ch \in Chars \cup Controls
    PROVE  Bare(Item(c, ch))
<1>1. CASE ch = "BS"
  BY <1>1, ItemCases, BackspaceBares
<1>2. CASE ch = "LF"
  BY <1>2, ItemCases, FeedBares DEF Inside
<1>3. CASE ch = "CR" \/ ch = "WIDE" \/ ch = "NARROW"
  <2>1. \/ Item(c, ch) = [c EXCEPT !.col = 0]
        \/ Item(c, ch) = [c EXCEPT !.wide = TRUE]
        \/ Item(c, ch) = [c EXCEPT !.wide = FALSE]
    BY <1>3, ItemCases
  <2>2. Item(c, ch).s = c.s
    BY <2>1 DEF Inside, Canvas
  <2> QED
    BY <2>2 DEF Bare
<1>5. CASE ch \notin Controls
  <2>1. ch \in Chars /\ Item(c, ch) = Character(c, ch)
    BY <1>5, ItemCases
  <2> QED
    BY <2>1, CharacterBares
<1> QED
  BY <1>1, <1>2, <1>3, <1>5 DEF Controls

-----------------------------------------------------------------------------
\* A set of naturals has a least element.
LEMMA LeastNat ==
    ASSUME NEW S, S \subseteq Nat, S # {}
    PROVE  \E x \in S : \A y \in S : x <= y
<1> DEFINE R == OpToRel(<, Nat)
<1>1. IsWellFoundedOn(R, Nat)
  BY NatLessThanWellFounded
<1>2. ASSUME NEW x \in Nat, NEW y \in Nat, x < y
      PROVE  <<x, y>> \in R
  <2> DEFINE p == <<x, y>>
  <2>1. p \in Nat \X Nat /\ p[1] = x /\ p[2] = y
    OBVIOUS
  <2> HIDE DEF p
  <2>2. p[1] < p[2]
    BY <1>2, <2>1
  <2>3. p \in {q \in Nat \X Nat : q[1] < q[2]}
    BY <2>1, <2>2
  <2>4. p \in R
    BY <2>3, Zenon DEF OpToRel
  <2> QED
    BY <2>4 DEF p
<1> HIDE DEF R
<1>3. PICK x \in S : \A y \in S : ~(<<y, x>> \in R)
  BY <1>1, WFMin
<1>4. ASSUME NEW y \in S
      PROVE  x <= y
  <2>1. x \in Nat /\ y \in Nat /\ ~(<<y, x>> \in R)
    BY <1>3
  <2>2. ~(y < x)
    BY <1>2, <2>1
  <2> QED
    BY <2>1, <2>2
<1> QED
  BY <1>4

\* What holds at zero and passes from every number to the next holds at n.
LEMMA CountUp ==
    ASSUME NEW n \in Nat, NEW S, 0 \in S, \A k \in 0 .. n - 1 : k \in S => k + 1 \in S
    PROVE  \A k \in 0 .. n : k \in S
<1> SUFFICES ASSUME NEW m \in 0 .. n, m \notin S
             PROVE  FALSE
  OBVIOUS
<1> DEFINE Out == {k \in 0 .. n : k \notin S}
<1>1. Out \subseteq Nat /\ Out # {}
  OBVIOUS
<1>2. PICK x \in Out : \A y \in Out : x <= y
  BY <1>1, LeastNat
<1>3. x - 1 \in 0 .. n - 1 /\ x - 1 \notin Out
  BY <1>2
<1>4. x \in S
  BY <1>3
<1> QED
  BY <1>2, <1>4

\* CheckModeSupported answers with a mode or with their number.
LEMMA CheckedMode ==
    ASSUME NEW res, NEW failing
    PROVE  CheckModeSupported(res, failing) \in 0 .. Len(GopModes)
<1> DEFINE at == {g \in 0 .. Len(GopModes) - 1 :
                    Resolution(g) = res /\ (Resolution(gop) = res \/ g \notin failing)}
<1>1. Len(GopModes) \in Nat
  BY ConsoleAssumption
<1>2. CASE at = {}
  BY <1>1, <1>2 DEF CheckModeSupported
<1>3. CASE at # {}
  <2>1. CheckModeSupported(res, failing) = Min(at)
    BY <1>3 DEF CheckModeSupported
  <2>2. at \subseteq Nat
    OBVIOUS
  <2>3. \E x \in at : \A y \in at : x <= y
    BY <1>3, <2>2, LeastNat
  <2>4. Min(at) \in at
    <3> HIDE DEF at
    <3> QED
      BY <2>3 DEF Min
  <2> QED
    BY <1>1, <2>1, <2>4
<1> QED
  BY <1>2, <1>3

\* What the assumption says of a mode of the graphics output.
LEMMA ResolutionTyped ==
    ASSUME NEW g \in 0 .. Len(GopModes) - 1
    PROVE  /\ Resolution(g) \in Nat \X Nat
           /\ Resolution(g)[1] \in Nat /\ Resolution(g)[2] \in Nat
           /\ Resolution(g)[1] \div GlyphWidth # 1
           /\ Resolution(g)[1] + FirstMode[1] * GlyphWidth <= Word
           /\ Resolution(g)[2] + FirstMode[2] * GlyphHeight <= Word
<1>1. /\ GopModes \in Seq(Nat \X Nat)
      /\ \A i \in DOMAIN GopModes :
         /\ GopModes[i][1] \div GlyphWidth # 1
         /\ GopModes[i][1] + FirstMode[1] * GlyphWidth <= Word
         /\ GopModes[i][2] + FirstMode[2] * GlyphHeight <= Word
  BY ConsoleAssumption
<1>2. g + 1 \in DOMAIN GopModes
  BY <1>1
<1>3. GopModes[g + 1] \in Nat \X Nat
  BY <1>1, <1>2
<1> QED
  BY <1>1, <1>2, <1>3 DEF Resolution

\* There is a widest mode, as Start's loop finds it.
LEMMA WidestTyped == Widest \in 0 .. Len(GopModes) - 1
<1> DEFINE X(g) == Resolution(g)[1]
           Y(g) == Resolution(g)[2]
           Over(g, h) == \/ X(g) > X(h)
                         \/ X(g) = X(h) /\ Y(g) > Y(h)
                         \/ X(g) = X(h) /\ Y(g) = Y(h) /\ g <= h
           N == Len(GopModes)
           S == {k \in 0 .. N - 1 : \E g \in 0 .. k : \A h \in 0 .. k : Over(g, h)}
<1>1. N \in Nat /\ N > 0
  BY ConsoleAssumption
<1>2. \A g \in 0 .. N - 1 : X(g) \in Nat /\ Y(g) \in Nat
  BY ResolutionTyped
<1> HIDE DEF X, Y, N
<1>3. 0 \in S
  BY <1>1, <1>2
<1>4. ASSUME NEW k \in 0 .. (N - 1) - 1, k \in S
      PROVE  k + 1 \in S
  <2>1. PICK g \in 0 .. k : \A h \in 0 .. k : Over(g, h)
    BY <1>4
  <2>2. k + 1 \in 0 .. N - 1 /\ g \in 0 .. N - 1 /\ \A h \in 0 .. k : h \in 0 .. N - 1
    BY <1>1
  <2>3. CASE Over(g, k + 1)
    <3>1. \A h \in 0 .. k + 1 : Over(g, h)
      BY <1>1, <2>1, <2>3
    <3> QED
      BY <2>2, <3>1
  <2>4. CASE ~Over(g, k + 1)
    <3>1. ASSUME NEW h \in 0 .. k
          PROVE  Over(k + 1, h)
      <4>1. Over(g, h)
        BY <2>1
      <4>2. X(g) \in Nat /\ Y(g) \in Nat /\ X(h) \in Nat /\ Y(h) \in Nat
            /\ X(k + 1) \in Nat /\ Y(k + 1) \in Nat
        BY <1>2, <2>2
      <4> QED
        BY <2>4, <4>1, <4>2
    <3>2. Over(k + 1, k + 1)
      BY <1>1
    <3> QED
      BY <1>1, <2>2, <3>1, <3>2
  <2> QED
    BY <2>3, <2>4
<1> HIDE DEF S
<1>5. N - 1 \in S
  BY <1>1, <1>3, <1>4, CountUp
<1>6. PICK g \in 0 .. N - 1 : \A h \in 0 .. N - 1 : Over(g, h)
  BY <1>1, <1>5 DEF S
<1>7. \A h \in 0 .. Len(GopModes) - 1 :
        LET a == Resolution(g) b == Resolution(h)
        IN  \/ a[1] > b[1]
            \/ a[1] = b[1] /\ a[2] > b[2]
            \/ a = b /\ g <= h
  <2> SUFFICES ASSUME NEW h \in 0 .. Len(GopModes) - 1
               PROVE  \/ Resolution(g)[1] > Resolution(h)[1]
                      \/ /\ Resolution(g)[1] = Resolution(h)[1]
                         /\ Resolution(g)[2] > Resolution(h)[2]
                      \/ Resolution(g) = Resolution(h) /\ g <= h
    OBVIOUS
  <2>1. Over(g, h)
    BY <1>6 DEF N
  <2>2. Resolution(g) \in Nat \X Nat /\ Resolution(h) \in Nat \X Nat
    BY ResolutionTyped DEF N
  <2>3. X(g) = X(h) /\ Y(g) = Y(h) => Resolution(g) = Resolution(h)
    BY <2>2 DEF X, Y
  <2> QED
    BY <2>1, <2>3 DEF X, Y
<1> QED
  BY <1>6, <1>7 DEF Widest, N

\* Start chooses a mode of the graphics output.
LEMMA ChosenTyped ==
    ASSUME NEW failing, gop \in 0 .. Len(GopModes) - 1
    PROVE  /\ ChosenGopMode(failing).mode \in 0 .. Len(GopModes) - 1
           /\ ~ChosenGopMode(failing).set => ChosenGopMode(failing).mode = gop
<1> DEFINE wanted == CheckModeSupported(PcdVideo, failing)
           small  == CheckModeSupported(<<800, 600>>, failing)
           chosen == IF PcdVideo[1] = 0 \/ PcdVideo[2] = 0 THEN Widest
                     ELSE IF wanted < Len(GopModes) THEN wanted ELSE small
<1>1. chosen \in 0 .. Len(GopModes)
  BY CheckedMode, WidestTyped
<1>2. ChosenGopMode(failing) =
        IF chosen < Len(GopModes) THEN [mode |-> chosen, set |-> chosen # gop]
        ELSE [mode |-> gop, set |-> TRUE]
  BY DEF ChosenGopMode
<1> HIDE DEF chosen
<1>3. Len(GopModes) \in Nat
  BY ConsoleAssumption
<1>4. CASE chosen < Len(GopModes)
  <2>1. ChosenGopMode(failing) = [mode |-> chosen, set |-> chosen # gop]
    BY <1>2, <1>4
  <2>2. ChosenGopMode(failing).mode = chosen
    BY <2>1
  <2>3. ChosenGopMode(failing).set = (chosen # gop)
    BY <2>1
  <2>4. ~ChosenGopMode(failing).set => chosen = gop
    BY <2>3, Zenon
  <2>5. ChosenGopMode(failing).mode \in 0 .. Len(GopModes) - 1
    BY <1>1, <1>3, <1>4, <2>2
  <2> QED
    BY <2>2, <2>4, <2>5
<1>5. CASE ~(chosen < Len(GopModes))
  BY <1>2, <1>5
<1> QED
  BY <1>4, <1>5

-----------------------------------------------------------------------------
\* Whole columns fit.
LEMMA QuotientIs ==
    ASSUME NEW a \in Nat, NEW b \in Nat \ {0}
    PROVE  /\ a \div b \in Nat
           /\ \A q \in Nat : q <= a \div b => q * b <= a
<1>1. a \div b \in Nat
  OBVIOUS
<1>2. (a \div b) * b <= a
  BY Z3
<1>3. ASSUME NEW q \in Nat, q <= a \div b
      PROVE  q * b <= a
  <2>1. q * b <= (a \div b) * b
    BY <1>1, <1>3, TimesMonotone
  <2> QED
    BY <1>1, <1>2, <2>1, TimesNat
<1> QED
  BY <1>1, <1>3

\* UINTN arithmetic of a difference.
LEMMA Remainder ==
    ASSUME NEW a \in Int, NEW w \in Nat \ {0}
    PROVE  /\ a % w \in Nat
           /\ 0 <= a /\ a < w => a % w = a
           /\ -w < a /\ a < 0 => a % w = a + w
<1>1. a % w \in 0 .. w - 1
  OBVIOUS
<1>2. 0 <= a /\ a < w => a % w = a
  OBVIOUS
<1>3. -w < a /\ a < 0 => a % w = a + w
  BY Z3
<1> QED
  BY <1>1, <1>2, <1>3

\* Text that fits is centred; text that does not starts past the screen.
LEMMA CentredIs ==
    ASSUME NEW res \in Nat, NEW size \in Nat, res < Word
    PROVE  /\ Centred(res, size) \in Nat
           /\ size <= res => Centred(res, size) + size <= res
           /\ res < size /\ res + size <= Word /\ res > 0 => Centred(res, size) >= res
<1> DEFINE r == (res - size) % Word
<1>1. Word \in Nat \ {0} /\ res - size \in Int
  BY ConsoleAssumption
<1>2. r \in Nat /\ (size <= res => r = res - size)
  BY <1>1, Remainder
<1>3. res < size /\ res + size <= Word /\ res > 0 => r = res - size + Word
  BY <1>1, Remainder
<1>4. Centred(res, size) = r \div 2
  BY DEF Centred
<1> HIDE DEF r
<1> QED
  BY <1>1, <1>2, <1>3, <1>4

-----------------------------------------------------------------------------
\* A list of mode sizes as it grows.
SizesOf(l, g) ==
    /\ l \in Seq(Nat \X Nat) /\ Len(l) >= 2
    /\ l[1] = FirstMode /\ l[2] = <<0, 0>>
    /\ \A i \in 3 .. Len(l) : l[i][1] > 1 /\ FitsOn(l[i], g)
    /\ \A i, j \in 1 .. Len(l) : l[i] = l[j] => i = j

\* Mode 0 has a size.
LEMMA FirstModeIs ==
    /\ FirstMode \in Nat \X Nat /\ FirstMode[1] \in Nat /\ FirstMode[2] \in Nat
    /\ FirstMode[1] > 1 /\ FirstMode[2] > 0
BY SMTT(40), ConsoleAssumption

\* One more size keeps the list sound.
LEMMA ExtendedSizes ==
    ASSUME NEW g, NEW l, SizesOf(l, g), NEW size \in Nat \X Nat, size[1] # 1
    PROVE  SizesOf(Extended(l, size, g), g)
<1>1. CASE FitsOn(size, g) /\ ~Contains(l, size)
  <2> DEFINE k == Append(l, size)
  <2>1. Extended(l, size, g) = k
    BY <1>1 DEF Extended
  <2>2. l \in Seq(Nat \X Nat)
    BY DEF SizesOf
  <2>3. k \in Seq(Nat \X Nat) /\ Len(k) = Len(l) + 1 /\ k[Len(l) + 1] = size
        /\ \A i \in 1 .. Len(l) : k[i] = l[i]
    BY <2>2
  <2>4. size[1] > 1
    BY <1>1 DEF FitsOn
  <2>5. \A i \in 1 .. Len(l) : l[i] # size
    BY <1>1 DEF Contains
  <2>6. Len(l) \in Nat /\ Len(l) >= 2
    BY <2>2 DEF SizesOf
  <2> HIDE DEF k
  <2>7. \A i \in 3 .. Len(k) : k[i][1] > 1 /\ FitsOn(k[i], g)
    <3> SUFFICES ASSUME NEW i \in 3 .. Len(k)
                 PROVE  k[i][1] > 1 /\ FitsOn(k[i], g)
      OBVIOUS
    <3>1. CASE i = Len(l) + 1
      BY <1>1, <2>3, <2>4, <3>1
    <3>2. CASE i # Len(l) + 1
      <4>1. i \in 3 .. Len(l) /\ k[i] = l[i]
        BY SMTT(40), <2>3, <2>6, <3>2
      <4> QED
        BY <4>1 DEF SizesOf
    <3> QED
      BY <3>1, <3>2
  <2>8. \A i, j \in 1 .. Len(k) : k[i] = k[j] => i = j
    <3> SUFFICES ASSUME NEW i \in 1 .. Len(k), NEW j \in 1 .. Len(k), k[i] = k[j]
                 PROVE  i = j
      OBVIOUS
    <3>1. \A n \in 1 .. Len(k) : n = Len(l) + 1 \/ n \in 1 .. Len(l)
      BY <2>3, <2>6
    <3>2. CASE i \in 1 .. Len(l) /\ j \in 1 .. Len(l)
      BY <2>3, <3>2 DEF SizesOf
    <3>3. CASE ~(i \in 1 .. Len(l) /\ j \in 1 .. Len(l))
      BY <2>3, <2>5, <3>1, <3>3
    <3> QED
      BY <3>2, <3>3
  <2>9. k[1] = FirstMode /\ k[2] = <<0, 0>> /\ Len(k) >= 2
    <3>1. 1 \in 1 .. Len(l) /\ 2 \in 1 .. Len(l) /\ Len(k) >= 2
      BY <2>3, <2>6
    <3>2. k[1] = l[1] /\ k[2] = l[2]
      BY <2>3, <3>1
    <3> QED
      BY <3>1, <3>2 DEF SizesOf
  <2> QED
    BY <2>1, <2>3, <2>7, <2>8, <2>9 DEF SizesOf
<1>2. CASE ~(FitsOn(size, g) /\ ~Contains(l, size))
  BY <1>2 DEF Extended
<1> QED
  BY <1>1, <1>2

\* The modes made for resolution g of the graphics output.
ModeRecord == [cols : Nat, rows : Nat, gop : Int, width : Nat, height : Nat,
               deltaX : Nat, deltaY : Nat]
ModeFor(m, g) ==
    /\ m \in ModeRecord /\ m.cols > 1 /\ m.rows > 0 /\ m.gop = g
    /\ m.width = Resolution(g)[1] /\ m.height = Resolution(g)[2]
    /\ Whole(m, g)
Built(l, g) ==
    /\ l \in Seq(ModeRecord) /\ Len(l) >= 2
    /\ l[2].cols = 0 /\ l[2].rows = 0
    /\ \A i \in 1 .. Len(l) : i # 2 => ModeFor(l[i], g)
    /\ \A i \in 2 .. Len(l) : Fits(l[i])
    /\ \A i, j \in 1 .. Len(l) : l[i] = l[j] => i = j

\* The loop over the table ends with a sound list.
LEMMA GrowSizes ==
    ASSUME NEW g \in 0 .. Len(GopModes) - 1, NEW offered \in Seq(Nat \X Nat),
           \A n \in 1 .. Len(offered) : offered[n][1] # 1,
           NEW sizes, sizes = CHOOSE f : f = [n \in 0 .. Len(offered) |->
               IF n = 0 THEN <<FirstMode, <<0, 0>>>> ELSE Extended(f[n - 1], offered[n], g)]
    PROVE  SizesOf(sizes[Len(offered)], g)
<1> DEFINE N == Len(offered)
           base == <<FirstMode, <<0, 0>>>>
           Grown(f, k) == f = [n \in 0 .. k |->
               IF n = 0 THEN base ELSE Extended(f[n - 1], offered[n], g)]
           S == {k \in 0 .. N : \E f : Grown(f, k)}
<1>1. N \in Nat
  OBVIOUS
<1> HIDE DEF N, base
<1>2. 0 \in S
  <2>1. Grown([n \in 0 .. 0 |-> base], 0)
    OBVIOUS
  <2> HIDE DEF Grown
  <2> QED
    BY <1>1, <2>1
<1>3. ASSUME NEW k \in 0 .. N - 1, k \in S
      PROVE  k + 1 \in S
  <2> HIDE DEF Grown
  <2>1. PICK f : Grown(f, k)
    BY <1>3
  <2> USE DEF Grown
  <2> DEFINE e == [n \in 0 .. k + 1 |-> IF n <= k THEN f[n] ELSE Extended(f[k], offered[k + 1], g)]
  <2>2. ASSUME NEW n \in 0 .. k + 1
        PROVE  e[n] = IF n = 0 THEN base ELSE Extended(e[n - 1], offered[n], g)
    <3>1. CASE n = k + 1
      BY <3>1
    <3>2. CASE n \in 0 .. k
      <4>1. e[n] = f[n]
        BY <3>2
      <4>2. f[n] = IF n = 0 THEN base ELSE Extended(f[n - 1], offered[n], g)
        BY <2>1, <3>2
      <4>3. n # 0 => e[n - 1] = f[n - 1]
        BY <3>2
      <4> QED
        BY <4>1, <4>2, <4>3
    <3> QED
      BY <3>1, <3>2
  <2>3. DOMAIN e = 0 .. k + 1 /\ e = [n \in 0 .. k + 1 |-> e[n]]
    OBVIOUS
  <2> HIDE DEF e
  <2>4. Grown(e, k + 1)
    <3>1. e = [n \in 0 .. k + 1 |-> IF n = 0 THEN base ELSE Extended(e[n - 1], offered[n], g)]
      BY <2>2, <2>3, Zenon
    <3> QED
      BY <3>1
  <2> HIDE DEF Grown
  <2> QED
    BY <1>1, <2>4
<1>4. N \in S
  <2> HIDE DEF S
  <2>1. \A k \in 0 .. N : k \in S
    BY <1>1, <1>2, <1>3, CountUp
  <2> QED
    BY <1>1, <2>1
<1>5. Grown(sizes, N)
  <2>2. sizes = CHOOSE f : Grown(f, N)
    BY DEF N, base
  <2> HIDE DEF Grown
  <2>1. \E f : Grown(f, N)
    BY <1>4
  <2> QED
    BY <2>1, <2>2
<1>6. sizes[0] = base /\ \A n \in 1 .. N : sizes[n] = Extended(sizes[n - 1], offered[n], g)
  <2> DEFINE F(n) == IF n = 0 THEN base ELSE Extended(sizes[n - 1], offered[n], g)
  <2>1. sizes = [n \in 0 .. N |-> F(n)]
    BY <1>5
  <2> HIDE DEF F
  <2>2. \A n \in 0 .. N : sizes[n] = F(n)
    BY <2>1
  <2>3. 0 \in 0 .. N /\ \A n \in 1 .. N : n \in 0 .. N /\ n # 0
    BY <1>1
  <2> QED
    BY <2>2, <2>3 DEF F
<1> HIDE DEF Grown, S
<1> DEFINE Upto == {k \in 0 .. N : SizesOf(sizes[k], g)}
<1>7. 0 \in Upto
  <2>1. /\ base \in Seq(Nat \X Nat) /\ Len(base) = 2
        /\ base[1] = FirstMode /\ base[2] = <<0, 0>> /\ FirstMode # <<0, 0>>
    BY FirstModeIs DEF base
  <2>2. SizesOf(base, g)
    BY SMTT(40), <2>1 DEF SizesOf
  <2> QED
    BY <1>1, <1>6, <2>2
<1>8. ASSUME NEW k \in 0 .. N - 1, k \in Upto
      PROVE  k + 1 \in Upto
  <2>0. k + 1 \in 1 .. N /\ (k + 1) - 1 = k
    BY <1>1
  <2>1. k + 1 \in 1 .. N /\ sizes[k + 1] = Extended(sizes[k], offered[k + 1], g)
    BY <1>6, <2>0
  <2>2. offered[k + 1] \in Nat \X Nat /\ offered[k + 1][1] # 1
    BY SMTT(40), <2>1 DEF N
  <2>3. SizesOf(sizes[k + 1], g)
    BY <1>8, <2>1, <2>2, ExtendedSizes
  <2> QED
    BY <2>1, <2>3
<1> HIDE DEF Upto
<1>9. N \in Upto
  <2>1. \A k \in 0 .. N : k \in Upto
    BY <1>1, <1>7, <1>8, CountUp
  <2> QED
    BY <1>1, <2>1
<1> QED
  BY <1>9 DEF N, Upto

\* What a size becomes on a resolution.
LEMMA ModeOfSize ==
    ASSUME NEW g \in 0 .. Len(GopModes) - 1, NEW size \in Nat \X Nat,
           size[1] > 1, size[2] > 0, size = FirstMode \/ FitsOn(size, g)
    PROVE  /\ ModeFor(ModeData(size, g), g)
           /\ FitsOn(size, g) => Fits(ModeData(size, g))
<1> DEFINE m == ModeData(size, g)
           w == size[1] * GlyphWidth
           h == size[2] * GlyphHeight
           X == Resolution(g)[1]
           Y == Resolution(g)[2]
<1>1. /\ GlyphWidth \in Nat \ {0} /\ GlyphHeight \in Nat \ {0} /\ Word \in Nat \ {0}
      /\ X \in Nat /\ Y \in Nat /\ size[1] \in Nat /\ size[2] \in Nat
  BY ConsoleAssumption, ResolutionTyped
<1>2. w \in Nat /\ h \in Nat /\ w > 0 /\ h > 0
  <2>1. 1 * GlyphWidth <= size[1] * GlyphWidth /\ 1 * GlyphHeight <= size[2] * GlyphHeight
    BY SMTT(40), <1>1, TimesMonotone
  <2> QED
    BY SMTT(40), <1>1, <2>1, TimesNat
<1>3. X < Word /\ Y < Word
  <2>1. X + FirstMode[1] * GlyphWidth <= Word /\ Y + FirstMode[2] * GlyphHeight <= Word
    BY ResolutionTyped
  <2>2. 1 * GlyphWidth <= FirstMode[1] * GlyphWidth /\ 1 * GlyphHeight <= FirstMode[2] * GlyphHeight
    <3>1. FirstMode[1] \in Nat /\ FirstMode[2] \in Nat /\ 1 <= FirstMode[1] /\ 1 <= FirstMode[2]
      BY FirstModeIs
    <3> QED
      BY <1>1, <3>1, TimesMonotone
  <2>3. FirstMode[1] * GlyphWidth \in Nat /\ FirstMode[2] * GlyphHeight \in Nat
    BY <1>1, FirstModeIs, TimesNat
  <2> DEFINE a == FirstMode[1] * GlyphWidth
             b == FirstMode[2] * GlyphHeight
  <2>4. /\ X + a <= Word /\ Y + b <= Word /\ a \in Nat /\ b \in Nat
        /\ GlyphWidth <= a /\ GlyphHeight <= b
    BY <1>1, <2>1, <2>2, <2>3
  <2> HIDE DEF a, b, X, Y
  <2> QED
    BY <1>1, <2>4
<1>4. \/ w <= X /\ h <= Y
      \/ ~FitsOn(size, g) /\ X + w <= Word /\ Y + h <= Word
  <2>1. CASE FitsOn(size, g)
    <3>1. size[1] <= X \div GlyphWidth /\ size[2] <= Y \div GlyphHeight
      BY <2>1 DEF FitsOn, Most
    <3> QED
      BY <1>1, <3>1, QuotientIs
  <2>2. CASE ~FitsOn(size, g)
    BY <2>2, ResolutionTyped
  <2> QED
    BY <2>1, <2>2
<1> DEFINE dx == Centred(X, w)
           dy == Centred(Y, h)
<1>5. /\ dx \in Nat /\ dy \in Nat
      /\ w <= X => dx + w <= X
      /\ h <= Y => dy + h <= Y
      /\ X < w /\ X + w <= Word /\ X > 0 => dx >= X
      /\ Y < h /\ Y + h <= Word /\ Y > 0 => dy >= Y
  <2> HIDE DEF w, h, X, Y
  <2> QED
    BY <1>1, <1>2, <1>3, CentredIs
<1>6. m = [cols |-> size[1], rows |-> size[2], gop |-> g, width |-> X, height |-> Y,
           deltaX |-> dx, deltaY |-> dy]
  <2>1. size # <<0, 0>>
    OBVIOUS
  <2> QED
    BY <2>1 DEF ModeData
<1> HIDE DEF dx, dy, X, Y, m
<1>7. PageOf(m) = Rectangle(dx, dy, w, h) /\ Dots(g) = Rectangle(0, 0, X, Y)
  BY <1>6 DEF PageOf, Dots, X, Y
<1>8. Whole(m, g)
  <2> HIDE DEF w, h
  <2>1. CASE w <= X /\ h <= Y
    <3>1. Rectangle(dx, dy, w, h) \subseteq Rectangle(0, 0, X, Y)
      BY <1>1, <1>2, <1>5, <2>1, RectangleWithin
    <3> QED
      BY <1>7, <3>1 DEF Whole
  <2>2. CASE ~(w <= X /\ h <= Y)
    <3>1. X + w <= Word /\ Y + h <= Word
      BY <1>4, <2>2
    <3>2. Rectangle(dx, dy, w, h) \cap Rectangle(0, 0, X, Y) = {}
      <4>1. \/ X = 0 \/ Y = 0 \/ dx >= X \/ dy >= Y
        BY <1>1, <1>2, <1>5, <2>2, <3>1
      <4> QED
        BY <1>1, <1>2, <1>5, <4>1 DEF Rectangle
    <3> QED
      BY <1>7, <3>2 DEF Whole
  <2> QED
    BY <2>1, <2>2
<1>9. ModeFor(m, g)
  <2>1. m \in ModeRecord
    BY <1>1, <1>5, <1>6 DEF ModeRecord
  <2> QED
    BY <1>6, <1>8, <2>1 DEF ModeFor, X, Y
<1>10. ASSUME FitsOn(size, g)
       PROVE  Fits(m)
  BY <1>4, <1>6, <1>10 DEF Fits
<1> QED
  BY <1>9, <1>10 DEF m

\* A function on 1 .. n is a sequence of length n.
LEMMA FunctionIsSeq ==
    ASSUME NEW S, NEW n \in Nat, NEW f \in [1 .. n -> S]
    PROVE  f \in Seq(S) /\ Len(f) = n
<1>1. f \in Seq(S)
  BY SeqDef
<1>2. DOMAIN f = 1 .. n /\ DOMAIN f = 1 .. Len(f) /\ Len(f) \in Nat
  BY <1>1, LenProperties
<1> QED
  BY <1>1, <1>2

\* InitializeGraphicsConsoleTextMode makes the modes of one resolution.
LEMMA BuiltModes ==
    ASSUME NEW g \in 0 .. Len(GopModes) - 1
    PROVE  Built(InitializeGraphicsConsoleTextMode(g), g)
<1> DEFINE offered == Append(ModeTable, Most(g))
           sizes == CHOOSE f : f = [n \in 0 .. Len(offered) |->
               IF n = 0 THEN <<FirstMode, <<0, 0>>>> ELSE Extended(f[n - 1], offered[n], g)]
           all == sizes[Len(offered)]
           list == [i \in DOMAIN all |-> ModeData(all[i], g)]
<1>1. offered \in Seq(Nat \X Nat) /\ \A n \in 1 .. Len(offered) : offered[n][1] # 1
  <2>1. /\ ModeTable \in Seq((Nat \ {1}) \X Nat)
        /\ GlyphWidth \in Nat \ {0} /\ GlyphHeight \in Nat \ {0}
    BY ConsoleAssumption
  <2>2. Most(g) \in (Nat \ {1}) \X Nat
    BY <2>1, ResolutionTyped, QuotientIs DEF Most
  <2>3. offered \in Seq((Nat \ {1}) \X Nat)
    BY <2>1, <2>2
  <2> HIDE DEF offered
  <2>4. offered \in Seq(Nat \X Nat)
    BY <2>3
  <2>5. \A n \in 1 .. Len(offered) : offered[n] \in (Nat \ {1}) \X Nat
    BY <2>3
  <2> QED
    BY <2>4, <2>5
<1>2. InitializeGraphicsConsoleTextMode(g) = list
  BY DEF InitializeGraphicsConsoleTextMode
<1> HIDE DEF offered, sizes
<1>3. SizesOf(all, g)
  BY <1>1, GrowSizes DEF sizes
<1> HIDE DEF all
<1>4. all \in Seq(Nat \X Nat) /\ Len(all) \in Nat /\ DOMAIN all = 1 .. Len(all)
  BY <1>3 DEF SizesOf
<1>5. ASSUME NEW i \in 1 .. Len(all), i # 2
      PROVE  ModeFor(list[i], g) /\ (i >= 3 => Fits(list[i]))
  <2>1. all[i] \in Nat \X Nat
    BY <1>4
  <2>2. i = 1 \/ i \in 3 .. Len(all)
    BY <1>4, <1>5
  <2>3. /\ all[i][1] > 1 /\ all[i][2] > 0
        /\ all[i] = FirstMode \/ FitsOn(all[i], g)
        /\ i >= 3 => FitsOn(all[i], g)
    <3>1. CASE i = 1
      BY <1>3, <3>1, FirstModeIs DEF SizesOf
    <3>2. CASE i \in 3 .. Len(all)
      <4>1. all[i][1] > 1 /\ FitsOn(all[i], g)
        BY <1>3, <3>2 DEF SizesOf
      <4> QED
        BY <2>1, <4>1 DEF FitsOn
    <3> QED
      BY <2>2, <3>1, <3>2
  <2>4. list[i] = ModeData(all[i], g)
    BY <1>4
  <2> HIDE DEF list
  <2> QED
    BY <2>1, <2>3, <2>4, ModeOfSize
<1>6. /\ 2 \in 1 .. Len(all) /\ list[2] \in ModeRecord
      /\ list[2].cols = 0 /\ list[2].rows = 0 /\ Fits(list[2])
  <2>1. Len(all) >= 2 /\ all[2] = <<0, 0>>
    BY <1>3 DEF SizesOf
  <2>2. 2 \in 1 .. Len(all)
    BY <1>4, <2>1
  <2>3. list[2] = ModeData(<<0, 0>>, g)
    BY <1>4, <2>1, <2>2
  <2>4. ModeData(<<0, 0>>, g) = [cols |-> 0, rows |-> 0, gop |-> g, width |-> Resolution(g)[1],
            height |-> Resolution(g)[2], deltaX |-> 0, deltaY |-> 0]
    BY DEF ModeData
  <2>5. 0 * GlyphWidth = 0 /\ 0 * GlyphHeight = 0
    BY ConsoleAssumption
  <2> HIDE DEF list
  <2> QED
    BY <2>2, <2>3, <2>4, <2>5, ResolutionTyped DEF ModeRecord, Fits
<1>7. list \in [1 .. Len(all) -> ModeRecord]
  <2>1. \A i \in 1 .. Len(all) : list[i] \in ModeRecord
    BY <1>5, <1>6 DEF ModeFor
  <2>2. list = [i \in 1 .. Len(all) |-> list[i]]
    BY <1>4
  <2> HIDE DEF list
  <2> QED
    BY <2>1, <2>2
<1>8. \A i, j \in 1 .. Len(all) : list[i] = list[j] => i = j
  <2> SUFFICES ASSUME NEW i \in 1 .. Len(all), NEW j \in 1 .. Len(all), list[i] = list[j]
               PROVE  i = j
    OBVIOUS
  <2>1. \A k \in 1 .. Len(all) : list[k].cols = all[k][1] /\ list[k].rows = all[k][2]
    BY <1>4 DEF ModeData
  <2>2. all[i] \in Nat \X Nat /\ all[j] \in Nat \X Nat
    BY <1>4
  <2> HIDE DEF list
  <2>3. all[i][1] = all[j][1] /\ all[i][2] = all[j][2]
    BY <2>1
  <2>4. all[i] = all[j]
    BY <2>2, <2>3
  <2> QED
    BY <1>3, <2>4 DEF SizesOf
<1> HIDE DEF list
<1>9. list \in Seq(ModeRecord) /\ Len(list) = Len(all)
  BY <1>4, <1>7, FunctionIsSeq
<1>10. \A i \in 2 .. Len(list) : Fits(list[i])
  <2> SUFFICES ASSUME NEW i \in 2 .. Len(list)
               PROVE  Fits(list[i])
    OBVIOUS
  <2>1. i = 2 \/ (i # 2 /\ i >= 3 /\ i \in 1 .. Len(all))
    BY <1>4, <1>9
  <2> QED
    BY <1>5, <1>6, <2>1
<1>11. Len(list) >= 2
  BY <1>3, <1>9 DEF SizesOf
<1> QED
  BY <1>2, <1>5, <1>6, <1>8, <1>9, <1>10, <1>11 DEF Built

\* The mode that is preferred is none or has a size.
LEMMA PreferredMode ==
    ASSUME NEW g, NEW list, Built(list, g)
    PROVE  PreferMode(list) \in -1 .. Len(list) - 1 /\ PreferMode(list) # 1
<1>1. /\ list \in Seq(ModeRecord) /\ Len(list) \in Nat /\ DOMAIN list = 1 .. Len(list)
      /\ list[2].cols = 0
      /\ \A i \in 1 .. Len(list) : list[i].cols \in Nat
  <2>1. list \in Seq(ModeRecord) /\ list[2].cols = 0
    BY DEF Built
  <2>2. /\ Len(list) \in Nat /\ DOMAIN list = 1 .. Len(list)
        /\ \A i \in 1 .. Len(list) : list[i] \in ModeRecord
    BY <2>1
  <2>3. \A i \in 1 .. Len(list) : list[i].cols \in Nat
    BY <2>2 DEF ModeRecord
  <2> QED
    BY <2>1, <2>2, <2>3
<1>2. CASE PcdConOut[1] # 0 /\ PcdConOut[2] # 0
  <2> DEFINE at == {i \in DOMAIN list : <<list[i].cols, list[i].rows>> = PcdConOut}
  <2>1. PreferMode(list) = IF at = {} THEN -1 ELSE Min(at) - 1
    BY <1>2 DEF PreferMode
  <2>2. CASE at = {}
    BY <1>1, <2>1, <2>2
  <2>3. CASE at # {}
    <3>1. at \subseteq Nat /\ at \subseteq 1 .. Len(list)
      BY <1>1
    <3>2. \E x \in at : \A y \in at : x <= y
      BY <2>3, <3>1, LeastNat
    <3>3. Min(at) \in at
      <4> HIDE DEF at
      <4> QED
        BY <3>2 DEF Min
    <3>4. 2 \notin at
      <4> SUFFICES ASSUME 2 \in at
                   PROVE  FALSE
        OBVIOUS
      <4>1. <<list[2].cols, list[2].rows>> = PcdConOut
        OBVIOUS
      <4>2. PcdConOut[1] = list[2].cols
        BY <4>1
      <4> QED
        BY <1>1, <1>2, <4>2
    <3>5. PreferMode(list) = Min(at) - 1
      BY <2>1, <2>3
    <3> HIDE DEF at
    <3>6. Min(at) \in 1 .. Len(list) /\ Min(at) # 2
      BY <3>1, <3>3, <3>4
    <3> QED
      BY <1>1, <3>5, <3>6
  <2> QED
    BY <2>2, <2>3
<1>3. CASE ~(PcdConOut[1] # 0 /\ PcdConOut[2] # 0)
  <2> DEFINE N == Len(list)
             Grown(f, k) == f = [n \in 0 .. k |-> IF n = 0 THEN 0 ELSE LargerOf(list, f[n - 1], n)]
             best == CHOOSE f : Grown(f, N)
             S == {k \in 0 .. N : \E f : Grown(f, k)}
             Upto == {k \in 0 .. N : best[k] \in 0 .. k /\ best[k] # 2}
  <2>1. PreferMode(list) = best[N] - 1
    BY <1>3 DEF PreferMode
  <2>2. N \in Nat
    BY <1>1
  <2> HIDE DEF N, best
  <2>3. 0 \in S
    <3>1. Grown([n \in 0 .. 0 |-> 0], 0)
      OBVIOUS
    <3> HIDE DEF Grown
    <3> QED
      BY <2>2, <3>1
  <2>4. ASSUME NEW k \in 0 .. N - 1, k \in S
        PROVE  k + 1 \in S
    <3> HIDE DEF Grown
    <3>1. PICK f : Grown(f, k)
      BY <2>4
    <3> USE DEF Grown
    <3> DEFINE e == [n \in 0 .. k + 1 |-> IF n <= k THEN f[n] ELSE LargerOf(list, f[k], k + 1)]
    <3>2. ASSUME NEW n \in 0 .. k + 1
          PROVE  e[n] = IF n = 0 THEN 0 ELSE LargerOf(list, e[n - 1], n)
      <4>1. CASE n = k + 1
        BY <4>1
      <4>2. CASE n \in 0 .. k
        <5>1. e[n] = f[n]
          BY <4>2
        <5>2. f[n] = IF n = 0 THEN 0 ELSE LargerOf(list, f[n - 1], n)
          BY <3>1, <4>2
        <5>3. n # 0 => e[n - 1] = f[n - 1]
          BY <4>2
        <5> QED
          BY <5>1, <5>2, <5>3
      <4> QED
        BY <4>1, <4>2
    <3>3. DOMAIN e = 0 .. k + 1 /\ e = [n \in 0 .. k + 1 |-> e[n]]
      OBVIOUS
    <3> HIDE DEF e
    <3>4. Grown(e, k + 1)
      <4>1. e = [n \in 0 .. k + 1 |-> IF n = 0 THEN 0 ELSE LargerOf(list, e[n - 1], n)]
        BY <3>2, <3>3, Zenon
      <4> QED
        BY <4>1
    <3> HIDE DEF Grown
    <3> QED
      BY <2>2, <3>4
  <2>5. N \in S
    <3> HIDE DEF S
    <3>1. \A k \in 0 .. N : k \in S
      BY <2>2, <2>3, <2>4, CountUp
    <3> QED
      BY <2>2, <3>1
  <2>6. Grown(best, N)
    <3> HIDE DEF Grown
    <3>1. \E f : Grown(f, N)
      BY <2>5
    <3> QED
      BY <3>1 DEF best
  <2>7. best[0] = 0 /\ \A n \in 1 .. N : best[n] = LargerOf(list, best[n - 1], n)
    <3> DEFINE F(n) == IF n = 0 THEN 0 ELSE LargerOf(list, best[n - 1], n)
    <3>1. best = [n \in 0 .. N |-> F(n)]
      BY <2>6
    <3> HIDE DEF F
    <3>2. \A n \in 0 .. N : best[n] = F(n)
      BY <3>1
    <3>3. 0 \in 0 .. N /\ \A n \in 1 .. N : n \in 0 .. N /\ n # 0
      BY <2>2
    <3> QED
      BY <3>2, <3>3 DEF F
  <2> HIDE DEF Grown, S
  <2>8. 0 \in Upto
    BY <2>2, <2>7
  <2>9. ASSUME NEW k \in 0 .. N - 1, k \in Upto
        PROVE  k + 1 \in Upto
    <3>0. k + 1 \in 1 .. N /\ (k + 1) - 1 = k
      BY <2>2
    <3>1. best[k + 1] = LargerOf(list, best[k], k + 1)
      BY <2>7, <3>0
    <3>2. best[k] \in 0 .. k /\ best[k] # 2
      BY <2>9
    <3>3. best[k + 1] = k + 1 \/ best[k + 1] = best[k]
      BY <3>1 DEF LargerOf
    <3>4. k + 1 = 2 => best[k + 1] = best[k]
      <4> SUFFICES ASSUME k + 1 = 2
                   PROVE  LargerOf(list, best[k], k + 1) = best[k]
        BY <3>1
      <4>1. ~(list[k + 1].cols > (IF best[k] = 0 THEN 0 ELSE list[best[k]].cols))
        <5>1. list[k + 1].cols = 0
          BY <1>1
        <5>2. best[k] = 0 \/ list[best[k]].cols \in Nat
          BY <1>1, <3>0, <3>2 DEF N
        <5> QED
          BY <5>1, <5>2
      <4> QED
        BY <4>1 DEF LargerOf
    <3> QED
      BY <3>0, <3>2, <3>3, <3>4, <2>2
  <2>10. best[N] \in 0 .. N /\ best[N] # 2
    <3> HIDE DEF Upto
    <3>1. \A k \in 0 .. N : k \in Upto
      BY <2>2, <2>8, <2>9, CountUp
    <3>2. N \in Upto
      BY <2>2, <3>1
    <3> QED
      BY <3>2 DEF Upto
  <2> QED
    BY <2>1, <2>2, <2>10 DEF N
<1> QED
  BY <1>2, <1>3

-----------------------------------------------------------------------------
\* What holds between the variables beyond their types: the modes were made
\* for one resolution, the current one has a size, the cursor is on its page.
Consistent ==
    /\ IF started THEN \E g \in 0 .. Len(GopModes) - 1 : Built(modes, g)
       ELSE modes = <<>> /\ mode = -1
    /\ mode # 1
    /\ mode = -1 => ~visible
    /\ mode # -1 => column < Now.cols /\ row < Now.rows
    /\ started /\ mode # -1 /\ ~disturbed => gop = Now.gop

IInv == TypeOK /\ Consistent /\ CursorShown

\* A black screen is a screen.
LEMMA BlackScreenTyped ==
    ASSUME NEW g
    PROVE  BlackScreen(g) \in [Dots(g) -> Pixel]
BY DEF BlackScreen, Plain, Pixel

\* A mode with a size is one for the resolution they were made for.
LEMMA ModeIs ==
    ASSUME NEW g \in 0 .. Len(GopModes) - 1, Built(modes, g),
           NEW n \in 0 .. Len(modes) - 1, n # 1
    PROVE  ModeFor(modes[n + 1], g)
<1>1. modes \in Seq(ModeRecord) /\ \A i \in 1 .. Len(modes) : i # 2 => ModeFor(modes[i], g)
  BY DEF Built
<1>2. n + 1 \in 1 .. Len(modes) /\ n + 1 # 2
  BY <1>1
<1> QED
  BY <1>1, <1>2

\* What a mode with a size is.
LEMMA ModeForIs ==
    ASSUME NEW m, NEW g, ModeFor(m, g)
    PROVE  /\ m.cols \in Nat /\ m.rows \in Nat /\ m.cols > 1 /\ m.rows > 0 /\ m.gop = g
           /\ m.width = Resolution(g)[1] /\ m.height = Resolution(g)[2]
           /\ m.deltaX \in Nat /\ m.deltaY \in Nat /\ Whole(m, g)
BY DEF ModeFor, ModeRecord

\* With a mode, the functions that draw have what they need.
LEMMA ReadyNow ==
    ASSUME TypeOK, Consistent, mode # -1
    PROVE  /\ Ready /\ Inside(Here)
           /\ Now.gop \in 0 .. Len(GopModes) - 1
           /\ ModeFor(Now, Now.gop)
           /\ gop = Now.gop => Whole(Now, gop)
           /\ ~disturbed => gop = Now.gop
<1>1. started /\ mode \in 0 .. Len(modes) - 1 /\ mode # 1
  BY DEF TypeOK, Consistent
<1>2. PICK g \in 0 .. Len(GopModes) - 1 : Built(modes, g)
  BY <1>1 DEF Consistent
<1>3. ModeFor(Now, g)
  BY <1>1, <1>2, ModeIs DEF Now
<1>4. /\ Now.cols \in Nat /\ Now.rows \in Nat /\ Now.cols > 1 /\ Now.rows > 0 /\ Now.gop = g
      /\ Now.deltaX \in Nat /\ Now.deltaY \in Nat /\ Whole(Now, g)
  BY <1>3, ModeForIs
<1>5. Ready
  BY <1>4 DEF Ready, TypeOK
<1>6. Here \in Canvas /\ Here.col = column /\ Here.row = row
  BY DEF Here, Canvas, TypeOK
<1>7. Inside(Here)
  BY <1>6 DEF Inside, Consistent
<1>8. ~disturbed => gop = Now.gop
  BY <1>1 DEF Consistent
<1> QED
  BY <1>3, <1>4, <1>5, <1>7, <1>8

\* The screen shows the cursor and nothing else inverted.
LEMMA HereMarked ==
    ASSUME IInv, mode # -1, ~disturbed
    PROVE  Marked(Here)
<1>1. started /\ DOMAIN screen = Dots(gop)
  BY DEF IInv, TypeOK, Consistent
<1>2. \A p \in Dots(gop) :
        /\ screen[p].inv = IF visible /\ p \in Cell(Here) THEN Foreground(attribute) ELSE {}
        /\ screen[p].shows = Blank \/ p \in PageOf(Now)
  BY <1>1 DEF IInv, CursorShown
<1>3. Here.s = screen
  BY DEF Here
<1> QED
  BY <1>2, <1>3 DEF Marked, Colours

\* A function that leaves the cursor on the page, drawn if nobody disturbed it.
LEMMA LeavesSound ==
    ASSUME IInv, mode # -1, NEW c, Inside(c), Leaves(c),
           UNCHANGED <<gop, started, modes, mode, visible>>,
           attribute' \in 0 .. 127, Foreground(attribute') = Foreground(attribute),
           line' \in {"null", "live", "freed"}, disturbed' \in BOOLEAN,
           ~disturbed' => gop = Now.gop /\ Marked(c)
    PROVE  IInv'
<1>1. /\ c.s \in [Dots(gop) -> Pixel] /\ c.col \in Nat /\ c.row \in Nat
      /\ c.col < Now.cols /\ c.row < Now.rows
  BY DEF Inside, Canvas
<1>2. screen' = c.s /\ column' = c.col /\ row' = c.row
  BY DEF Leaves
<1>3. TypeOK'
  BY <1>1, <1>2 DEF IInv, TypeOK
<1>4. Now' = Now
  BY DEF Now
<1>5. Consistent'
  BY <1>1, <1>2, <1>4 DEF IInv, Consistent
<1>6. CursorShown'
  <2> SUFFICES ASSUME started', mode' # -1, ~disturbed', NEW p \in DOMAIN screen'
               PROVE  /\ screen'[p].inv = IF visible' /\ p \in Cell(Here)'
                                          THEN Foreground(attribute') ELSE {}
                      /\ screen'[p].shows = Blank \/ p \in PageOf(Now')
    BY DEF CursorShown
  <2>1. Cell(Here)' = Cell(c)
    BY <1>2, <1>4 DEF Cell, CellX, CellY, Here
  <2>2. p \in Dots(gop) /\ Marked(c)
    BY <1>1, <1>2
  <2> QED
    BY <1>2, <1>4, <2>1, <2>2 DEF Marked, Colours
<1> QED
  BY <1>3, <1>5, <1>6 DEF IInv

\* While a string is written the cursor is on the page and not drawn.
LEMMA StringWritten ==
    ASSUME IInv, mode # -1, NEW str \in Seq(Chars \cup Controls),
           NEW after, after = CHOOSE f : f = [n \in 0 .. Len(str) |->
               IF n = 0 THEN FlushCursor(Here) ELSE Item(f[n - 1], str[n])]
    PROVE  /\ after[0] = FlushCursor(Here)
           /\ \A n \in 1 .. Len(str) : after[n] = Item(after[n - 1], str[n])
           /\ \A n \in 0 .. Len(str) : Inside(after[n]) /\ (~disturbed => Bare(after[n]))
<1> DEFINE N == Len(str)
           base == FlushCursor(Here)
           Grown(f, k) == f = [n \in 0 .. k |-> IF n = 0 THEN base ELSE Item(f[n - 1], str[n])]
           S == {k \in 0 .. N : \E f : Grown(f, k)}
<1>1. N \in Nat
  OBVIOUS
<1> HIDE DEF N, base
<1>2. 0 \in S
  <2>1. Grown([n \in 0 .. 0 |-> base], 0)
    OBVIOUS
  <2> HIDE DEF Grown
  <2> QED
    BY <1>1, <2>1
<1>3. ASSUME NEW k \in 0 .. N - 1, k \in S
      PROVE  k + 1 \in S
  <2> HIDE DEF Grown
  <2>1. PICK f : Grown(f, k)
    BY <1>3
  <2> USE DEF Grown
  <2> DEFINE e == [n \in 0 .. k + 1 |-> IF n <= k THEN f[n] ELSE Item(f[k], str[k + 1])]
  <2>2. ASSUME NEW n \in 0 .. k + 1
        PROVE  e[n] = IF n = 0 THEN base ELSE Item(e[n - 1], str[n])
    <3>1. CASE n = k + 1
      BY <3>1
    <3>2. CASE n \in 0 .. k
      <4>1. e[n] = f[n]
        BY <3>2
      <4>2. f[n] = IF n = 0 THEN base ELSE Item(f[n - 1], str[n])
        BY <2>1, <3>2
      <4>3. n # 0 => e[n - 1] = f[n - 1]
        BY <3>2
      <4> QED
        BY <4>1, <4>2, <4>3
    <3> QED
      BY <3>1, <3>2
  <2>3. DOMAIN e = 0 .. k + 1 /\ e = [n \in 0 .. k + 1 |-> e[n]]
    OBVIOUS
  <2> HIDE DEF e
  <2>4. Grown(e, k + 1)
    <3>1. e = [n \in 0 .. k + 1 |-> IF n = 0 THEN base ELSE Item(e[n - 1], str[n])]
      BY <2>2, <2>3, Zenon
    <3> QED
      BY <3>1
  <2> HIDE DEF Grown
  <2> QED
    BY <1>1, <2>4
<1>4. N \in S
  <2> HIDE DEF S
  <2>1. \A k \in 0 .. N : k \in S
    BY <1>1, <1>2, <1>3, CountUp
  <2> QED
    BY <1>1, <2>1
<1>5. Grown(after, N)
  <2>2. after = CHOOSE f : Grown(f, N)
    BY DEF N, base
  <2> HIDE DEF Grown
  <2>1. \E f : Grown(f, N)
    BY <1>4
  <2> QED
    BY <2>1, <2>2
<1>6. after[0] = base /\ \A n \in 1 .. N : after[n] = Item(after[n - 1], str[n])
  <2> DEFINE F(n) == IF n = 0 THEN base ELSE Item(after[n - 1], str[n])
  <2>1. after = [n \in 0 .. N |-> F(n)]
    BY <1>5
  <2> HIDE DEF F
  <2>2. \A n \in 0 .. N : after[n] = F(n)
    BY <2>1
  <2>3. 0 \in 0 .. N /\ \A n \in 1 .. N : n \in 0 .. N /\ n # 0
    BY <1>1
  <2> QED
    BY <2>2, <2>3 DEF F
<1> HIDE DEF Grown, S
<1> DEFINE Fine(c) == Inside(c) /\ (~disturbed => Bare(c))
           G == {k \in 0 .. N : Fine(after[k])}
<1>7. Ready /\ Inside(Here) /\ (~disturbed => Whole(Now, gop))
  BY ReadyNow DEF IInv
<1>8. Fine(base)
  <2>1. Inside(base)
    BY <1>7, FlushTyped DEF Inside, base
  <2>2. ASSUME ~disturbed
        PROVE  Bare(base)
    BY <1>7, <2>2, HereMarked, FlushBares DEF base
  <2> QED
    BY <2>1, <2>2
<1>9. ASSUME NEW c, Fine(c), NEW ch \in Chars \cup Controls
      PROVE  Fine(Item(c, ch))
  <2>1. Inside(Item(c, ch))
    BY <1>7, <1>9, ItemTyped
  <2>2. ASSUME ~disturbed
        PROVE  Bare(Item(c, ch))
    BY <1>7, <1>9, <2>2, ItemBares
  <2> QED
    BY <2>1, <2>2
<1> HIDE DEF Fine
<1>10. 0 \in G
  BY <1>1, <1>6, <1>8
<1>11. ASSUME NEW k \in 0 .. N - 1, k \in G
       PROVE  k + 1 \in G
  <2>1. k + 1 \in 1 .. N /\ (k + 1) - 1 = k
    BY <1>1
  <2>2. after[k + 1] = Item(after[k], str[k + 1])
    BY <1>6, <2>1
  <2>3. str[k + 1] \in Chars \cup Controls
    BY <2>1 DEF N
  <2>4. Fine(after[k + 1])
    BY <1>9, <1>11, <2>2, <2>3
  <2> QED
    BY <2>1, <2>4
<1> HIDE DEF G
<1>12. \A k \in 0 .. N : k \in G
  BY <1>1, <1>10, <1>11, CountUp
<1>13. \A k \in 0 .. N : Fine(after[k])
  BY <1>12 DEF G
<1> QED
  BY <1>6, <1>13 DEF N, base, Fine

\* OutputString keeps the invariant.
LEMMA OutputStringSound ==
    ASSUME IInv, NEW str \in Strings, OutputString(str)
    PROVE  IInv'
<1> DEFINE after == CHOOSE f : f = [n \in 0 .. Len(str) |->
               IF n = 0 THEN FlushCursor(Here) ELSE Item(f[n - 1], str[n])]
           d == after[Len(str)]
<1>1. str \in Seq(Chars \cup Controls)
  BY ConsoleAssumption
<1>2. /\ mode # -1 /\ Leaves(FlushCursor(d))
      /\ UNCHANGED <<gop, started, modes, mode, attribute, visible, line, disturbed>>
  BY DEF OutputString
<1> HIDE DEF after
<1>3. Inside(d) /\ (~disturbed => Bare(d))
  <2>1. Len(str) \in 0 .. Len(str)
    BY <1>1
  <2> QED
    BY <1>1, <1>2, <2>1, StringWritten DEF after
<1> HIDE DEF d
<1>4. Ready /\ (~disturbed => gop = Now.gop /\ Whole(Now, gop))
  BY <1>2, ReadyNow DEF IInv
<1>5. Inside(FlushCursor(d))
  BY <1>3, <1>4, FlushTyped DEF Inside
<1>6. ~disturbed => Marked(FlushCursor(d))
  BY <1>3, <1>4, FlushMarks
<1>7. attribute \in 0 .. 127 /\ line \in {"null", "live", "freed"} /\ disturbed \in BOOLEAN
  BY DEF IInv, TypeOK
<1> QED
  BY <1>2, <1>4, <1>5, <1>6, <1>7, LeavesSound

-----------------------------------------------------------------------------
\* Painting what a mode spans of its own resolution leaves a black screen.
LEMMA PaintAll ==
    ASSUME NEW m, ModeFor(m, gop), NEW s \in [Dots(gop) -> Pixel]
    PROVE  Paint(s, Rectangle(0, 0, m.width, m.height), Blank) = BlackScreen(gop)
<1>1. Rectangle(0, 0, m.width, m.height) = Dots(gop)
  BY ModeForIs DEF Dots
<1> QED
  BY <1>1 DEF Paint, BlackScreen

\* A cleared page has the cursor in its corner and nothing else.
LEMMA ClearedIs ==
    ASSUME IInv, mode # -1
    PROVE  /\ Inside(Cleared(Now)) /\ Cleared(Now).col = 0 /\ Cleared(Now).row = 0
           /\ gop = Now.gop => Marked(Cleared(Now)) /\ Bare(FlushCursor(Cleared(Now)))
                               /\ FlushCursor(Cleared(Now)).s = BlackScreen(gop)
<1> DEFINE s == Paint(screen, Rectangle(0, 0, Now.width, Now.height), Blank)
           c == [Here EXCEPT !.s = s, !.col = 0, !.row = 0]
<1>1. /\ Ready /\ Inside(Here) /\ ModeFor(Now, Now.gop)
      /\ gop = Now.gop => Whole(Now, gop)
  BY ReadyNow DEF IInv
<1>2. screen \in [Dots(gop) -> Pixel]
  BY DEF IInv, TypeOK
<1>3. s \in [Dots(gop) -> Pixel]
  BY <1>2, PaintTyped
<1>4. gop = Now.gop => s = BlackScreen(gop)
  BY <1>1, <1>2, PaintAll
<1>5. Cleared(Now) = FlushCursor(c)
  BY DEF Cleared, Here
<1> HIDE DEF s
<1>6. c \in Canvas /\ c.col = 0 /\ c.row = 0 /\ c.s = s
  BY <1>1, <1>3 DEF Inside, Canvas
<1> HIDE DEF c
<1>7. Inside(c)
  BY <1>1, <1>6 DEF Inside, Ready
<1>8. Inside(FlushCursor(c)) /\ FlushCursor(c).col = 0 /\ FlushCursor(c).row = 0
  BY <1>1, <1>6, <1>7, FlushTyped DEF Inside
<1>9. ASSUME gop = Now.gop
      PROVE  Marked(FlushCursor(c)) /\ Bare(FlushCursor(FlushCursor(c)))
             /\ FlushCursor(FlushCursor(c)).s = BlackScreen(gop)
  <2>1. Bare(c)
    BY <1>4, <1>6, <1>9 DEF Bare, BlackScreen, Plain
  <2>2. Marked(FlushCursor(c))
    BY <1>1, <1>7, <1>9, <2>1, FlushMarks
  <2>3. FlushCursor(FlushCursor(c)) = c
    BY <1>1, <1>6, FlushTwice
  <2> QED
    BY <1>4, <1>6, <1>9, <2>1, <2>2, <2>3
<1> QED
  BY <1>5, <1>8, <1>9

\* ClearScreen keeps the invariant.
LEMMA ClearScreenSound ==
    ASSUME IInv, ClearScreen
    PROVE  IInv'
<1>1. /\ mode # -1 /\ Leaves(Cleared(Now)) /\ disturbed' = (disturbed /\ gop # Now.gop)
      /\ UNCHANGED <<gop, started, modes, mode, attribute, visible, line>>
  BY DEF ClearScreen
<1>2. Inside(Cleared(Now)) /\ (gop = Now.gop => Marked(Cleared(Now)))
  BY <1>1, ClearedIs
<1>3. disturbed' \in BOOLEAN /\ (~disturbed' => gop = Now.gop)
  <2>1. ~disturbed => gop = Now.gop
    BY <1>1, ReadyNow DEF IInv
  <2>2. disturbed \in BOOLEAN
    BY DEF IInv, TypeOK
  <2> QED
    BY <1>1, <2>1, <2>2
<1>4. attribute \in 0 .. 127 /\ line \in {"null", "live", "freed"}
  BY DEF IInv, TypeOK
<1> QED
  BY <1>1, <1>2, <1>3, <1>4, LeavesSound

\* SetCursorPosition keeps the invariant.
LEMMA SetCursorPositionSound ==
    ASSUME IInv, NEW p \in Positions, SetCursorPosition(p[1], p[2])
    PROVE  IInv'
<1> DEFINE x == p[1]
           y == p[2]
           b == FlushCursor(Here)
           c == [b EXCEPT !.col = x, !.row = y]
<1>1. x \in Nat /\ y \in Nat
  BY ConsoleAssumption
<1>2. /\ mode # -1 /\ x < Now.cols /\ y < Now.rows
      /\ Leaves(FlushCursor(c))
      /\ UNCHANGED <<gop, started, modes, mode, attribute, visible, line, disturbed>>
  BY DEF SetCursorPosition
<1> HIDE DEF x, y
<1>3. /\ Ready /\ Inside(Here)
      /\ ~disturbed => gop = Now.gop /\ Whole(Now, gop)
  BY <1>2, ReadyNow DEF IInv
<1>4. b \in Canvas /\ (~disturbed => Bare(b))
  BY <1>2, <1>3, FlushTyped, HereMarked, FlushBares DEF Inside
<1> HIDE DEF b
<1>5. c \in Canvas /\ c.col = x /\ c.row = y /\ c.s = b.s
  BY <1>1, <1>4 DEF Canvas
<1> HIDE DEF c
<1>6. Inside(c) /\ (~disturbed => Bare(c))
  BY <1>2, <1>4, <1>5 DEF Inside, Bare
<1>7. Inside(FlushCursor(c)) /\ (~disturbed => Marked(FlushCursor(c)))
  BY <1>3, <1>6, FlushMarks, FlushTyped DEF Inside
<1>8. attribute \in 0 .. 127 /\ line \in {"null", "live", "freed"} /\ disturbed \in BOOLEAN
  BY DEF IInv, TypeOK
<1> QED
  BY <1>2, <1>3, <1>7, <1>8, LeavesSound

\* The place of the cursor, and inverting there.
LEMMA HereIs ==
    ASSUME IInv, mode # -1
    PROVE  /\ Cell(Here) \subseteq PageOf(Now)
           /\ screen \in [Dots(gop) -> Pixel]
           /\ \A k \in SUBSET (0 .. 15) : Invert(screen, Cell(Here), k) \in [Dots(gop) -> Pixel]
<1>1. Ready /\ Inside(Here)
  BY ReadyNow DEF IInv
<1>2. Cell(Here) \subseteq PageOf(Now)
  BY <1>1, CellInPage
<1>3. screen \in [Dots(gop) -> Pixel]
  BY DEF IInv, TypeOK
<1> QED
  BY <1>2, <1>3, InvertTyped

\* SetAttribute keeps the invariant: the cursor is inverted back with the old
\* colour and anew with the next.
LEMMA SetAttributeSound ==
    ASSUME IInv, NEW a \in Attributes, SetAttribute(a)
    PROVE  IInv'
<1>1. /\ started /\ attribute' = a
      /\ screen' = IF visible THEN Recoloured(screen, Cell(Here), a) ELSE screen
      /\ UNCHANGED <<gop, started, modes, mode, column, row, visible, line, disturbed>>
  BY DEF SetAttribute
<1>2. a \in 0 .. 127
  BY ConsoleAssumption
<1>3. Now' = Now /\ Cell(Here)' = Cell(Here)
  BY <1>1 DEF Now, Cell, CellX, CellY, Here
<1> DEFINE k  == Foreground(attribute)
           l  == Foreground(a)
           s1 == Invert(screen, Cell(Here), k)
           s2 == Invert(s1, Cell(Here), l)
<1>4. k \in SUBSET (0 .. 15) /\ l \in SUBSET (0 .. 15) /\ screen \in [Dots(gop) -> Pixel]
  BY <1>2, ForegroundTyped DEF IInv, TypeOK
<1>5. s1 \in [Dots(gop) -> Pixel]
  BY <1>4, InvertTyped
<1>6. s2 \in [Dots(gop) -> Pixel]
  <2> HIDE DEF s1, k, l
  <2> QED
    BY <1>4, <1>5, InvertTyped
<1>7. screen' = IF visible THEN s2 ELSE screen
  BY <1>1 DEF Recoloured
<1> HIDE DEF s1, s2
<1>8. screen' \in [Dots(gop) -> Pixel]
  BY <1>4, <1>6, <1>7
<1>9. TypeOK'
  BY <1>1, <1>2, <1>8 DEF IInv, TypeOK
<1>10. Consistent'
  BY <1>1, <1>3 DEF IInv, Consistent
<1>11. CursorShown'
  <2> SUFFICES ASSUME started', mode' # -1, ~disturbed', NEW p \in DOMAIN screen'
               PROVE  /\ screen'[p].inv = IF visible' /\ p \in Cell(Here)'
                                          THEN Foreground(attribute') ELSE {}
                      /\ screen'[p].shows = Blank \/ p \in PageOf(Now')
    BY DEF CursorShown
  <2>1. mode # -1 /\ ~disturbed /\ p \in Dots(gop) /\ visible' = visible
    BY <1>1, <1>8
  <2>2. /\ screen[p].inv = IF visible /\ p \in Cell(Here) THEN k ELSE {}
        /\ screen[p].shows = Blank \/ p \in PageOf(Now)
    BY <1>1, <1>4, <2>1 DEF IInv, CursorShown
  <2>3. Whole(Now, gop) /\ Cell(Here) \subseteq PageOf(Now)
    BY <2>1, ReadyNow, HereIs DEF IInv
  <2>4. CASE visible
    <3> HIDE DEF k, l
    <3>1. /\ s1[p].shows = screen[p].shows
          /\ s1[p].inv = IF p \in Cell(Here) THEN Toggled(screen[p].inv, k) ELSE screen[p].inv
      BY <1>4, <2>1, <2>3, InvertOnPage DEF s1
    <3>2. /\ s2[p].shows = s1[p].shows
          /\ s2[p].inv = IF p \in Cell(Here) THEN Toggled(s1[p].inv, l) ELSE s1[p].inv
      BY <1>5, <2>1, <2>3, InvertOnPage DEF s2
    <3>3. Toggled(k, k) = {} /\ Toggled({}, l) = l
      BY DEF Toggled
    <3> QED
      BY <1>1, <1>3, <1>7, <2>1, <2>2, <2>4, <3>1, <3>2, <3>3 DEF l
  <2>5. CASE ~visible
    BY <1>1, <1>3, <1>7, <2>1, <2>2, <2>5
  <2> QED
    BY <2>4, <2>5
<1> QED
  BY <1>9, <1>10, <1>11 DEF IInv

\* EnableCursor keeps the invariant.
LEMMA EnableCursorSound ==
    ASSUME IInv, NEW v \in BOOLEAN, EnableCursor(v)
    PROVE  IInv'
<1> DEFINE k == Foreground(attribute)
           s == Invert(screen, Cell(Here), k)
<1>1. /\ started /\ mode # -1 /\ visible' = v
      /\ screen' = IF visible = v THEN screen ELSE s
      /\ UNCHANGED <<gop, started, modes, mode, attribute, column, row, line, disturbed>>
  BY DEF EnableCursor
<1>2. k \in SUBSET (0 .. 15) /\ screen \in [Dots(gop) -> Pixel]
  BY ForegroundTyped DEF IInv, TypeOK
<1>3. s \in [Dots(gop) -> Pixel]
  BY <1>2, InvertTyped
<1>4. Now' = Now /\ Cell(Here)' = Cell(Here)
  BY <1>1 DEF Now, Cell, CellX, CellY, Here
<1> HIDE DEF s
<1>5. screen' \in [Dots(gop) -> Pixel]
  BY <1>1, <1>2, <1>3
<1>6. TypeOK'
  BY <1>1, <1>5 DEF IInv, TypeOK
<1>7. Consistent'
  BY <1>1, <1>4 DEF IInv, Consistent
<1>8. CursorShown'
  <2> SUFFICES ASSUME started', mode' # -1, ~disturbed', NEW p \in DOMAIN screen'
               PROVE  /\ screen'[p].inv = IF visible' /\ p \in Cell(Here)'
                                          THEN Foreground(attribute') ELSE {}
                      /\ screen'[p].shows = Blank \/ p \in PageOf(Now')
    BY DEF CursorShown
  <2>1. ~disturbed /\ p \in Dots(gop)
    BY <1>1, <1>5
  <2>2. /\ screen[p].inv = IF visible /\ p \in Cell(Here) THEN k ELSE {}
        /\ screen[p].shows = Blank \/ p \in PageOf(Now)
    BY <1>1, <1>2, <2>1 DEF IInv, CursorShown
  <2>3. Whole(Now, gop) /\ Cell(Here) \subseteq PageOf(Now)
    BY <1>1, <2>1, ReadyNow, HereIs DEF IInv
  <2>4. CASE visible = v
    BY <1>1, <1>4, <2>2, <2>4
  <2>5. CASE visible # v
    <3>1. /\ s[p].shows = screen[p].shows
          /\ s[p].inv = IF p \in Cell(Here) THEN Toggled(screen[p].inv, k) ELSE screen[p].inv
      BY <1>2, <2>1, <2>3, InvertOnPage DEF s
    <3>2. Toggled(k, k) = {} /\ Toggled({}, k) = k
      BY DEF Toggled
    <3>3. visible \in BOOLEAN
      BY DEF IInv, TypeOK
    <3>4. screen' = s /\ (visible' <=> ~visible) /\ attribute' = attribute
      BY <1>1, <2>5, <3>3
    <3> HIDE DEF k
    <3>5. s[p].inv = IF ~visible /\ p \in Cell(Here) THEN k ELSE {}
      BY <2>2, <3>1, <3>2, <3>3
    <3> QED
      BY <1>4, <2>2, <3>1, <3>4, <3>5 DEF k
  <2> QED
    BY <2>4, <2>5
<1> QED
  BY <1>6, <1>7, <1>8 DEF IInv

-----------------------------------------------------------------------------
\* The screen with the cursor erased, when it is.
Erased == IF line = "null" THEN screen ELSE FlushCursor(Here).s

\* The screen stays a screen where the cursor is erased.
LEMMA ErasedTyped ==
    ASSUME IInv
    PROVE  /\ Here \in Canvas /\ FlushCursor(Here) \in Canvas
           /\ Erased \in [Dots(gop) -> Pixel]
<1>1. /\ screen \in [Dots(gop) -> Pixel] /\ visible \in BOOLEAN
      /\ column \in Nat /\ row \in Nat
  BY DEF IInv, TypeOK
<1>2. Here \in Canvas
  BY <1>1 DEF Here, Canvas
<1>3. FlushCursor(Here) \in Canvas
  <2>1. CASE mode = -1
    <3>1. ~visible
      BY <2>1 DEF IInv, Consistent
    <3>2. FlushCursor(Here) = Here
      BY <3>1 DEF FlushCursor
    <3> QED
      BY <1>2, <3>2
  <2>2. CASE mode # -1
    <3>1. Ready
      BY <2>2, ReadyNow DEF IInv
    <3> QED
      BY <1>2, <3>1, FlushTyped
  <2> QED
    BY <2>1, <2>2
<1>4. FlushCursor(Here).s \in [Dots(gop) -> Pixel]
  BY <1>3 DEF Canvas
<1> QED
  BY <1>1, <1>2, <1>3, <1>4 DEF Erased

\* What SetMode leaves where: nothing new, a page cleared, a half-done change,
\* or the new mode on a black screen with the cursor in its corner.
LEMMA AfterSetModeIs ==
    ASSUME IInv, started, NEW n \in 0 .. Len(modes) - 1, NEW allocates, NEW failing
    PROVE  LET r == AfterSetMode(n, allocates, failing)
               m == modes[n + 1]
           IN  \/ r = Unchanged
               \/ /\ mode # -1
                  /\ r = [Unchanged EXCEPT !.ok = TRUE, !.s = Cleared(Now).s, !.col = 0, !.row = 0,
                                           !.disturbed = disturbed /\ gop # Now.gop]
               \/ \E l \in {"null", "live", "freed"} :
                    r = [Unchanged EXCEPT !.s = Erased,
                                          !.disturbed = TRUE, !.line = l]
               \/ /\ n # 1 /\ m.gop \in 0 .. Len(GopModes) - 1 /\ ModeFor(m, m.gop)
                  /\ r = [ok |-> TRUE, gop |-> m.gop, s |-> Corner(BlackScreen(m.gop), m),
                          mode |-> n, col |-> 0, row |-> 0, line |-> "live",
                          disturbed |-> FALSE]
<1> DEFINE r == AfterSetMode(n, allocates, failing)
           m == modes[n + 1]
           enters(s) == [ok |-> TRUE, gop |-> m.gop, s |-> Corner(s, m), mode |-> n, col |-> 0,
                         row |-> 0, line |-> "live", disturbed |-> FALSE]
<1>1. PICK g \in 0 .. Len(GopModes) - 1 : Built(modes, g)
  BY DEF IInv, Consistent
<1>2. line \in {"null", "live", "freed"}
  BY DEF IInv, TypeOK
<1>3. CASE m.cols = 0 /\ m.rows = 0
  BY <1>3 DEF AfterSetMode
<1>4. CASE ~(m.cols = 0 /\ m.rows = 0)
  <2>1. n # 1
    BY <1>1, <1>4 DEF Built
  <2>2. ModeFor(m, g) /\ m.gop = g
    <3>1. ModeFor(m, g)
      BY <1>1, <2>1, ModeIs
    <3> QED
      BY <3>1, ModeForIs
  <2>3. CASE line # "null" /\ n = mode
    <3>1. r = [Unchanged EXCEPT !.ok = TRUE, !.s = Cleared(Now).s, !.col = 0, !.row = 0,
                                !.disturbed = disturbed /\ gop # Now.gop]
      BY <1>4, <2>3, Zenon DEF AfterSetMode, Unchanged
    <3>2. mode # -1
      BY <2>3
    <3> QED
      BY <3>1, <3>2
  <2>4. CASE ~(line # "null" /\ n = mode)
    <3>1. CASE ~allocates \/ (m.gop # gop /\ m.gop \in failing)
      <4> DEFINE l == IF allocates THEN "live" ELSE IF line = "null" THEN line ELSE "freed"
      <4>1. r = [Unchanged EXCEPT !.s = Erased, !.disturbed = TRUE, !.line = l]
        BY <1>4, <2>4, <3>1 DEF AfterSetMode, Erased
      <4>2. l \in {"null", "live", "freed"}
        BY <1>2
      <4> QED
        BY <4>1, <4>2
    <3>2. CASE ~(~allocates \/ (m.gop # gop /\ m.gop \in failing))
      <4>1. CASE m.gop # gop
        <5>1. r = enters(BlackScreen(m.gop))
          BY <1>4, <2>4, <3>2, <4>1 DEF AfterSetMode
        <5> QED
          BY <2>1, <2>2, <5>1
      <4>2. CASE m.gop = gop
        <5>1. r = enters(Paint(Erased, Rectangle(0, 0, m.width, m.height), Blank))
          BY <1>4, <2>4, <3>2, <4>2 DEF AfterSetMode, Erased
        <5>2. Erased \in [Dots(gop) -> Pixel]
          BY ErasedTyped
        <5> HIDE DEF m
        <5>3. Paint(Erased, Rectangle(0, 0, m.width, m.height), Blank) = BlackScreen(m.gop)
          BY <2>2, <4>2, <5>2, PaintAll
        <5> QED
          BY <2>1, <2>2, <5>1, <5>3 DEF m
      <4> QED
        BY <4>1, <4>2
    <3> QED
      BY <3>1, <3>2
  <2> QED
    BY <2>3, <2>4
<1> QED
  BY <1>3, <1>4

\* A mode entered on a black screen shows the cursor in its corner.
LEMMA CornerShown ==
    ASSUME NEW m, NEW g, ModeFor(m, g), attribute \in 0 .. 127
    PROVE  LET c == Corner(BlackScreen(g), m)
               area == Rectangle(m.deltaX, m.deltaY, GlyphWidth, GlyphHeight)
           IN  /\ c \in [Dots(g) -> Pixel] /\ area \subseteq PageOf(m)
               /\ \A p \in Dots(g) :
                    /\ c[p].inv = IF visible /\ p \in area THEN Foreground(attribute) ELSE {}
                    /\ c[p].shows = Blank
<1> DEFINE c == Corner(BlackScreen(g), m)
           area == Rectangle(m.deltaX, m.deltaY, GlyphWidth, GlyphHeight)
           k == Foreground(attribute)
           b == BlackScreen(g)
<1>1. /\ GlyphWidth \in Nat /\ GlyphHeight \in Nat
      /\ m.cols \in Nat /\ m.rows \in Nat /\ 1 <= m.cols /\ 1 <= m.rows
      /\ m.deltaX \in Nat /\ m.deltaY \in Nat /\ Whole(m, g)
  BY SMTT(40), ConsoleAssumption, ModeForIs
<1>2. area \subseteq PageOf(m)
  <2>1. 1 * GlyphWidth <= m.cols * GlyphWidth /\ 1 * GlyphHeight <= m.rows * GlyphHeight
    BY <1>1, TimesMonotone
  <2>2. m.cols * GlyphWidth \in Nat /\ m.rows * GlyphHeight \in Nat
    BY <1>1, TimesNat
  <2> DEFINE w == m.cols * GlyphWidth
             h == m.rows * GlyphHeight
  <2>3. w \in Nat /\ h \in Nat /\ GlyphWidth <= w /\ GlyphHeight <= h
    BY <1>1, <2>1, <2>2
  <2>4. PageOf(m) = Rectangle(m.deltaX, m.deltaY, w, h)
    BY DEF PageOf
  <2> HIDE DEF w, h
  <2> QED
    BY <1>1, <2>3, <2>4, RectangleWithin
<1>3. b \in [Dots(g) -> Pixel] /\ k \in SUBSET (0 .. 15)
  BY BlackScreenTyped, ForegroundTyped
<1>4. \A p \in Dots(g) : b[p].inv = {} /\ b[p].shows = Blank
  BY DEF BlackScreen, Plain
<1>5. c = IF visible THEN Invert(b, area, k) ELSE b
  BY DEF Corner
<1>6. Toggled({}, k) = k
  BY DEF Toggled
<1> HIDE DEF c, area, k, b
<1>7. Invert(b, area, k) \in [Dots(g) -> Pixel]
  BY <1>3, InvertTyped
<1>8. ASSUME NEW p \in Dots(g)
      PROVE  /\ c[p].inv = IF visible /\ p \in area THEN k ELSE {}
             /\ c[p].shows = Blank
  <2>1. /\ Invert(b, area, k)[p].shows = b[p].shows
        /\ Invert(b, area, k)[p].inv = IF p \in area THEN Toggled(b[p].inv, k) ELSE b[p].inv
    BY <1>1, <1>2, <1>3, InvertOnPage
  <2>2. CASE visible
    BY <1>4, <1>5, <1>6, <2>1, <2>2
  <2>3. CASE ~visible
    BY <1>4, <1>5, <2>3
  <2> QED
    BY <2>2, <2>3
<1>9. c \in [Dots(g) -> Pixel]
  BY <1>3, <1>5, <1>7
<1> QED
  BY <1>2, <1>8, <1>9 DEF c, area, k

\* SetMode, and Reset, which changes the background alone.
LEMMA ModeSetSound ==
    ASSUME IInv, started, NEW n \in 0 .. Len(modes) - 1, NEW allocates, NEW failing,
           NEW r, r = AfterSetMode(n, allocates, failing), Becomes(r), screen' = r.s,
           UNCHANGED <<started, modes, visible>>,
           attribute' \in 0 .. 127, Foreground(attribute') = Foreground(attribute)
    PROVE  IInv'
<1> DEFINE m == modes[n + 1]
<1>0. /\ gop' = r.gop /\ mode' = r.mode /\ column' = r.col /\ row' = r.row
      /\ line' = r.line /\ disturbed' = r.disturbed
  BY DEF Becomes
<1>1. CASE r = Unchanged
  <2>1. /\ gop' = gop /\ screen' = screen /\ mode' = mode /\ column' = column /\ row' = row
        /\ line' = line /\ disturbed' = disturbed
    BY <1>0, <1>1 DEF Unchanged
  <2>2. Now' = Now /\ Cell(Here)' = Cell(Here)
    BY <2>1 DEF Now, Cell, CellX, CellY, Here
  <2>3. TypeOK'
    BY <2>1 DEF IInv, TypeOK
  <2>4. Consistent'
    BY <2>1, <2>2 DEF IInv, Consistent
  <2>5. CursorShown'
    BY <2>1, <2>2 DEF IInv, CursorShown
  <2> QED
    BY <2>3, <2>4, <2>5 DEF IInv
<1>2. CASE /\ mode # -1
           /\ r = [Unchanged EXCEPT !.ok = TRUE, !.s = Cleared(Now).s, !.col = 0, !.row = 0,
                                    !.disturbed = disturbed /\ gop # Now.gop]
  <2> DEFINE c == Cleared(Now)
             d == disturbed /\ gop # Now.gop
  <2>1. Inside(c) /\ c.col = 0 /\ c.row = 0 /\ (gop = Now.gop => Marked(c))
    BY <1>2, ClearedIs
  <2>2. d \in BOOLEAN /\ (~d => gop = Now.gop)
    <3>1. ~disturbed => gop = Now.gop
      BY <1>2, ReadyNow DEF IInv
    <3> QED
      BY <3>1 DEF IInv, TypeOK
  <2> HIDE DEF c, d
  <2>3. /\ gop' = gop /\ screen' = c.s /\ mode' = mode /\ column' = 0 /\ row' = 0
        /\ line' = line /\ disturbed' = d
    BY <1>0, <1>2 DEF Unchanged, c, d
  <2>4. Leaves(c)
    BY <2>1, <2>3 DEF Leaves
  <2>5. line \in {"null", "live", "freed"}
    BY DEF IInv, TypeOK
  <2> QED
    BY <1>2, <2>1, <2>2, <2>3, <2>4, <2>5, LeavesSound
<1>3. ASSUME NEW l \in {"null", "live", "freed"},
             r = [Unchanged EXCEPT !.s = Erased,
                                   !.disturbed = TRUE, !.line = l]
      PROVE  IInv'
  <2>1. Erased \in [Dots(gop) -> Pixel]
    BY ErasedTyped
  <2>2. /\ gop' = gop /\ screen' = Erased /\ mode' = mode /\ column' = column /\ row' = row
        /\ line' = l /\ disturbed' = TRUE
    BY <1>0, <1>3 DEF Unchanged
  <2>3. Now' = Now
    BY <2>2 DEF Now
  <2>4. TypeOK'
    BY <2>1, <2>2 DEF IInv, TypeOK
  <2>5. Consistent'
    BY <2>2, <2>3 DEF IInv, Consistent
  <2>6. CursorShown'
    BY <2>2 DEF CursorShown
  <2> QED
    BY <2>4, <2>5, <2>6 DEF IInv
<1>4. CASE /\ n # 1 /\ m.gop \in 0 .. Len(GopModes) - 1 /\ ModeFor(m, m.gop)
           /\ r = [ok |-> TRUE, gop |-> m.gop, s |-> Corner(BlackScreen(m.gop), m), mode |-> n,
                   col |-> 0, row |-> 0, line |-> "live", disturbed |-> FALSE]
  <2> DEFINE c == Corner(BlackScreen(m.gop), m)
             area == Rectangle(m.deltaX, m.deltaY, GlyphWidth, GlyphHeight)
  <2>1. /\ gop' = m.gop /\ screen' = c /\ mode' = n /\ column' = 0 /\ row' = 0
        /\ line' = "live" /\ disturbed' = FALSE
    BY <1>0, <1>4
  <2>2. Now' = m
    BY <2>1 DEF Now
  <2>3. /\ m.cols \in Nat /\ m.rows \in Nat /\ m.cols > 1 /\ m.rows > 0
        /\ m.deltaX \in Nat /\ m.deltaY \in Nat
    BY <1>4, ModeForIs
  <2>4. /\ c \in [Dots(m.gop) -> Pixel] /\ area \subseteq PageOf(m)
        /\ \A p \in Dots(m.gop) :
             /\ c[p].inv = IF visible /\ p \in area THEN Foreground(attribute) ELSE {}
             /\ c[p].shows = Blank
    <3>1. attribute \in 0 .. 127
      BY DEF IInv, TypeOK
    <3> QED
      BY <1>4, <3>1, CornerShown
  <2> HIDE DEF c, m
  <2>5. TypeOK'
    <3>1. gop' \in 0 .. Len(GopModes) - 1 /\ screen' \in [Dots(gop') -> Pixel]
      BY <1>4, <2>1, <2>4
    <3>2. mode' \in -1 .. Len(modes') - 1
      <4>1. modes \in Seq(ModeRecord)
        BY DEF IInv, Consistent, Built
      <4> QED
        BY <2>1, <4>1
    <3> QED
      BY <2>1, <3>1, <3>2 DEF IInv, TypeOK
  <2>6. Consistent'
    BY SMTT(40), <1>4, <2>1, <2>2, <2>3 DEF IInv, Consistent
  <2>7. Cell(Here)' = area
    <3>1. GlyphWidth \in Nat /\ GlyphHeight \in Nat /\ 0 * GlyphWidth = 0 /\ 0 * GlyphHeight = 0
      BY ConsoleAssumption
    <3>2. Cell(Here)' = Rectangle(0 * GlyphWidth + m.deltaX, 0 * GlyphHeight + m.deltaY,
                                  GlyphWidth, GlyphHeight)
      BY <2>1, <2>2 DEF Cell, CellX, CellY, Here
    <3> QED
      BY <2>3, <3>1, <3>2
  <2> HIDE DEF area
  <2>8. CursorShown'
    BY <2>1, <2>2, <2>4, <2>7 DEF CursorShown
  <2> QED
    BY <2>5, <2>6, <2>8 DEF IInv
<1> QED
  BY <1>1, <1>2, <1>3, <1>4, AfterSetModeIs

\* SetMode keeps the invariant, failed or not.
LEMMA SetModeSound ==
    ASSUME IInv, NEW n \in 0 .. Len(modes) - 1, NEW allocates, NEW failing,
           SetMode(n, allocates, failing)
    PROVE  IInv'
<1> DEFINE r == AfterSetMode(n, allocates, failing)
<1>1. /\ started /\ Becomes(r) /\ screen' = r.s
      /\ UNCHANGED <<started, modes, attribute, visible>>
  BY DEF SetMode
<1>2. attribute \in 0 .. 127
  BY DEF IInv, TypeOK
<1> HIDE DEF r
<1> QED
  BY <1>1, <1>2, ModeSetSound DEF r

\* Reset draws the cursor anew in the colour it has.
LEMMA ResetIs ==
    ASSUME IInv, NEW allocates, NEW failing, Reset(allocates, failing)
    PROVE  LET r == AfterSetMode(0, allocates, failing)
           IN  /\ started /\ 0 \in 0 .. Len(modes) - 1
               /\ Becomes(r) /\ screen' = r.s
               /\ UNCHANGED <<started, modes, visible>>
               /\ attribute' \in 0 .. 127 /\ Foreground(attribute') = Foreground(attribute)
<1> DEFINE r == AfterSetMode(0, allocates, failing)
           m == modes[1]
           a == IF r.ok THEN attribute % 16 ELSE attribute
           area == Rectangle(m.deltaX, m.deltaY, GlyphWidth, GlyphHeight)
<1>1. /\ started /\ Becomes(r) /\ attribute' = a
      /\ screen' = IF visible /\ a # attribute THEN Recoloured(r.s, area, a) ELSE r.s
      /\ UNCHANGED <<started, modes, visible>>
  BY DEF Reset
<1>2. a \in 0 .. 127 /\ Foreground(a) = Foreground(attribute)
  BY DEF IInv, TypeOK, Foreground
<1>3. 0 \in 0 .. Len(modes) - 1
  BY <1>1 DEF IInv, Consistent, Built
<1>4. \E D : r.s \in [D -> Pixel]
  <2>1. /\ screen \in [Dots(gop) -> Pixel] /\ attribute \in 0 .. 127
    BY DEF IInv, TypeOK
  <2>2. CASE r = Unchanged
    BY <2>1, <2>2 DEF Unchanged
  <2>3. CASE /\ mode # -1
             /\ r = [Unchanged EXCEPT !.ok = TRUE, !.s = Cleared(Now).s, !.col = 0, !.row = 0,
                                      !.disturbed = disturbed /\ gop # Now.gop]
    <3>1. Cleared(Now).s \in [Dots(gop) -> Pixel]
      BY <2>3, ClearedIs DEF Inside, Canvas
    <3>2. r.s = Cleared(Now).s
      BY <2>3 DEF Unchanged
    <3> QED
      BY <3>1, <3>2
  <2>4. ASSUME NEW l \in {"null", "live", "freed"},
               r = [Unchanged EXCEPT !.s = Erased,
                                     !.disturbed = TRUE, !.line = l]
        PROVE  \E D : r.s \in [D -> Pixel]
    <3>1. r.s = Erased
      BY <2>4 DEF Unchanged
    <3> QED
      BY <3>1, ErasedTyped
  <2>5. CASE /\ ModeFor(modes[0 + 1], modes[0 + 1].gop)
             /\ r = [ok |-> TRUE, gop |-> modes[0 + 1].gop,
                     s |-> Corner(BlackScreen(modes[0 + 1].gop), modes[0 + 1]), mode |-> 0,
                     col |-> 0, row |-> 0, line |-> "live", disturbed |-> FALSE]
    BY <2>1, <2>5, CornerShown
  <2>6. \/ r = Unchanged
        \/ /\ mode # -1
           /\ r = [Unchanged EXCEPT !.ok = TRUE, !.s = Cleared(Now).s, !.col = 0, !.row = 0,
                                    !.disturbed = disturbed /\ gop # Now.gop]
        \/ \E l \in {"null", "live", "freed"} :
             r = [Unchanged EXCEPT !.s = Erased, !.disturbed = TRUE, !.line = l]
        \/ /\ ModeFor(modes[0 + 1], modes[0 + 1].gop)
           /\ r = [ok |-> TRUE, gop |-> modes[0 + 1].gop,
                   s |-> Corner(BlackScreen(modes[0 + 1].gop), modes[0 + 1]), mode |-> 0,
                   col |-> 0, row |-> 0, line |-> "live", disturbed |-> FALSE]
    BY <1>1, <1>3, AfterSetModeIs
  <2> HIDE DEF r
  <2> QED
    BY <2>2, <2>3, <2>4, <2>5, <2>6
<1>5. Recoloured(r.s, area, a) = r.s
  <2>1. PICK D : r.s \in [D -> Pixel]
    BY <1>4
  <2>2. attribute \in 0 .. 127
    BY DEF IInv, TypeOK
  <2>3. Foreground(attribute) \in SUBSET (0 .. 15)
    BY <2>2, ForegroundTyped
  <2> HIDE DEF r, area, a
  <2> QED
    BY <1>2, <2>1, <2>3, InvertTwice DEF Recoloured
<1> HIDE DEF r, a, area
<1>6. screen' = r.s
  BY <1>1, <1>5
<1> QED
  BY <1>1, <1>2, <1>3, <1>6 DEF r

\* Reset keeps the invariant, failed or not.
LEMMA ResetSound ==
    ASSUME IInv, NEW allocates, NEW failing, Reset(allocates, failing)
    PROVE  IInv'
<1> DEFINE r == AfterSetMode(0, allocates, failing)
<1>1. /\ started /\ 0 \in 0 .. Len(modes) - 1
      /\ Becomes(r) /\ screen' = r.s
      /\ UNCHANGED <<started, modes, visible>>
      /\ attribute' \in 0 .. 127 /\ Foreground(attribute') = Foreground(attribute)
  BY ResetIs
<1> HIDE DEF r
<1> QED
  BY <1>1, ModeSetSound DEF r

-----------------------------------------------------------------------------
\* Start keeps the invariant, installed or not.
LEMMA StartSound ==
    ASSUME IInv, NEW failing, NEW installs \in BOOLEAN, Start(failing, installs)
    PROVE  IInv'
<1> DEFINE chosen == ChosenGopMode(failing)
           g == chosen.mode
           list == InitializeGraphicsConsoleTextMode(g)
<1>1. /\ ~started /\ gop' = g /\ started' = installs
      /\ screen' = IF chosen.set THEN BlackScreen(g) ELSE screen
  BY DEF Start
<1>2. /\ g \in 0 .. Len(GopModes) - 1
      /\ ~chosen.set => g = gop
  BY ChosenTyped DEF IInv, TypeOK
<1>3. screen' \in [Dots(g) -> Pixel]
  <2>1. screen \in [Dots(gop) -> Pixel]
    BY DEF IInv, TypeOK
  <2> HIDE DEF g
  <2>2. CASE chosen.set
    BY <1>1, <2>2, BlackScreenTyped
  <2>3. CASE ~chosen.set
    BY <1>1, <1>2, <2>1, <2>3
  <2> QED
    BY <2>2, <2>3
<1>4. CASE installs
  <2>1. /\ modes' = list /\ mode' = PreferMode(list)
        /\ attribute' = 7 /\ column' = 0 /\ row' = 0 /\ visible' = FALSE
        /\ line' = "null" /\ disturbed' = (screen' # BlackScreen(g))
    BY <1>4 DEF Start
  <2> HIDE DEF chosen, g
  <2>2. Built(list, g)
    BY <1>2, BuiltModes
  <2> HIDE DEF list
  <2>3. PreferMode(list) \in -1 .. Len(list) - 1 /\ PreferMode(list) # 1
    BY <2>2, PreferredMode
  <2>4. TypeOK'
    <3>1. disturbed' \in BOOLEAN
      BY <2>1
    <3>2. mode' \in -1 .. Len(modes') - 1
      BY <2>1, <2>3
    <3>3. gop' \in 0 .. Len(GopModes) - 1 /\ screen' \in [Dots(gop') -> Pixel]
      BY <1>1, <1>2, <1>3
    <3>4. started' \in BOOLEAN
      BY <1>1
    <3>5. visible' \in BOOLEAN
      BY <2>1
    <3>6. line' \in {"null", "live", "freed"}
      BY <2>1
    <3>7. attribute' \in 0 .. 127
      BY <2>1
    <3>8. column' \in Nat /\ row' \in Nat
      BY <2>1
    <3> QED
      BY <3>1, <3>2, <3>3, <3>4, <3>5, <3>6, <3>7, <3>8 DEF TypeOK
  <2>5. ASSUME mode' # -1
        PROVE  Now'.cols > 1 /\ Now'.rows > 0 /\ Now'.gop = g
    <3>1. Now' = list[PreferMode(list) + 1]
      BY <2>1 DEF Now
    <3>2. PreferMode(list) \in 0 .. Len(list) - 1
      BY <2>1, <2>3, <2>5
    <3>3. list \in Seq(ModeRecord) /\ \A i \in 1 .. Len(list) : i # 2 => ModeFor(list[i], g)
      BY <2>2 DEF Built
    <3>4. PreferMode(list) + 1 \in 1 .. Len(list) /\ PreferMode(list) + 1 # 2
      BY <2>3, <3>2, <3>3
    <3>5. ModeFor(list[PreferMode(list) + 1], g)
      BY <3>3, <3>4
    <3> QED
      BY <3>1, <3>5, ModeForIs
  <2>6. Consistent'
    <3>1. started' /\ \E h \in 0 .. Len(GopModes) - 1 : Built(modes', h)
      BY <1>1, <1>2, <1>4, <2>1, <2>2
    <3>2. mode' # 1 /\ ~visible'
      BY <2>1, <2>3
    <3>3. mode' # -1 => column' < Now'.cols /\ row' < Now'.rows /\ gop' = Now'.gop
      <4> SUFFICES ASSUME mode' # -1
                   PROVE  column' < Now'.cols /\ row' < Now'.rows /\ gop' = Now'.gop
        OBVIOUS
      <4>1. \E m : ModeFor(m, g) /\ Now' = m
        <5>1. Now' = list[PreferMode(list) + 1]
          BY <2>1 DEF Now
        <5>2. list \in Seq(ModeRecord) /\ \A i \in 1 .. Len(list) : i # 2 => ModeFor(list[i], g)
          BY <2>2 DEF Built
        <5>3. PreferMode(list) + 1 \in 1 .. Len(list) /\ PreferMode(list) + 1 # 2
          BY <2>1, <2>3, <5>2
        <5> QED
          BY <5>1, <5>2, <5>3
      <4>2. Now'.cols \in Nat /\ Now'.rows \in Nat /\ Now'.cols > 1 /\ Now'.rows > 0 /\ Now'.gop = g
        BY <4>1, ModeForIs
      <4> QED
        BY <1>1, <2>1, <4>2
    <3> QED
      BY <3>1, <3>2, <3>3 DEF Consistent
  <2>7. CursorShown'
    <3> SUFFICES ASSUME ~disturbed', NEW p \in DOMAIN screen'
                 PROVE  screen'[p].inv = {} /\ screen'[p].shows = Blank
      BY <2>1 DEF CursorShown
    <3>1. screen' = BlackScreen(g)
      BY <2>1
    <3> QED
      BY <3>1 DEF BlackScreen, Plain
  <2> QED
    BY <2>4, <2>6, <2>7 DEF IInv
<1>5. CASE ~installs
  <2>1. UNCHANGED <<console, disturbed>>
    BY <1>5 DEF Start
  <2>2. /\ UNCHANGED <<modes, mode, attribute, column, row, visible, line, disturbed>>
        /\ started' = FALSE
    BY <1>1, <1>5, <2>1 DEF console
  <2> HIDE DEF chosen, g
  <2>3. TypeOK'
    BY <1>1, <1>2, <1>3, <2>2 DEF IInv, TypeOK
  <2>4. Consistent'
    <3>1. modes = <<>> /\ mode = -1 /\ ~visible
      BY <1>1 DEF IInv, Consistent
    <3> QED
      BY <2>2, <3>1 DEF Consistent
  <2>5. CursorShown'
    BY <2>2 DEF CursorShown
  <2> QED
    BY <2>3, <2>4, <2>5 DEF IInv
<1> QED
  BY <1>4, <1>5

\* Stop keeps the invariant.
LEMMA StopSound ==
    ASSUME IInv, Stop
    PROVE  IInv'
<1>1. /\ started' = FALSE /\ modes' = <<>> /\ mode' = -1 /\ line' = "null" /\ attribute' = 7
      /\ column' = 0 /\ row' = 0 /\ visible' = FALSE /\ disturbed' = FALSE
      /\ UNCHANGED <<gop, screen>>
  BY DEF Stop
<1>2. TypeOK'
  <2>1. -1 \in -1 .. Len(<<>>) - 1
    OBVIOUS
  <2>2. mode' \in -1 .. Len(modes') - 1
    BY <1>1, <2>1
  <2>3. started' \in BOOLEAN /\ visible' \in BOOLEAN /\ disturbed' \in BOOLEAN
    BY <1>1
  <2>4. line' \in {"null", "live", "freed"}
    BY <1>1
  <2>5. gop' \in 0 .. Len(GopModes) - 1 /\ screen' \in [Dots(gop') -> Pixel]
    BY <1>1 DEF IInv, TypeOK
  <2>6. attribute' \in 0 .. 127 /\ column' \in Nat /\ row' \in Nat
    BY <1>1
  <2> QED
    BY <2>2, <2>3, <2>4, <2>5, <2>6 DEF TypeOK
<1>3. Consistent'
  BY <1>1 DEF Consistent
<1>4. CursorShown'
  BY <1>1 DEF CursorShown
<1> QED
  BY <1>2, <1>3, <1>4 DEF IInv

\* A graphics client keeps the invariant: the console is disturbed by it.
LEMMA GraphicsClientSound ==
    ASSUME IInv, NEW g \in 0 .. Len(GopModes) - 1, GraphicsClient(g)
    PROVE  IInv'
<1>1. /\ ~visible /\ gop' = g /\ screen' = BlackScreen(g) /\ disturbed' = started
      /\ UNCHANGED <<started, modes, mode, attribute, column, row, visible, line>>
  BY DEF GraphicsClient, console
<1>2. screen' \in [Dots(gop') -> Pixel]
  BY <1>1, BlackScreenTyped
<1>3. TypeOK'
  BY <1>1, <1>2 DEF IInv, TypeOK
<1>4. Now' = Now
  BY <1>1 DEF Now
<1>5. Consistent'
  BY <1>1, <1>4 DEF IInv, Consistent
<1>6. CursorShown'
  BY <1>1 DEF CursorShown
<1> QED
  BY <1>3, <1>5, <1>6 DEF IInv

\* The invariant holds at the start.
LEMMA InitSound == Init => IInv
<1> SUFFICES ASSUME Init
             PROVE  IInv
  OBVIOUS
<1>1. screen \in [Dots(gop) -> Pixel]
  BY BlackScreenTyped DEF Init
<1>2. TypeOK
  <2>1. -1 \in -1 .. Len(<<>>) - 1
    OBVIOUS
  <2>2. started \in BOOLEAN /\ visible \in BOOLEAN /\ disturbed \in BOOLEAN
    BY DEF Init
  <2>3. line \in {"null", "live", "freed"}
    BY DEF Init
  <2>4. gop \in 0 .. Len(GopModes) - 1
    BY DEF Init
  <2>5. mode \in -1 .. Len(modes) - 1
    BY <2>1 DEF Init
  <2>6. attribute \in 0 .. 127 /\ column \in Nat /\ row \in Nat
    BY DEF Init
  <2> QED
    BY <1>1, <2>2, <2>3, <2>4, <2>5, <2>6 DEF TypeOK
<1>3. Consistent
  BY DEF Init, Consistent
<1>4. CursorShown
  BY DEF Init, CursorShown
<1> QED
  BY <1>2, <1>3, <1>4 DEF IInv

\* Every step keeps the invariant.
LEMMA StepSound == IInv /\ [Next]_vars => IInv'
<1> SUFFICES ASSUME IInv, [Next]_vars
             PROVE  IInv'
  OBVIOUS
<1>1. ASSUME NEW failing \in SUBSET GopFaulty, NEW installs \in BOOLEAN, Start(failing, installs)
      PROVE  IInv'
  BY <1>1, StartSound
<1>2. ASSUME NEW failing \in SUBSET GopFaulty, NEW allocates \in {TRUE, ~MemoryFails},
             NEW n \in 0 .. Len(modes) - 1, SetMode(n, allocates, failing)
      PROVE  IInv'
  BY <1>2, SetModeSound
<1>3. ASSUME NEW failing \in SUBSET GopFaulty, NEW allocates \in {TRUE, ~MemoryFails},
             Reset(allocates, failing)
      PROVE  IInv'
  BY <1>3, ResetSound
<1>4. CASE Stop
  BY <1>4, StopSound
<1>5. CASE ClearScreen
  BY <1>5, ClearScreenSound
<1>6. ASSUME NEW str \in Strings, OutputString(str)
      PROVE  IInv'
  BY <1>6, OutputStringSound
<1>7. ASSUME NEW p \in Positions, SetCursorPosition(p[1], p[2])
      PROVE  IInv'
  BY <1>7, SetCursorPositionSound
<1>8. ASSUME NEW a \in Attributes, SetAttribute(a)
      PROVE  IInv'
  BY <1>8, SetAttributeSound
<1>9. ASSUME NEW v \in BOOLEAN, EnableCursor(v)
      PROVE  IInv'
  BY <1>9, EnableCursorSound
<1>10. ASSUME NEW g \in 0 .. Len(GopModes) - 1, GraphicsClient(g)
       PROVE  IInv'
  BY <1>10, GraphicsClientSound
<1>11. CASE UNCHANGED vars
  <2>1. UNCHANGED <<gop, screen, started, modes, mode, attribute, column, row, visible, line,
                    disturbed>>
    BY <1>11 DEF vars, console
  <2>2. Now' = Now /\ Cell(Here)' = Cell(Here)
    BY <2>1 DEF Now, Cell, CellX, CellY, Here
  <2>3. TypeOK'
    BY <2>1 DEF IInv, TypeOK
  <2>4. Consistent'
    BY <2>1, <2>2 DEF IInv, Consistent
  <2>5. CursorShown'
    BY <2>1, <2>2 DEF IInv, CursorShown
  <2> QED
    BY <2>3, <2>4, <2>5 DEF IInv
<1> QED
  BY <1>1, <1>2, <1>3, <1>4, <1>5, <1>6, <1>7, <1>8, <1>9, <1>10, <1>11 DEF Next

\* The invariant holds always.
LEMMA ConsoleInvariant == Spec => []IInv
BY InitSound, StepSound, PTL DEF Spec

\* GraphicsConsole.c: the variables keep their types whatever the resolutions,
\* the mode table and the strings; the cursor's fields stay natural numbers.
THEOREM ConsoleTypes == Spec => []TypeOK
<1>1. IInv => TypeOK
  BY DEF IInv
<1> QED
  BY <1>1, ConsoleInvariant, PTL

\* GraphicsConsole.c: the dots that are inverted are those of the cursor, where it
\* is, while it is enabled and no graphics client has been on the screen; and
\* outside the page no text is left.  This for every string, every size of the
\* glyphs and the page, every exit of every function.
THEOREM CursorAlwaysShown == Spec => []CursorShown
<1>1. IInv => CursorShown
  BY DEF IInv
<1> QED
  BY <1>1, ConsoleInvariant, PTL

\* InitializeGraphicsConsoleTextMode: every mode after mode 0 fits on the
\* resolution it was made for, and no two are the same.
THEOREM ConsoleModes == Spec => []OtherModesFit
<1>1. IInv => OtherModesFit
  <2> SUFFICES ASSUME IInv
               PROVE  OtherModesFit
    OBVIOUS
  <2>1. CASE started
    <3>1. PICK g \in 0 .. Len(GopModes) - 1 : Built(modes, g)
      BY <2>1 DEF IInv, Consistent
    <3>2. DOMAIN modes = 1 .. Len(modes)
      BY <3>1 DEF Built
    <3> QED
      BY <3>1, <3>2 DEF Built, OtherModesFit, ModesFit, ModesDiffer
  <2>2. CASE ~started
    <3>1. modes = <<>>
      BY <2>2 DEF IInv, Consistent
    <3> QED
      BY <3>1 DEF OtherModesFit, ModesFit, ModesDiffer
  <2> QED
    BY <2>1, <2>2
<1> QED
  BY <1>1, ConsoleInvariant, PTL

-----------------------------------------------------------------------------
\* What the terminal is: its cells, the dot that tells a cell's character, and
\* what a canvas is to it.
Cells == T!CellsOf(ShownSize)
Spot(p) == <<p[1] * GlyphWidth + Now.deltaX, p[2] * GlyphHeight + Now.deltaY>>
Abs(c) == [page |-> [p \in Cells |-> c.s[Spot(p)].shows],
           col |-> c.col, row |-> c.row, wide |-> c.wide]
Text == [page : [Cells -> Chars \cup {Blank}], col : Nat, row : Nat, wide : BOOLEAN]

Facing == /\ Ready /\ ShownSize = <<Now.cols, Now.rows>>
          /\ PageOf(Now) \subseteq Dots(gop)

\* Products of a positive number order as their factors do.
LEMMA TimesStrict ==
    ASSUME NEW a \in Int, NEW b \in Int, NEW n \in Nat \ {0}
    PROVE  a < b <=> a * n < b * n
<1>1. a < b => a * n < b * n
  BY Z3
<1>2. ~(a < b) => ~(a * n < b * n)
  BY Z3
<1> QED
  BY <1>1, <1>2

\* A multiple lies in a range of multiples if its factor does.
LEMMA TimesWithin ==
    ASSUME NEW i \in Int, NEW a \in Int, NEW w \in Int, NEW n \in Nat \ {0}, NEW d \in Int
    PROVE  i * n + d \in (a * n + d) .. (a * n + d) + w * n - 1 <=> i \in a .. a + w - 1
<1>1. (i < a <=> i * n < a * n) /\ (i < a + w <=> i * n < (a + w) * n)
  BY TimesStrict
<1>2. (a + w) * n = a * n + w * n
  BY TimesSum
<1>3. i * n \in Int /\ a * n \in Int /\ w * n \in Int
  OBVIOUS
<1> DEFINE x == i * n
           y == a * n
           z == w * n
<1>4. (i < a <=> x < y) /\ (i < a + w <=> x < y + z) /\ x \in Int /\ y \in Int /\ z \in Int
  BY <1>1, <1>2, <1>3
<1> HIDE DEF x, y, z
<1>5. x + d \in (y + d) .. (y + d) + z - 1 <=> i \in a .. a + w - 1
  BY <1>4
<1> QED
  BY <1>5 DEF x, y, z

\* The cells of the terminal are those of the current mode.
LEMMA CellsAre ==
    ASSUME Facing
    PROVE  /\ Cells = (0 .. Now.cols - 1) \X (0 .. Now.rows - 1)
           /\ Now.cols \in Nat /\ Now.rows \in Nat /\ Now.cols > 1 /\ Now.rows > 0
           /\ ShownSize[1] = Now.cols /\ ShownSize[2] = Now.rows
           /\ Now.deltaX \in Nat /\ Now.deltaY \in Nat
           /\ GlyphWidth \in Nat \ {0} /\ GlyphHeight \in Nat \ {0}
BY ConsoleAssumption DEF Facing, Cells, T!CellsOf, Ready

\* Which cells' dots an area of glyphs holds.
LEMMA SpotIn ==
    ASSUME Facing, NEW p \in Cells, NEW a \in Int, NEW b \in Int, NEW w \in Int, NEW h \in Int
    PROVE  Spot(p) \in Rectangle(a * GlyphWidth + Now.deltaX, b * GlyphHeight + Now.deltaY,
                                 w * GlyphWidth, h * GlyphHeight)
             <=> p[1] \in a .. a + w - 1 /\ p[2] \in b .. b + h - 1
<1>1. /\ p[1] \in Int /\ p[2] \in Int /\ Now.deltaX \in Int /\ Now.deltaY \in Int
      /\ GlyphWidth \in Nat \ {0} /\ GlyphHeight \in Nat \ {0}
  BY CellsAre
<1> DEFINE x == p[1] * GlyphWidth + Now.deltaX
           y == p[2] * GlyphHeight + Now.deltaY
           u == a * GlyphWidth + Now.deltaX
           v == b * GlyphHeight + Now.deltaY
           k == w * GlyphWidth
           l == h * GlyphHeight
<1>2. x \in u .. u + k - 1 <=> p[1] \in a .. a + w - 1
  BY <1>1, TimesWithin
<1>3. y \in v .. v + l - 1 <=> p[2] \in b .. b + h - 1
  BY <1>1, TimesWithin
<1> HIDE DEF x, y, u, v, k, l
<1>4. <<x, y>> \in Rectangle(u, v, k, l) <=> x \in u .. u + k - 1 /\ y \in v .. v + l - 1
  BY DEF Rectangle
<1> QED
  BY <1>2, <1>3, <1>4 DEF Spot, x, y, u, v, k, l

\* Every cell's dot is on the screen.
LEMMA SpotOnScreen ==
    ASSUME Facing, NEW p \in Cells
    PROVE  Spot(p) \in PageOf(Now) /\ Spot(p) \in Dots(gop)
<1>1. p[1] \in 0 .. 0 + Now.cols - 1 /\ p[2] \in 0 .. 0 + Now.rows - 1
  BY CellsAre
<1>2. Now.cols \in Int /\ Now.rows \in Int
  BY CellsAre
<1>3. Spot(p) \in Rectangle(0 * GlyphWidth + Now.deltaX, 0 * GlyphHeight + Now.deltaY,
                            Now.cols * GlyphWidth, Now.rows * GlyphHeight)
  BY <1>1, <1>2, SpotIn
<1>4. /\ 0 * GlyphWidth + Now.deltaX = Now.deltaX
      /\ 0 * GlyphHeight + Now.deltaY = Now.deltaY
  BY CellsAre
<1> QED
  BY <1>3, <1>4 DEF PageOf, Facing

\* A canvas shows a text.
LEMMA AbsTyped ==
    ASSUME Facing, NEW c \in Canvas
    PROVE  /\ Abs(c) \in Text
           /\ Abs(c).col = c.col /\ Abs(c).row = c.row /\ Abs(c).wide = c.wide
           /\ \A p \in Cells : Abs(c).page[p] = c.s[Spot(p)].shows
<1>1. ASSUME NEW p \in Cells
      PROVE  c.s[Spot(p)].shows \in Chars \cup {Blank}
  <2>1. Spot(p) \in Dots(gop)
    BY SpotOnScreen
  <2>2. c.s[Spot(p)] \in Pixel
    BY <2>1 DEF Canvas
  <2> QED
    BY <2>2 DEF Pixel
<1>2. c.col \in Nat /\ c.row \in Nat /\ c.wide \in BOOLEAN
  BY DEF Canvas
<1> QED
  BY <1>1, <1>2 DEF Abs, Text

\* Two texts are the same that show the same.
LEMMA SameText ==
    ASSUME NEW t \in Text, NEW u \in Text, t.col = u.col, t.row = u.row, t.wide = u.wide,
           \A p \in Cells : t.page[p] = u.page[p]
    PROVE  t = u
<1>1. t.page \in [Cells -> Chars \cup {Blank}] /\ u.page \in [Cells -> Chars \cup {Blank}]
  BY DEF Text
<1>2. t.page = u.page
  BY <1>1
<1> QED
  BY <1>2 DEF Text

\* Inverting changes no character.
LEMMA InvertShows ==
    ASSUME NEW D, NEW s \in [D -> Pixel], NEW area, NEW k
    PROVE  \A p \in D : Invert(s, area, k)[p].shows = s[p].shows
BY DEF Invert

\* The cursor is no character.
LEMMA AbsFlush ==
    ASSUME Facing, NEW c \in Canvas
    PROVE  Abs(FlushCursor(c)) = Abs(c)
<1> DEFINE d == FlushCursor(c)
<1>1. /\ d \in Canvas /\ d.col = c.col /\ d.row = c.row /\ d.wide = c.wide
      /\ d.s = IF visible THEN Invert(c.s, Cell(c), Colours) ELSE c.s
  BY FlushTyped DEF Facing
<1> HIDE DEF d
<1>2. c.s \in [Dots(gop) -> Pixel]
  BY DEF Canvas
<1>3. \A q \in Dots(gop) : d.s[q].shows = c.s[q].shows
  BY <1>1, <1>2, InvertShows
<1>4. \A p \in Cells : Abs(d).page[p] = Abs(c).page[p]
  BY <1>1, <1>3, SpotOnScreen, AbsTyped
<1>5. Abs(d) = Abs(c)
  BY <1>1, <1>4, AbsTyped, SameText
<1> QED
  BY <1>5 DEF d

\* What Terminal's Write does, field by field.
LEMMA WriteIs ==
    ASSUME Facing, NEW t \in Text, NEW ch \in Chars \cup {Blank}, NEW w \in Nat
    PROVE  /\ T!Write(t, ch, w) \in Text
           /\ T!Write(t, ch, w).col = t.col + w
           /\ T!Write(t, ch, w).row = t.row
           /\ T!Write(t, ch, w).wide = t.wide
           /\ \A p \in Cells : T!Write(t, ch, w).page[p] =
                IF p[2] = t.row /\ p[1] \in t.col .. t.col + w - 1 THEN ch ELSE t.page[p]
<1> DEFINE g == [p \in Cells |->
                   IF p[2] = t.row /\ p[1] \in t.col .. t.col + w - 1 THEN ch ELSE t.page[p]]
<1>1. g \in [Cells -> Chars \cup {Blank}] /\ t.col + w \in Nat
  BY DEF Text
<1>2. T!Write(t, ch, w) = [t EXCEPT !.col = t.col + w, !.page = g]
  BY DEF T!Write, Cells, Text
<1>3. \A p \in Cells : g[p] =
         IF p[2] = t.row /\ p[1] \in t.col .. t.col + w - 1 THEN ch ELSE t.page[p]
  OBVIOUS
<1> HIDE DEF g
<1>4. /\ T!Write(t, ch, w) \in Text
      /\ T!Write(t, ch, w).col = t.col + w
      /\ T!Write(t, ch, w).row = t.row
      /\ T!Write(t, ch, w).wide = t.wide
      /\ T!Write(t, ch, w).page = g
  BY <1>1, <1>2 DEF Text
<1> QED
  BY <1>3, <1>4

\* Drawing a character of w columns writes it into w cells.
LEMMA AbsDraw ==
    ASSUME Facing, NEW c, Inside(c), NEW ch \in Chars \cup {Blank}, NEW w \in Nat,
           c.col + w <= Now.cols
    PROVE  Abs(DrawAtCursor(c, ch, w)) = T!Write(Abs(c), ch, w)
<1> DEFINE d    == DrawAtCursor(c, ch, w)
           t    == T!Write(Abs(c), ch, w)
           area == Rectangle(CellX(c), CellY(c), w * GlyphWidth, GlyphHeight)
<1>1. /\ c \in Canvas /\ d \in Canvas /\ d.s = Paint(c.s, area, ch) /\ d.col = c.col + w
      /\ d.row = c.row /\ d.wide = c.wide
  BY DrawTyped DEF Inside
<1>2. area \subseteq PageOf(Now) /\ Whole(Now, gop)
  BY AreaInPage DEF Facing, Whole
<1>3. d.s = [q \in Dots(gop) |-> IF q \in area THEN Plain(ch) ELSE c.s[q]]
  <2>1. c.s \in [Dots(gop) -> Pixel]
    BY <1>1 DEF Canvas
  <2> HIDE DEF d, area
  <2> QED
    BY <1>1, <1>2, <2>1, PaintOnPage
<1>4. /\ Abs(c) \in Text /\ Abs(c).col = c.col /\ Abs(c).row = c.row /\ Abs(c).wide = c.wide
      /\ \A p \in Cells : Abs(c).page[p] = c.s[Spot(p)].shows
  BY <1>1, AbsTyped
<1>5. /\ t \in Text /\ t.col = c.col + w /\ t.row = c.row /\ t.wide = c.wide
      /\ \A p \in Cells : t.page[p] =
           IF p[2] = c.row /\ p[1] \in c.col .. c.col + w - 1 THEN ch ELSE c.s[Spot(p)].shows
  BY <1>4, WriteIs
<1>6. ASSUME NEW p \in Cells
      PROVE  Spot(p) \in area <=> p[2] = c.row /\ p[1] \in c.col .. c.col + w - 1
  <2>1. c.col \in Int /\ c.row \in Int /\ p[2] \in Int /\ GlyphHeight = 1 * GlyphHeight
    BY <1>1, CellsAre DEF Canvas
  <2>2. Spot(p) \in Rectangle(c.col * GlyphWidth + Now.deltaX, c.row * GlyphHeight + Now.deltaY,
                              w * GlyphWidth, 1 * GlyphHeight)
          <=> p[1] \in c.col .. c.col + w - 1 /\ p[2] \in c.row .. c.row + 1 - 1
    BY SMTT(40), <2>1, SpotIn
  <2>3. p[2] \in c.row .. c.row + 1 - 1 <=> p[2] = c.row
    BY <2>1
  <2> QED
    BY <2>1, <2>2, <2>3 DEF CellX, CellY
<1> HIDE DEF d, t, area
<1>7. ASSUME NEW p \in Cells
      PROVE  Abs(d).page[p] = t.page[p]
  <2>1. Spot(p) \in Dots(gop) /\ Abs(d).page[p] = d.s[Spot(p)].shows
    BY <1>1, AbsTyped, SpotOnScreen
  <2>2. d.s[Spot(p)].shows = IF Spot(p) \in area THEN ch ELSE c.s[Spot(p)].shows
    BY <1>3, <2>1 DEF Plain
  <2> QED
    BY <1>5, <1>6, <2>1, <2>2
<1>8. Abs(d) = t
  BY <1>1, <1>5, <1>7, AbsTyped, SameText
<1> QED
  BY <1>8 DEF d, t

\* What Terminal's Down does, field by field.
LEMMA DownIs ==
    ASSUME Facing, NEW t \in Text, t.row < Now.rows
    PROVE  /\ T!Down(t) \in Text
           /\ T!Down(t).col = t.col /\ T!Down(t).wide = t.wide
           /\ T!Down(t).row = IF t.row = Now.rows - 1 THEN t.row ELSE t.row + 1
           /\ \A p \in Cells : T!Down(t).page[p] =
                IF t.row # Now.rows - 1 THEN t.page[p]
                ELSE IF p[2] < Now.rows - 1 THEN t.page[<<p[1], p[2] + 1>>] ELSE Blank
<1>1. /\ ShownSize[2] = Now.rows /\ Now.rows \in Nat /\ t.row \in Nat
      /\ Cells = (0 .. Now.cols - 1) \X (0 .. Now.rows - 1) /\ Now.cols \in Nat
  BY CellsAre DEF Text
<1>2. CASE t.row < Now.rows - 1
  <2>1. T!Down(t) = [t EXCEPT !.row = t.row + 1]
    BY <1>1, <1>2 DEF T!Down
  <2> QED
    BY <1>1, <1>2, <2>1 DEF Text
<1>3. CASE ~(t.row < Now.rows - 1)
  <2> DEFINE g == [p \in Cells |->
                     IF p[2] < Now.rows - 1 THEN t.page[<<p[1], p[2] + 1>>] ELSE Blank]
  <2>1. T!Down(t) = [t EXCEPT !.page = g]
    BY <1>1, <1>3 DEF T!Down, Cells
  <2>2. g \in [Cells -> Chars \cup {Blank}]
    <3>1. ASSUME NEW p \in Cells, p[2] < Now.rows - 1
          PROVE  t.page[<<p[1], p[2] + 1>>] \in Chars \cup {Blank}
      <4>1. <<p[1], p[2] + 1>> \in Cells
        BY <1>1, <3>1
      <4> QED
        BY <4>1 DEF Text
    <3> QED
      BY <3>1
  <2>3. \A p \in Cells : g[p] =
          IF p[2] < Now.rows - 1 THEN t.page[<<p[1], p[2] + 1>>] ELSE Blank
    OBVIOUS
  <2>4. t.row = Now.rows - 1
    BY <1>1, <1>3
  <2> HIDE DEF g
  <2>5. /\ T!Down(t) \in Text /\ T!Down(t).col = t.col /\ T!Down(t).row = t.row
        /\ T!Down(t).wide = t.wide /\ T!Down(t).page = g
    BY <2>1, <2>2 DEF Text
  <2> QED
    BY <2>3, <2>4, <2>5
<1> QED
  BY <1>2, <1>3

\* A line feed, by copying all lines but the first and blanking the last, is the
\* terminal's step down.
LEMMA AbsFeed ==
    ASSUME Facing, NEW c \in Canvas, c.row < Now.rows
    PROVE  Abs(LineFeed(c)) = T!Down(Abs(c))
<1> DEFINE d == LineFeed(c)
           t == T!Down(Abs(c))
<1>1. /\ d \in Canvas /\ d.col = c.col /\ d.wide = c.wide
      /\ d.s = IF c.row = Now.rows - 1 THEN FedScreen(c) ELSE c.s
      /\ d.row = IF c.row = Now.rows - 1 THEN c.row ELSE c.row + 1
  BY FeedTyped DEF Facing
<1>2. /\ Abs(c) \in Text /\ Abs(c).col = c.col /\ Abs(c).row = c.row /\ Abs(c).wide = c.wide
      /\ \A p \in Cells : Abs(c).page[p] = c.s[Spot(p)].shows
  BY AbsTyped
<1>3. /\ t \in Text /\ t.col = c.col /\ t.wide = c.wide
      /\ t.row = IF c.row = Now.rows - 1 THEN c.row ELSE c.row + 1
      /\ \A p \in Cells : t.page[p] =
           IF c.row # Now.rows - 1 THEN Abs(c).page[p]
           ELSE IF p[2] < Now.rows - 1 THEN Abs(c).page[<<p[1], p[2] + 1>>] ELSE Blank
  BY <1>2, DownIs
<1> HIDE DEF d, t
<1>4. ASSUME NEW p \in Cells
      PROVE  Abs(d).page[p] = t.page[p]
  <2>1. Abs(d).page[p] = d.s[Spot(p)].shows /\ Spot(p) \in Dots(gop)
    BY <1>1, AbsTyped, SpotOnScreen
  <2>2. CASE c.row # Now.rows - 1
    BY <1>1, <1>2, <1>3, <2>1, <2>2
  <2>3. CASE c.row = Now.rows - 1
    <3> DEFINE w    == Now.cols * GlyphWidth
               h    == (Now.rows - 1) * GlyphHeight
               up   == Scroll(c.s, Now.deltaX, Now.deltaY, w, h)
               last == Rectangle(Now.deltaX, Now.deltaY + h, w, GlyphHeight)
               top  == Rectangle(Now.deltaX, Now.deltaY, w, h)
    <3>1. /\ p = <<p[1], p[2]>> /\ p[1] \in 0 .. Now.cols - 1 /\ p[2] \in 0 .. Now.rows - 1
          /\ Now.cols \in Int /\ Now.rows - 1 \in Int /\ Now.rows \in Int
          /\ Now.deltaX \in Nat /\ Now.deltaY \in Nat
          /\ GlyphWidth \in Nat /\ GlyphHeight \in Nat
          /\ 0 * GlyphWidth + Now.deltaX = Now.deltaX
          /\ 0 * GlyphHeight + Now.deltaY = Now.deltaY /\ 1 * GlyphHeight = GlyphHeight
          /\ Now.cols \in Nat /\ Now.rows - 1 \in Nat
      BY CellsAre
    <3>2. w \in Nat /\ h \in Nat
      BY <3>1, TimesNat
    <3>3. Spot(p) \in top <=> p[2] < Now.rows - 1
      <4>1. Spot(p) \in Rectangle(0 * GlyphWidth + Now.deltaX, 0 * GlyphHeight + Now.deltaY,
                                  Now.cols * GlyphWidth, (Now.rows - 1) * GlyphHeight)
              <=> p[1] \in 0 .. 0 + Now.cols - 1 /\ p[2] \in 0 .. 0 + (Now.rows - 1) - 1
        BY SMTT(40), <3>1, SpotIn
      <4>2. p[1] \in 0 .. 0 + Now.cols - 1
            /\ (p[2] \in 0 .. 0 + (Now.rows - 1) - 1 <=> p[2] < Now.rows - 1)
        BY <3>1
      <4> QED
        BY <3>1, <4>1, <4>2
    <3>4. Spot(p) \in last <=> p[2] = Now.rows - 1
      <4>1. Spot(p) \in Rectangle(0 * GlyphWidth + Now.deltaX,
                                  (Now.rows - 1) * GlyphHeight + Now.deltaY,
                                  Now.cols * GlyphWidth, 1 * GlyphHeight)
              <=> p[1] \in 0 .. 0 + Now.cols - 1 /\ p[2] \in Now.rows - 1 .. (Now.rows - 1) + 1 - 1
        BY SMTT(40), <3>1, SpotIn
      <4>2. p[1] \in 0 .. 0 + Now.cols - 1
            /\ (p[2] \in Now.rows - 1 .. (Now.rows - 1) + 1 - 1 <=> p[2] = Now.rows - 1)
        BY <3>1
      <4>3. h + Now.deltaY = Now.deltaY + h
        BY <3>1, <3>2
      <4> QED
        BY <3>1, <4>1, <4>2, <4>3
    <3>5. h + GlyphHeight = Now.rows * GlyphHeight
      <4>1. ((Now.rows - 1) + 1) * GlyphHeight = h + 1 * GlyphHeight
        BY <3>1, TimesSum
      <4>2. (Now.rows - 1) + 1 = Now.rows
        BY <3>1
      <4> QED
        BY <3>1, <4>1, <4>2
    <3>6. Rectangle(Now.deltaX, Now.deltaY, w, h + GlyphHeight) \subseteq Dots(gop)
      BY <3>5 DEF PageOf, Facing
    <3>7. d.s = Paint(up, last, Blank)
      BY <1>1, <2>3 DEF FedScreen
    <3> HIDE DEF w, h
    <3>8. /\ c.s \in [Dots(gop) -> Pixel] /\ up \in [Dots(gop) -> Pixel]
          /\ last \subseteq Dots(gop)
      <4>1. /\ Now.deltaX \in Int /\ Now.deltaY + h \in Int /\ w \in Int /\ GlyphHeight \in Int
            /\ Now.deltaY \in Int /\ h \in Int /\ h + GlyphHeight \in Int
            /\ Now.deltaX <= Now.deltaX /\ Now.deltaY <= Now.deltaY + h
            /\ Now.deltaX + w <= Now.deltaX + w
            /\ (Now.deltaY + h) + GlyphHeight <= Now.deltaY + (h + GlyphHeight)
        BY <3>1, <3>2
      <4>2. last \subseteq Rectangle(Now.deltaX, Now.deltaY, w, h + GlyphHeight)
        BY <4>1, RectangleWithin
      <4>3. c.s \in [Dots(gop) -> Pixel]
        BY DEF Canvas
      <4>4. up \in [Dots(gop) -> Pixel]
        BY <4>1, <4>3, ScrollTyped
      <4>5. last \subseteq Dots(gop)
        BY <3>6, <4>2
      <4> QED
        BY <4>3, <4>4, <4>5
    <3>9. up = [q \in Dots(gop) |-> IF q \in top THEN c.s[<<q[1], q[2] + GlyphHeight>>] ELSE c.s[q]]
      BY <3>6, <3>8 DEF Scroll
    <3> HIDE DEF up, last
    <3>10. d.s = [q \in Dots(gop) |-> IF q \in last THEN Plain(Blank) ELSE up[q]]
      BY <3>7, <3>8 DEF Paint
    <3>11. CASE p[2] < Now.rows - 1
      <4> DEFINE q == <<p[1], p[2] + 1>>
      <4>1. q \in Cells
        BY <3>1, <3>11, CellsAre
      <4>2. Spot(q) = <<Spot(p)[1], Spot(p)[2] + GlyphHeight>>
        <5>1. (p[2] + 1) * GlyphHeight = p[2] * GlyphHeight + 1 * GlyphHeight
          BY <3>1, TimesSum
        <5>2. p[2] * GlyphHeight \in Nat
          BY <3>1, TimesNat
        <5> DEFINE y == p[2] * GlyphHeight
        <5>3. (p[2] + 1) * GlyphHeight = y + GlyphHeight /\ y \in Nat
          BY <3>1, <5>1, <5>2
        <5> HIDE DEF y
        <5>4. (y + GlyphHeight) + Now.deltaY = (y + Now.deltaY) + GlyphHeight
          BY <3>1, <5>3
        <5> QED
          BY <5>3, <5>4 DEF Spot, y
      <4>3. d.s[Spot(p)] = up[Spot(p)]
        BY <2>1, <3>1, <3>4, <3>10, <3>11
      <4>4. up[Spot(p)] = c.s[<<Spot(p)[1], Spot(p)[2] + GlyphHeight>>]
        BY <2>1, <3>3, <3>9, <3>11
      <4>5. t.page[p] = c.s[Spot(q)].shows
        BY <1>2, <1>3, <2>3, <3>11, <4>1
      <4> HIDE DEF q
      <4> QED
        BY <2>1, <4>2, <4>3, <4>4, <4>5
    <3>12. CASE ~(p[2] < Now.rows - 1)
      <4>1. Spot(p) \in last
        BY <3>1, <3>4, <3>12
      <4>2. d.s[Spot(p)] = Plain(Blank)
        BY <2>1, <3>10, <4>1
      <4>3. t.page[p] = Blank
        BY <1>3, <2>3, <3>12
      <4> QED
        BY <2>1, <4>2, <4>3 DEF Plain
    <3> QED
      BY <3>11, <3>12
  <2> QED
    BY <2>2, <2>3
<1>5. Abs(d) = t
  BY <1>1, <1>3, <1>4, AbsTyped, SameText
<1> QED
  BY <1>5 DEF d, t

-----------------------------------------------------------------------------
\* Every character of a string, as the terminal's client sees it.
LEMMA AbsReturn ==
    ASSUME Facing, NEW c \in Canvas
    PROVE  /\ Abs([c EXCEPT !.col = 0]) = T!Return(Abs(c))
           /\ Abs([c EXCEPT !.col = 0]) \in Text
<1> DEFINE d == [c EXCEPT !.col = 0]
           t == T!Return(Abs(c))
<1>1. d \in Canvas /\ d.col = 0 /\ d.s = c.s /\ d.row = c.row /\ d.wide = c.wide
  BY Returned
<1>2. /\ Abs(c) \in Text /\ Abs(c).row = c.row /\ Abs(c).wide = c.wide
      /\ \A p \in Cells : Abs(c).page[p] = c.s[Spot(p)].shows
  BY AbsTyped
<1>3. t \in Text /\ t.col = 0 /\ t.row = c.row /\ t.wide = c.wide /\ t.page = Abs(c).page
  BY <1>2 DEF T!Return, Text
<1> HIDE DEF d, t
<1>4. \A p \in Cells : Abs(d).page[p] = t.page[p]
  BY <1>1, <1>2, <1>3, AbsTyped
<1>5. Abs(d) = t /\ Abs(d) \in Text
  BY <1>1, <1>3, <1>4, AbsTyped, SameText
<1> QED
  BY <1>5 DEF d, t

\* A wrap is the terminal's.
LEMMA AbsWrapped ==
    ASSUME Facing, NEW c \in Canvas, c.row < Now.rows, c.col <= Now.cols
    PROVE  Abs(Wrapped(c)) = T!Wrap(Abs(c))
<1> DEFINE d == [c EXCEPT !.col = 0]
<1>1. d \in Canvas /\ d.row = c.row
  BY Returned
<1>2. Abs(c).col = c.col /\ c.col \in Nat
  BY AbsTyped DEF Canvas
<1>3. ShownSize[1] = Now.cols /\ Now.cols \in Nat
  BY CellsAre
<1>4. CASE c.col = Now.cols
  <2>1. Wrapped(c) = LineFeed(d)
    BY <1>2, <1>3, <1>4 DEF Wrapped
  <2>2. T!Wrap(Abs(c)) = T!Down(T!Return(Abs(c)))
    BY <1>2, <1>3, <1>4 DEF T!Wrap
  <2>3. Abs(d) = T!Return(Abs(c))
    BY AbsReturn
  <2> HIDE DEF d
  <2>4. Abs(LineFeed(d)) = T!Down(Abs(d))
    BY <1>1, AbsFeed
  <2> QED
    BY <2>1, <2>2, <2>3, <2>4
<1>5. CASE c.col # Now.cols
  <2>1. Wrapped(c) = c
    BY <1>2, <1>3, <1>5 DEF Wrapped
  <2>2. T!Wrap(Abs(c)) = Abs(c)
    BY <1>2, <1>3, <1>5 DEF T!Wrap
  <2> QED
    BY <2>1, <2>2
<1> QED
  BY <1>4, <1>5

\* What is drawn and then wrapped.
LEMMA AbsDrawn ==
    ASSUME Facing, NEW c, Inside(c), NEW ch \in Chars \cup {Blank}, NEW w \in Nat,
           c.col + w <= Now.cols
    PROVE  Abs(Wrapped(DrawAtCursor(c, ch, w))) = T!Wrap(T!Write(Abs(c), ch, w))
<1> DEFINE d == DrawAtCursor(c, ch, w)
<1>1. d \in Canvas /\ d.col = c.col + w /\ d.row = c.row /\ c.row < Now.rows
  BY DrawTyped DEF Inside
<1>2. Abs(d) = T!Write(Abs(c), ch, w)
  BY AbsDraw
<1> HIDE DEF d
<1>3. Abs(Wrapped(d)) = T!Wrap(Abs(d))
  BY <1>1, AbsWrapped
<1> QED
  BY <1>2, <1>3 DEF d

\* The nested space writes a blank and wraps.
LEMMA AbsSpace ==
    ASSUME Facing, NEW c, Inside(c)
    PROVE  Abs(Space(c)) = T!Wrap(T!Write(Abs(c), Blank, 1))
<1> DEFINE d == FlushCursor(c)
           e == Wrapped(DrawAtCursor(d, Blank, 1))
<1>0. Ready /\ c \in Canvas /\ c.col < Now.cols /\ c.row < Now.rows
  BY DEF Facing, Inside
<1>1. d \in Canvas /\ d.col = c.col /\ d.row = c.row
  BY <1>0, FlushTyped
<1>2. Inside(d) /\ d.col + 1 <= Now.cols
  <2>1. c.col \in Nat /\ Now.cols \in Nat
    BY <1>0, CellsAre DEF Canvas
  <2> QED
    BY <1>0, <1>1, <2>1 DEF Inside
<1>3. Abs(d) = Abs(c)
  BY <1>0, AbsFlush
<1>4. Space(c) = FlushCursor(e)
  BY <1>0, SpaceTyped
<1> HIDE DEF d
<1>5. Abs(e) = T!Wrap(T!Write(Abs(d), Blank, 1))
  <2>1. Blank \in Chars \cup {Blank} /\ 1 \in Nat
    OBVIOUS
  <2> QED
    BY <1>2, <2>1, AbsDrawn
<1>6. e \in Canvas
  <2>1. Blank \in Chars \cup {Blank} /\ 1 \in Nat
    OBVIOUS
  <2>2. DrawAtCursor(d, Blank, 1) \in Canvas /\ DrawAtCursor(d, Blank, 1).row = d.row
    BY <1>1, <2>1, DrawTyped
  <2>3. Inside(e)
    BY <1>0, <1>1, <2>2, WrappedInside
  <2> QED
    BY <2>3 DEF Inside
<1> HIDE DEF e
<1>7. Abs(FlushCursor(e)) = Abs(e)
  BY <1>6, AbsFlush
<1> QED
  BY <1>3, <1>4, <1>5, <1>7

\* A character is typed, a wide one at the end of a line after a blank.
LEMMA AbsCharacter ==
    ASSUME Facing, NEW c, Inside(c), NEW ch \in Chars
    PROVE  Abs(Character(c, ch)) = T!Type(Abs(c), ch)
<1>0. /\ Ready /\ c \in Canvas /\ c.col < Now.cols /\ c.row < Now.rows /\ ch \in Chars \cup {Blank}
      /\ c.col \in Nat /\ c.wide \in BOOLEAN
      /\ Now.cols \in Nat /\ Now.cols > 1 /\ ShownSize[1] = Now.cols
      /\ 1 \in Nat /\ 2 \in Nat
  BY CellsAre DEF Facing, Inside, Canvas
<1>1. Abs(c).col = c.col /\ Abs(c).wide = c.wide
  BY <1>0, AbsTyped
<1>2. CASE ~c.wide
  <2>1. Character(c, ch) = Wrapped(DrawAtCursor(c, ch, 1))
    BY <1>0, <1>2, CharacterTyped
  <2>2. c.col + 1 <= Now.cols
    BY <1>0
  <2>3. Abs(Wrapped(DrawAtCursor(c, ch, 1))) = T!Wrap(T!Write(Abs(c), ch, 1))
    BY <1>0, <2>2, AbsDrawn
  <2>4. T!Type(Abs(c), ch) = T!Wrap(T!Write(Abs(c), ch, 1))
    BY <1>0, <1>1, <1>2, <2>2 DEF T!Type
  <2> QED
    BY <2>1, <2>3, <2>4
<1>3. CASE c.wide
  <2>1. CASE c.col + 2 > Now.cols
    <3> DEFINE d == Space(c)
               t == T!Wrap(T!Write(Abs(c), Blank, 1))
    <3>1. Character(c, ch) = Wrapped(DrawAtCursor(d, ch, 2))
      BY <1>0, <1>3, <2>1, CharacterTyped
    <3>2. T!Type(Abs(c), ch) = T!Wrap(T!Write(t, ch, 2))
      BY <1>0, <1>1, <1>3, <2>1 DEF T!Type
    <3>3. Abs(d) = t
      BY AbsSpace
    <3>4. Inside(d)
      BY <1>0, SpaceTyped
    <3>5. d.col = 0
      <4> DEFINE f == FlushCursor(c)
                 b == DrawAtCursor(f, Blank, 1)
      <4>1. f \in Canvas /\ f.col = c.col /\ f.row = c.row
        BY <1>0, FlushTyped
      <4>2. Space(c) = FlushCursor(Wrapped(b))
        BY <1>0, SpaceTyped
      <4> HIDE DEF f
      <4>3. b \in Canvas /\ b.col = c.col + 1 /\ b.row = c.row
        <5>1. Blank \in Chars \cup {Blank} /\ 1 \in Nat
          OBVIOUS
        <5>2. b \in Canvas /\ b.col = f.col + 1 /\ b.row = f.row
          BY <4>1, <5>1, DrawTyped
        <5> HIDE DEF b
        <5> QED
          BY <4>1, <5>2
      <4> HIDE DEF b
      <4>4. b.col >= Now.cols
        BY <1>0, <2>1, <4>3
      <4> DEFINE e == [b EXCEPT !.col = 0]
      <4>5. e \in Canvas /\ e.col = 0 /\ e.row = c.row
        BY <4>3, Returned
      <4>6. Wrapped(b) = LineFeed(e)
        BY <4>4 DEF Wrapped
      <4> HIDE DEF e
      <4>7. LineFeed(e) \in Canvas /\ LineFeed(e).col = 0
        BY <1>0, <4>5, FeedTyped
      <4>8. FlushCursor(LineFeed(e)).col = 0
        BY <1>0, <4>7, FlushTyped
      <4> QED
        BY <4>2, <4>6, <4>8
    <3> HIDE DEF d
    <3>6. Abs(Wrapped(DrawAtCursor(d, ch, 2))) = T!Wrap(T!Write(Abs(d), ch, 2))
      <4>1. d.col + 2 <= Now.cols
        BY <1>0, <3>5
      <4> QED
        BY <1>0, <3>4, <4>1, AbsDrawn
    <3> QED
      BY <3>1, <3>2, <3>3, <3>6
  <2>2. CASE ~(c.col + 2 > Now.cols)
    <3>1. Character(c, ch) = Wrapped(DrawAtCursor(c, ch, 2))
      BY <1>0, <1>3, <2>2, CharacterTyped
    <3>2. T!Type(Abs(c), ch) = T!Wrap(T!Write(Abs(c), ch, 2))
      BY <1>0, <1>1, <1>3, <2>2 DEF T!Type
    <3>3. c.col + 2 <= Now.cols
      BY <1>0, <2>2
    <3>4. Abs(Wrapped(DrawAtCursor(c, ch, 2))) = T!Wrap(T!Write(Abs(c), ch, 2))
      BY <1>0, <3>3, AbsDrawn
    <3> QED
      BY <3>1, <3>2, <3>4
  <2> QED
    BY <2>1, <2>2
<1> QED
  BY <1>0, <1>2, <1>3

\* The cursor goes back onto a cell, blanks it, and returns to it.
LEMMA AbsOver ==
    ASSUME Facing, NEW c, Inside(c), c.row < Now.rows - 1 \/ c.col < Now.cols - 1
    PROVE  Abs([FlushCursor(Space(c)) EXCEPT !.col = c.col, !.row = c.row])
             = T!Blanked(Abs(c))
<1> DEFINE d == FlushCursor(Space(c))
           e == [d EXCEPT !.col = c.col, !.row = c.row]
           w == T!Write(Abs(c), Blank, 1)
           t == T!Blanked(Abs(c))
           u == Abs(d)
<1>0. /\ Ready /\ c \in Canvas /\ c.col < Now.cols /\ c.row < Now.rows
      /\ c.col \in Nat /\ c.row \in Nat /\ Now.cols \in Nat /\ Now.rows \in Nat
      /\ ShownSize[1] = Now.cols /\ ShownSize[2] = Now.rows
  BY CellsAre DEF Facing, Inside, Canvas
<1>1. /\ Abs(c) \in Text /\ Abs(c).col = c.col /\ Abs(c).row = c.row /\ Abs(c).wide = c.wide
  BY <1>0, AbsTyped
<1>2. /\ w \in Text /\ w.col = c.col + 1 /\ w.row = c.row /\ w.wide = c.wide
  <2>1. Blank \in Chars \cup {Blank} /\ 1 \in Nat
    OBVIOUS
  <2> DEFINE a == Abs(c)
             n == 1
  <2>2. a \in Text /\ n \in Nat /\ w = T!Write(a, Blank, n)
    BY <1>1
  <2> HIDE DEF a, n, w
  <2>3. w \in Text /\ w.col = a.col + n /\ w.row = a.row /\ w.wide = a.wide
    BY <2>1, <2>2, WriteIs
  <2> QED
    BY <1>1, <2>3 DEF a, n
<1>3. t = [w EXCEPT !.col = c.col]
  BY <1>1 DEF T!Blanked
<1> HIDE DEF w
<1>4. t \in Text /\ t.col = c.col /\ t.row = c.row /\ t.wide = c.wide /\ t.page = w.page
  BY <1>0, <1>2, <1>3 DEF Text
<1>5. /\ d \in Canvas /\ u = T!Wrap(w) /\ d.wide = c.wide
  <2>1. Inside(Space(c)) /\ Space(c).wide = c.wide
    BY <1>0, SpaceTyped
  <2>2. Space(c) \in Canvas
    BY <2>1 DEF Inside
  <2>3. Abs(d) = Abs(Space(c))
    BY <2>2, AbsFlush
  <2>4. d \in Canvas /\ d.wide = c.wide
    BY <1>0, <2>1, <2>2, FlushTyped
  <2> QED
    BY <2>3, <2>4, AbsSpace DEF w
<1>6. u.page = w.page
  <2>1. CASE w.col = Now.cols
    <3>1. T!Wrap(w) = T!Down(T!Return(w))
      BY <1>0, <2>1 DEF T!Wrap
    <3>2. T!Return(w) \in Text /\ T!Return(w).page = w.page /\ T!Return(w).row = c.row
      BY <1>2 DEF T!Return, Text
    <3>3. c.row < Now.rows - 1
      BY <1>0, <1>2, <2>1
    <3>4. T!Down(T!Return(w)) = [T!Return(w) EXCEPT !.row = c.row + 1]
      BY <1>0, <3>2, <3>3 DEF T!Down
    <3> HIDE DEF t
    <3>5. T!Down(T!Return(w)).page = w.page
      BY <3>2, <3>4 DEF Text
    <3> QED
      BY <1>5, <3>1, <3>5
  <2>2. CASE w.col # Now.cols
    <3>1. T!Wrap(w) = w
      BY <1>0, <2>2 DEF T!Wrap
    <3> QED
      BY <1>5, <3>1
  <2> QED
    BY <2>1, <2>2
<1> HIDE DEF d, t, u
<1>7. /\ e \in Canvas /\ e.s = d.s /\ e.col = c.col /\ e.row = c.row /\ e.wide = d.wide
  BY <1>0, <1>5 DEF Canvas
<1>8. u = Abs(d)
  BY DEF u
<1> HIDE DEF e
<1>9. \A p \in Cells : Abs(e).page[p] = t.page[p]
  <2>1. \A p \in Cells : Abs(e).page[p] = d.s[Spot(p)].shows
    BY <1>7, AbsTyped
  <2>2. \A p \in Cells : Abs(d).page[p] = d.s[Spot(p)].shows
    BY <1>5, AbsTyped
  <2> QED
    BY <1>4, <1>6, <1>8, <2>1, <2>2
<1>10. Abs(e) \in Text /\ Abs(e).col = c.col /\ Abs(e).row = c.row /\ Abs(e).wide = c.wide
  BY <1>5, <1>7, AbsTyped
<1>11. Abs(e) = t
  BY <1>4, <1>9, <1>10, SameText
<1> QED
  BY <1>11 DEF e, d, t

\* A backspace, which lets two spaces be written and the cursor set back, is the
\* terminal's.
LEMMA AbsBackspace ==
    ASSUME Facing, NEW c, Inside(c)
    PROVE  Abs(Backspace(c)) = T!BackSpace(Abs(c))
<1>0. /\ c \in Canvas /\ c.col < Now.cols /\ c.row < Now.rows
      /\ c.col \in Nat /\ c.row \in Nat /\ Now.cols \in Nat /\ Now.rows \in Nat /\ Now.cols > 1
      /\ ShownSize[1] = Now.cols
  BY CellsAre DEF Inside, Canvas
<1>1. /\ Abs(c) \in Text /\ Abs(c).col = c.col /\ Abs(c).row = c.row /\ Abs(c).wide = c.wide
  BY <1>0, AbsTyped
<1> DEFINE over(to) == [FlushCursor(Space(to)) EXCEPT !.col = to.col, !.row = to.row]
<1>2. ASSUME NEW d, d \in Canvas, d.col < Now.cols, d.row < Now.rows,
             d.row < Now.rows - 1 \/ d.col < Now.cols - 1
      PROVE  Abs(over(d)) = T!Blanked(Abs(d))
  BY <1>2, AbsOver DEF Inside
<1>3. CASE c.col > 0
  <2> DEFINE d == [c EXCEPT !.col = c.col - 1]
             t == [Abs(c) EXCEPT !.col = c.col - 1]
  <2>1. /\ d \in Canvas /\ d.col = c.col - 1 /\ d.row = c.row /\ d.s = c.s /\ d.wide = c.wide
    BY <1>0, <1>3 DEF Canvas
  <2>2. /\ t \in Text /\ t.col = c.col - 1 /\ t.row = c.row /\ t.wide = c.wide
        /\ t.page = Abs(c).page
    BY <1>0, <1>1, <1>3 DEF Text
  <2>3. Backspace(c) = over(d)
    BY <1>0, <1>3 DEF Backspace
  <2>4. T!BackSpace(Abs(c)) = T!Blanked(t)
    BY <1>0, <1>1, <1>3 DEF T!BackSpace
  <2> HIDE DEF d, t
  <2>5. \A p \in Cells : Abs(d).page[p] = t.page[p]
    <3>1. \A p \in Cells : Abs(d).page[p] = d.s[Spot(p)].shows
      BY <2>1, AbsTyped
    <3>2. \A p \in Cells : Abs(c).page[p] = c.s[Spot(p)].shows
      BY <1>0, AbsTyped
    <3> QED
      BY <2>1, <2>2, <3>1, <3>2
  <2>6. Abs(d) = t
    <3>1. Abs(d) \in Text /\ Abs(d).col = d.col /\ Abs(d).row = d.row /\ Abs(d).wide = d.wide
      BY <2>1, AbsTyped
    <3> QED
      BY <2>1, <2>2, <2>5, <3>1, SameText
  <2>7. d.col < Now.cols - 1 /\ d.col < Now.cols /\ d.row < Now.rows
    BY <1>0, <2>1
  <2> HIDE DEF over
  <2> QED
    BY <1>2, <2>1, <2>3, <2>4, <2>6, <2>7
<1>4. CASE c.col = 0 /\ c.row > 0
  <2> DEFINE d == [c EXCEPT !.row = c.row - 1, !.col = Now.cols - 1]
             t == [Abs(c) EXCEPT !.col = Now.cols - 1, !.row = c.row - 1]
  <2>1. /\ d \in Canvas /\ d.col = Now.cols - 1 /\ d.row = c.row - 1 /\ d.s = c.s
        /\ d.wide = c.wide
    <3>1. Now.cols - 1 \in Nat /\ c.row - 1 \in Nat
      BY <1>0, <1>4
    <3> QED
      BY <1>0, <3>1 DEF Canvas
  <2>2. /\ t \in Text /\ t.col = Now.cols - 1 /\ t.row = c.row - 1 /\ t.wide = c.wide
        /\ t.page = Abs(c).page
    <3>1. Now.cols - 1 \in Nat /\ c.row - 1 \in Nat
      BY <1>0, <1>4
    <3> QED
      BY <1>1, <3>1 DEF Text
  <2>3. Backspace(c) = over(d)
    BY <1>0, <1>4 DEF Backspace
  <2>4. T!BackSpace(Abs(c)) = T!Blanked(t)
    BY <1>0, <1>1, <1>4 DEF T!BackSpace
  <2> HIDE DEF d, t
  <2>5. \A p \in Cells : Abs(d).page[p] = t.page[p]
    <3>1. \A p \in Cells : Abs(d).page[p] = d.s[Spot(p)].shows
      BY <2>1, AbsTyped
    <3>2. \A p \in Cells : Abs(c).page[p] = c.s[Spot(p)].shows
      BY <1>0, AbsTyped
    <3> QED
      BY <2>1, <2>2, <3>1, <3>2
  <2>6. Abs(d) = t
    <3>1. Abs(d) \in Text /\ Abs(d).col = d.col /\ Abs(d).row = d.row /\ Abs(d).wide = d.wide
      BY <2>1, AbsTyped
    <3> QED
      BY <2>1, <2>2, <2>5, <3>1, SameText
  <2>7. d.row < Now.rows - 1 /\ d.col < Now.cols /\ d.row < Now.rows
    BY <1>0, <2>1
  <2> HIDE DEF over
  <2> QED
    BY <1>2, <2>1, <2>3, <2>4, <2>6, <2>7
<1>5. CASE c.col = 0 /\ ~(c.row > 0)
  <2>1. Backspace(c) = c
    BY <1>0, <1>5 DEF Backspace
  <2>2. T!BackSpace(Abs(c)) = Abs(c)
    BY <1>0, <1>1, <1>5 DEF T!BackSpace
  <2> QED
    BY <2>1, <2>2
<1> QED
  BY <1>0, <1>3, <1>4, <1>5

\* The cases of Effect, one by one.
LEMMA EffectCases ==
    ASSUME NEW t
    PROVE  /\ T!Effect(t, "BS") = T!BackSpace(t)
           /\ T!Effect(t, "LF") = T!Down(t)
           /\ T!Effect(t, "CR") = T!Return(t)
           /\ T!Effect(t, "WIDE") = [t EXCEPT !.wide = TRUE]
           /\ T!Effect(t, "NARROW") = [t EXCEPT !.wide = FALSE]
           /\ \A ch : ch \notin Controls => T!Effect(t, ch) = T!Type(t, ch)
BY DEF T!Effect, Controls

\* Every character of a string has the effect the terminal gives it.
LEMMA AbsItem ==
    ASSUME Facing, NEW c, Inside(c), NEW ch \in Chars \cup Controls
    PROVE  Abs(Item(c, ch)) = T!Effect(Abs(c), ch)
<1>0. c \in Canvas /\ c.row < Now.rows
  BY DEF Inside
<1>1. CASE ch = "BS"
  BY <1>1, AbsBackspace, ItemCases, EffectCases
<1>2. CASE ch = "LF"
  BY <1>0, <1>2, AbsFeed, ItemCases, EffectCases
<1>3. CASE ch = "CR"
  BY <1>0, <1>3, AbsReturn, ItemCases, EffectCases
<1>4. ASSUME NEW b \in BOOLEAN
      PROVE  Abs([c EXCEPT !.wide = b]) = [Abs(c) EXCEPT !.wide = b]
  <2> DEFINE d == [c EXCEPT !.wide = b]
             t == [Abs(c) EXCEPT !.wide = b]
  <2>1. d \in Canvas /\ d.s = c.s /\ d.col = c.col /\ d.row = c.row /\ d.wide = b
    BY <1>0 DEF Canvas
  <2>2. /\ Abs(c) \in Text /\ Abs(c).col = c.col /\ Abs(c).row = c.row
        /\ \A p \in Cells : Abs(c).page[p] = c.s[Spot(p)].shows
    BY <1>0, AbsTyped
  <2>3. t \in Text /\ t.col = c.col /\ t.row = c.row /\ t.wide = b /\ t.page = Abs(c).page
    BY <2>2 DEF Text
  <2> HIDE DEF d, t
  <2>4. \A p \in Cells : Abs(d).page[p] = t.page[p]
    BY <2>1, <2>2, <2>3, AbsTyped
  <2>5. Abs(d) = t
    BY <2>1, <2>3, <2>4, AbsTyped, SameText
  <2> QED
    BY <2>5 DEF d, t
<1>5. CASE ch = "WIDE"
  BY <1>4, <1>5, ItemCases, EffectCases
<1>6. CASE ch = "NARROW"
  BY <1>4, <1>6, ItemCases, EffectCases
<1>7. CASE ch \in Chars
  <2>1. ch \notin Controls
    BY <1>7, ConsoleAssumption
  <2>2. Item(c, ch) = Character(c, ch) /\ T!Effect(Abs(c), ch) = T!Type(Abs(c), ch)
    BY <2>1, ItemCases, EffectCases
  <2> QED
    BY <1>7, <2>2, AbsCharacter
<1> QED
  BY <1>1, <1>2, <1>3, <1>5, <1>6, <1>7 DEF Controls

\* What a string makes of a text is known from what it begins with and from what
\* every character of it does.
LEMMA TextWritten ==
    ASSUME NEW str, NEW n \in Nat, NEW a, NEW f \in [0 .. n -> Text],
           f[0] = a, \A k \in 1 .. n : f[k] = T!Effect(f[k - 1], str[k]),
           NEW t, t = CHOOSE h : h = [k \in 0 .. n |->
                        IF k = 0 THEN a ELSE T!Effect(h[k - 1], str[k])]
    PROVE  t = f
<1> DEFINE Grown(h) == h = [k \in 0 .. n |-> IF k = 0 THEN a ELSE T!Effect(h[k - 1], str[k])]
<1>1. Grown(f)
  <2>1. \A k \in 0 .. n : f[k] = IF k = 0 THEN a ELSE T!Effect(f[k - 1], str[k])
    <3>1. ASSUME NEW k \in 0 .. n
          PROVE  f[k] = IF k = 0 THEN a ELSE T!Effect(f[k - 1], str[k])
      <4>1. k # 0 => k \in 1 .. n
        OBVIOUS
      <4> QED
        BY <4>1
    <3> QED
      BY <3>1
  <2>2. [k \in 0 .. n |-> f[k]] = [k \in 0 .. n |->
          IF k = 0 THEN a ELSE T!Effect(f[k - 1], str[k])]
    BY <2>1, Zenon
  <2> QED
    BY <2>2
<1>2. t = CHOOSE h : Grown(h)
  OBVIOUS
<1> HIDE DEF Grown
<1>3. Grown(t)
  BY <1>1, <1>2
<1> DEFINE S == {k \in 0 .. n : t[k] = f[k]}
<1>4. \A k \in 0 .. n : t[k] = IF k = 0 THEN a ELSE T!Effect(t[k - 1], str[k])
  BY <1>3 DEF Grown
<1>5. 0 \in S
  BY <1>4
<1>6. ASSUME NEW k \in 0 .. n - 1, k \in S
      PROVE  k + 1 \in S
  <2>1. k + 1 \in 0 .. n /\ k + 1 # 0 /\ (k + 1) - 1 = k /\ k + 1 \in 1 .. n
    OBVIOUS
  <2>2. t[k + 1] = T!Effect(t[k], str[k + 1])
    BY <1>4, <2>1
  <2>3. f[k + 1] = T!Effect(f[k], str[k + 1])
    BY <2>1
  <2> QED
    BY <1>6, <2>1, <2>2, <2>3
<1>7. \A k \in 0 .. n : t[k] = f[k]
  <2> HIDE DEF S
  <2>1. \A k \in 0 .. n : k \in S
    BY <1>5, <1>6, CountUp
  <2> QED
    BY <2>1 DEF S
<1>8. t = [k \in 0 .. n |-> t[k]]
  <2>1. DOMAIN t = 0 .. n /\ t = [k \in DOMAIN t |-> t[k]]
    BY <1>3 DEF Grown
  <2> QED
    BY <2>1
<1>9. [k \in 0 .. n |-> t[k]] = [k \in 0 .. n |-> f[k]]
  BY <1>7, Zenon
<1> QED
  BY <1>8, <1>9, Zenon
-----------------------------------------------------------------------------
\* The terminal in the states of the console.
LEMMA PageIs == ShownPage = [p \in Cells |-> screen[Spot(p)].shows]
BY DEF ShownPage, Cells, Spot, T!CellsOf

\* While the page is in view the terminal shows what the canvas shows.
LEMMA ShownIs ==
    ASSUME IInv, Shown
    PROVE  /\ Facing /\ Inside(Here) /\ started /\ mode # -1 /\ gop = Now.gop
           /\ screen \in [Dots(gop) -> Pixel]
           /\ ShownCursor = <<column, row>>
           /\ ShownPage = Abs(Here).page
           /\ ShownSize # T!None
           /\ ShownPage \in [Cells -> Chars \cup {Blank}]
           /\ <<column, row>> \in Cells
<1>1. screen \in [Dots(gop) -> Pixel] /\ DOMAIN screen = Dots(gop)
  BY DEF IInv, TypeOK
<1>2. /\ started /\ mode # -1 /\ gop = Now.gop /\ PageOf(Now) \subseteq Dots(gop)
      /\ ShownSize = <<Now.cols, Now.rows>> /\ ShownCursor = <<column, row>>
  BY <1>1 DEF Shown, ShownSize, ShownCursor
<1>3. Ready /\ Inside(Here)
  BY <1>2, ReadyNow DEF IInv
<1>4. Facing
  BY <1>2, <1>3 DEF Facing
<1>5. Here \in Canvas /\ Here.s = screen /\ Here.col = column /\ Here.row = row
  BY <1>3 DEF Inside, Here
<1>6. Abs(Here).page = [p \in Cells |-> screen[Spot(p)].shows]
  BY <1>5 DEF Abs
<1>7. ShownPage = Abs(Here).page
  BY <1>6, PageIs
<1>8. Abs(Here) \in Text
  BY <1>4, <1>5, AbsTyped
<1>9. ShownSize # T!None
  BY <1>2, <1>3 DEF Ready, T!None
<1>10. <<column, row>> \in Cells
  <2>1. column \in Nat /\ row \in Nat /\ column < Now.cols /\ row < Now.rows
    BY <1>3, <1>5 DEF Inside, Canvas
  <2> QED
    BY <1>4, <2>1, CellsAre
<1> QED
  BY <1>1, <1>2, <1>3, <1>4, <1>7, <1>8, <1>9, <1>10 DEF Text

\* While it is not, the terminal has no page.
LEMMA HiddenIs ==
    ~Shown => /\ ShownSize = T!None /\ ShownPage = T!Empty(T!None)
              /\ ShownCursor = <<0, 0>>
<1> SUFFICES ASSUME ~Shown
             PROVE  /\ ShownSize = T!None /\ ShownPage = T!Empty(T!None)
                    /\ ShownCursor = <<0, 0>>
  OBVIOUS
<1>1. ShownSize = <<0, 0>> /\ ShownCursor = <<0, 0>>
  BY DEF ShownSize, ShownCursor
<1>2. Cells = {} /\ T!CellsOf(<<0, 0>>) = {}
  BY <1>1 DEF Cells, T!CellsOf
<1>3. ShownPage = T!Empty(<<0, 0>>)
  BY <1>2, PageIs DEF T!Empty
<1> QED
  BY <1>1, <1>3 DEF T!None

\* What the page shows and where it is change together in a step.
LEMMA Vanishes ==
    ASSUME ~Shown'
    PROVE  T!Vanish
<1>1. (~Shown => /\ ShownSize = T!None /\ ShownPage = T!Empty(T!None)
                 /\ ShownCursor = <<0, 0>>)'
  BY HiddenIs, PTL
<1>2. /\ ShownSize' = T!None /\ ShownPage' = T!Empty(T!None)' /\ ShownCursor' = <<0, 0>>
  BY <1>1
<1>3. T!Empty(T!None)' = T!Empty(T!None)
  BY DEF T!Empty, T!None, T!CellsOf
<1> QED
  BY <1>2, <1>3 DEF T!Vanish

\* A page in view, whatever it shows, with the cursor on one of its cells.
InView == /\ ShownCursor = <<column, row>>
          /\ ShownSize # T!None
          /\ ShownPage \in [Cells -> Chars \cup {Blank}]
          /\ <<column, row>> \in Cells
          /\ \A p \in Cells : Spot(p) \in DOMAIN screen

\* So it is whenever the terminal has one.
LEMMA ShownInView == IInv /\ Shown => InView
<1> SUFFICES ASSUME IInv, Shown
             PROVE  InView
  OBVIOUS
<1>1. \A p \in Cells : Spot(p) \in DOMAIN screen
  BY ShownIs, SpotOnScreen
<1> QED
  BY <1>1, ShownIs DEF InView

\* A page that comes into view is one that appears.
LEMMA Appears ==
    ASSUME ~Shown, Shown', IInv'
    PROVE  T!Appear
<1>1. (IInv /\ Shown => InView)'
  BY ShownInView, PTL
<1>2. /\ ShownCursor' = <<column', row'>>
      /\ ShownSize' # T!None
      /\ ShownPage' \in [Cells' -> Chars \cup {Blank}]
      /\ <<column', row'>> \in Cells'
  BY <1>1 DEF InView, T!None
<1>3. ShownSize = T!None
  BY HiddenIs
<1>4. Cells' = T!CellsOf(ShownSize')
  BY DEF Cells, T!CellsOf
<1>5. ShownCursor'[1] = column' /\ ShownCursor'[2] = row'
  BY <1>2
<1> QED
  BY <1>2, <1>3, <1>4, <1>5 DEF T!Appear

\* A function that leaves c, as the terminal's client sees it.
LEMMA LeavesShown ==
    ASSUME IInv, Shown, NEW c \in Canvas, screen' = c.s, column' = c.col, row' = c.row,
           UNCHANGED <<gop, started, modes, mode>>
    PROVE  /\ ShownSize' = ShownSize /\ ShownPage' = Abs(c).page
           /\ ShownCursor'[1] = c.col /\ ShownCursor'[2] = c.row
<1>1. Now' = Now
  BY DEF Now
<1>2. DOMAIN screen' = Dots(gop) /\ DOMAIN screen = Dots(gop)
  BY DEF Canvas, IInv, TypeOK
<1>3. Shown'
  BY <1>1, <1>2 DEF Shown
<1>4. ShownSize' = ShownSize /\ ShownCursor' = <<column', row'>>
  BY <1>1, <1>3 DEF ShownSize, ShownCursor
<1>5. Cells' = Cells
  BY <1>4 DEF Cells, T!CellsOf
<1>6. ShownPage' = [p \in Cells |-> c.s[Spot(p)].shows]
  <2>1. ShownPage' = [p \in Cells' |-> screen'[<<p[1] * GlyphWidth + Now'.deltaX,
                                                 p[2] * GlyphHeight + Now'.deltaY>>].shows]
    BY DEF ShownPage, Cells, T!CellsOf
  <2> QED
    BY <1>1, <1>5, <2>1 DEF Spot
<1> QED
  BY <1>4, <1>6 DEF Abs
-----------------------------------------------------------------------------
\* Every step of the console as one of the terminal.
LEMMA StringPut ==
    ASSUME IInv, Shown, NEW str \in Strings, OutputString(str)
    PROVE  T!PutString(str)
<1> DEFINE n == Len(str)
           after == CHOOSE f : f = [k \in 0 .. n |->
               IF k = 0 THEN FlushCursor(Here) ELSE Item(f[k - 1], str[k])]
           start == [page |-> ShownPage, col |-> ShownCursor[1], row |-> ShownCursor[2],
                     wide |-> FALSE]
           t == CHOOSE h : h = [k \in 0 .. n |->
               IF k = 0 THEN start ELSE T!Effect(h[k - 1], str[k])]
           f == [k \in 0 .. n |-> Abs(after[k])]
<1>0. str \in Seq(Chars \cup Controls) /\ n \in Nat
  BY ConsoleAssumption
<1>1. /\ screen' = FlushCursor(after[n]).s /\ column' = FlushCursor(after[n]).col
      /\ row' = FlushCursor(after[n]).row
      /\ UNCHANGED <<gop, started, modes, mode>>
  BY DEF OutputString, Leaves
<1>2. /\ Facing /\ Inside(Here) /\ Ready /\ mode # -1 /\ ShownCursor = <<column, row>>
      /\ ShownPage = Abs(Here).page /\ ShownSize # T!None
  BY ShownIs DEF Facing
<1>3. T!PutString(str) <=> /\ ShownSize # T!None
                           /\ ShownPage' = t[n].page /\ ShownCursor'[1] = t[n].col
                           /\ ShownCursor'[2] = t[n].row
                           /\ ShownSize' = ShownSize
  BY DEF T!PutString
<1> HIDE DEF after
<1>4. /\ after[0] = FlushCursor(Here)
      /\ \A k \in 1 .. n : after[k] = Item(after[k - 1], str[k])
      /\ \A k \in 0 .. n : Inside(after[k])
  BY <1>0, <1>2, StringWritten DEF after
<1>5. f = [k \in 0 .. n |-> f[k]] /\ \A k \in 0 .. n : f[k] = Abs(after[k])
  OBVIOUS
<1>6. f[0] = start
  <2>1. f[0] = Abs(FlushCursor(Here))
    BY <1>0, <1>4, <1>5
  <2>2. Here \in Canvas /\ Here.wide = FALSE /\ Here.col = column /\ Here.row = row
    BY <1>2 DEF Inside, Here
  <2>3. Abs(FlushCursor(Here)) = Abs(Here)
    BY <1>2, <2>2, AbsFlush
  <2>4. Abs(Here) = [page |-> Abs(Here).page, col |-> column, row |-> row, wide |-> FALSE]
    BY <2>2 DEF Abs
  <2> QED
    BY <1>2, <2>1, <2>3, <2>4
<1>7. ASSUME NEW k \in 1 .. n
      PROVE  f[k] = T!Effect(f[k - 1], str[k])
  <2>1. k \in 0 .. n /\ k - 1 \in 0 .. n
    BY <1>0
  <2>2. str[k] \in Chars \cup Controls
    BY <1>0
  <2>3. f[k] = Abs(Item(after[k - 1], str[k])) /\ f[k - 1] = Abs(after[k - 1])
    BY <1>4, <1>5, <2>1
  <2>4. Inside(after[k - 1])
    BY <1>4, <2>1
  <2> HIDE DEF f
  <2> QED
    BY <1>2, <2>2, <2>3, <2>4, AbsItem
<1> HIDE DEF f, start
<1>8. t = f
  <2>1. f \in [0 .. n -> Text]
    <3>1. \A k \in 0 .. n : Abs(after[k]) \in Text
      BY <1>2, <1>4, AbsTyped DEF Inside
    <3> QED
      BY <3>1 DEF f
  <2>2. t = CHOOSE h : h = [k \in 0 .. n |->
              IF k = 0 THEN start ELSE T!Effect(h[k - 1], str[k])]
    OBVIOUS
  <2> HIDE DEF n, t
  <2> QED
    BY <1>0, <1>6, <1>7, <2>1, TextWritten DEF t
<1> HIDE DEF t
<1> DEFINE d == after[n]
           e == FlushCursor(d)
<1>9. t[n] = Abs(d) /\ Inside(d)
  <2>1. n \in 0 .. n
    BY <1>0
  <2> QED
    BY <1>4, <1>5, <1>8, <2>1
<1> HIDE DEF d
<1>10. d \in Canvas /\ e \in Canvas /\ e.col = d.col /\ e.row = d.row /\ Abs(e) = Abs(d)
  <2>1. d \in Canvas
    BY <1>9 DEF Inside
  <2> QED
    BY <1>2, <2>1, FlushTyped, AbsFlush
<1>11. Abs(d).col = d.col /\ Abs(d).row = d.row
  BY <1>2, <1>10, AbsTyped
<1>12. screen' = e.s /\ column' = e.col /\ row' = e.row
  BY <1>1 DEF d
<1> HIDE DEF e
<1>13. /\ ShownSize' = ShownSize /\ ShownPage' = Abs(e).page
       /\ ShownCursor'[1] = e.col /\ ShownCursor'[2] = e.row
  BY <1>1, <1>10, <1>12, LeavesShown
<1> QED
  BY <1>2, <1>3, <1>9, <1>10, <1>11, <1>13

\* A cleared page is empty, but for the cursor.
LEMMA ClearedShows ==
    ASSUME IInv, Shown
    PROVE  /\ Cleared(Now) \in Canvas /\ Cleared(Now).col = 0 /\ Cleared(Now).row = 0
           /\ Abs(Cleared(Now)).page = T!Empty(ShownSize)
<1> DEFINE c == Cleared(Now)
           d == FlushCursor(c)
<1>1. Facing /\ mode # -1 /\ gop = Now.gop
  BY ShownIs
<1>2. c \in Canvas /\ c.col = 0 /\ c.row = 0 /\ d.s = BlackScreen(gop)
  BY <1>1, ClearedIs DEF Inside
<1> HIDE DEF c
<1>3. Abs(c) = Abs(d)
  BY <1>1, <1>2, AbsFlush
<1>4. Abs(d).page = [p \in Cells |-> BlackScreen(gop)[Spot(p)].shows]
  BY <1>2 DEF Abs
<1>5. \A p \in Cells : BlackScreen(gop)[Spot(p)].shows = Blank
  BY <1>1, SpotOnScreen DEF BlackScreen, Plain
<1>6. Abs(d).page = T!Empty(ShownSize)
  BY <1>4, <1>5, Zenon DEF T!Empty, Cells
<1> QED
  BY <1>2, <1>3, <1>6 DEF c

\* Clearing the screen clears the terminal.
LEMMA ClearedTo ==
    ASSUME IInv, Shown, screen' = Cleared(Now).s, column' = 0, row' = 0,
           UNCHANGED <<gop, started, modes, mode>>
    PROVE  T!Clear
<1> DEFINE c == Cleared(Now)
<1>1. c \in Canvas /\ c.col = 0 /\ c.row = 0 /\ Abs(c).page = T!Empty(ShownSize)
  BY ClearedShows
<1>2. screen' = c.s
  OBVIOUS
<1> HIDE DEF c
<1>3. /\ ShownSize' = ShownSize /\ ShownPage' = Abs(c).page
      /\ ShownCursor'[1] = 0 /\ ShownCursor'[2] = 0
  BY <1>1, <1>2, LeavesShown
<1>4. ShownSize # T!None
  BY ShownIs
<1> QED
  BY <1>1, <1>3, <1>4 DEF T!Clear

\* Where the characters stay and the cursor goes nowhere, nothing is seen.
LEMMA Unseen ==
    ASSUME IInv, Shown, screen' \in [Dots(gop) -> Pixel],
           \A p \in Dots(gop) : screen'[p].shows = screen[p].shows,
           UNCHANGED <<gop, started, modes, mode, column, row>>
    PROVE  UNCHANGED T!tvars
<1>1. /\ Facing /\ Here \in Canvas /\ ShownCursor = <<column, row>> /\ ShownPage = Abs(Here).page
      /\ Here.col = column /\ Here.row = row /\ Here.s = screen
  BY ShownIs DEF Inside, Here
<1> DEFINE c == [s |-> screen', col |-> column, row |-> row, wide |-> FALSE]
<1>2. column \in Nat /\ row \in Nat
  BY DEF IInv, TypeOK
<1>3. c \in Canvas /\ c.s = screen' /\ c.col = column /\ c.row = row
  BY <1>2 DEF Canvas
<1> HIDE DEF c
<1>4. /\ ShownSize' = ShownSize /\ ShownPage' = Abs(c).page
      /\ ShownCursor'[1] = column /\ ShownCursor'[2] = row
  BY <1>3, LeavesShown
<1>5. Abs(c).page = Abs(Here).page
  <2>1. \A p \in Cells : c.s[Spot(p)].shows = Here.s[Spot(p)].shows
    BY <1>1, <1>3, SpotOnScreen
  <2> QED
    BY <2>1 DEF Abs
<1> QED
  BY <1>1, <1>4, <1>5 DEF T!tvars

\* Setting the cursor is the terminal's Goto.
LEMMA CursorGoes ==
    ASSUME IInv, Shown, NEW p \in Positions, SetCursorPosition(p[1], p[2])
    PROVE  T!Goto
<1> DEFINE x == p[1]
           y == p[2]
           b == FlushCursor(Here)
           d == [b EXCEPT !.col = x, !.row = y]
           e == FlushCursor(d)
<1>1. /\ x \in Nat /\ y \in Nat
  BY ConsoleAssumption
<1>2. /\ x < Now.cols /\ y < Now.rows
      /\ screen' = e.s /\ column' = e.col /\ row' = e.row
      /\ UNCHANGED <<gop, started, modes, mode>>
  BY DEF SetCursorPosition, Leaves
<1>3. /\ Facing /\ Ready /\ Here \in Canvas /\ ShownPage = Abs(Here).page /\ ShownSize # T!None
      /\ ShownSize[1] = Now.cols /\ ShownSize[2] = Now.rows
      /\ Now.cols \in Nat /\ Now.rows \in Nat
  BY ShownIs, CellsAre DEF Inside, Facing
<1> HIDE DEF x, y
<1>4. b \in Canvas /\ Abs(b) = Abs(Here)
  BY <1>3, FlushTyped, AbsFlush
<1> HIDE DEF b
<1>5. d \in Canvas /\ d.s = b.s /\ d.col = x /\ d.row = y
  BY <1>1, <1>4 DEF Canvas
<1>6. Abs(d).page = Abs(b).page
  BY <1>5 DEF Abs
<1> HIDE DEF d
<1>7. e \in Canvas /\ e.col = x /\ e.row = y /\ Abs(e) = Abs(d)
  BY <1>3, <1>5, FlushTyped, AbsFlush
<1> HIDE DEF e
<1>8. /\ ShownSize' = ShownSize /\ ShownPage' = Abs(e).page
      /\ ShownCursor'[1] = x /\ ShownCursor'[2] = y
  BY <1>2, <1>7, LeavesShown
<1>9. x \in 0 .. ShownSize[1] - 1 /\ y \in 0 .. ShownSize[2] - 1
  BY <1>1, <1>2, <1>3
<1> QED
  BY <1>3, <1>4, <1>6, <1>7, <1>8, <1>9 DEF T!Goto

\* Recolouring the cursor is not seen by the terminal's client.
LEMMA RecolourUnseen ==
    ASSUME IInv, Shown, NEW a \in Attributes, SetAttribute(a)
    PROVE  UNCHANGED T!tvars
<1> DEFINE k == Foreground(attribute)
           l == Foreground(a)
           area == Cell(Here)
           s == Invert(screen, area, k)
<1>1. /\ screen' = IF visible THEN Invert(s, area, l) ELSE screen
      /\ UNCHANGED <<gop, started, modes, mode, column, row>>
  BY DEF SetAttribute, Recoloured
<1>2. screen \in [Dots(gop) -> Pixel] /\ attribute \in 0 .. 127 /\ a \in 0 .. 127
  BY ConsoleAssumption DEF IInv, TypeOK
<1>3. k \in SUBSET (0 .. 15) /\ l \in SUBSET (0 .. 15)
  BY <1>2, ForegroundTyped
<1> HIDE DEF k, l, area
<1>4. s \in [Dots(gop) -> Pixel] /\ \A p \in Dots(gop) : s[p].shows = screen[p].shows
  BY <1>2, <1>3, InvertTyped, InvertShows
<1> HIDE DEF s
<1>5. /\ Invert(s, area, l) \in [Dots(gop) -> Pixel]
      /\ \A p \in Dots(gop) : Invert(s, area, l)[p].shows = s[p].shows
  BY <1>3, <1>4, InvertTyped, InvertShows
<1> QED
  BY <1>1, <1>2, <1>4, <1>5, Unseen

\* Nor is enabling or disabling it.
LEMMA EnableUnseen ==
    ASSUME IInv, Shown, NEW v \in BOOLEAN, EnableCursor(v)
    PROVE  UNCHANGED T!tvars
<1> DEFINE k == Foreground(attribute)
           s == Invert(screen, Cell(Here), k)
<1>1. /\ screen' = IF visible = v THEN screen ELSE s
      /\ UNCHANGED <<gop, started, modes, mode, column, row>>
  BY DEF EnableCursor
<1>2. screen \in [Dots(gop) -> Pixel] /\ attribute \in 0 .. 127
  BY DEF IInv, TypeOK
<1>3. k \in SUBSET (0 .. 15)
  BY <1>2, ForegroundTyped
<1> HIDE DEF k
<1>4. s \in [Dots(gop) -> Pixel] /\ \A p \in Dots(gop) : s[p].shows = screen[p].shows
  BY <1>2, <1>3, InvertTyped, InvertShows
<1> HIDE DEF s
<1> QED
  BY <1>1, <1>2, <1>4, Unseen

\* A new mode: its page is empty, with the cursor in its corner.
LEMMA ModeEntered ==
    ASSUME IInv, Shown, IInv', Shown', \A p \in DOMAIN screen' : screen'[p].shows = Blank,
           column' = 0, row' = 0
    PROVE  T!Clear \/ T!Resize
<1>1. (IInv /\ Shown => InView)'
  BY ShownInView, PTL
<1>2. /\ ShownCursor' = <<column', row'>>
      /\ ShownSize' # T!None
      /\ \A p \in Cells' : <<p[1] * GlyphWidth + Now'.deltaX, p[2] * GlyphHeight + Now'.deltaY>>
                             \in DOMAIN screen'
  BY <1>1 DEF InView, T!None, Spot
<1>3. ShownCursor'[1] = 0 /\ ShownCursor'[2] = 0
  BY <1>2
<1>4. ShownPage' = [p \in Cells' |-> screen'[<<p[1] * GlyphWidth + Now'.deltaX,
                                               p[2] * GlyphHeight + Now'.deltaY>>].shows]
  BY DEF ShownPage, Cells, T!CellsOf
<1>5. ShownPage' = [p \in Cells' |-> Blank]
  BY <1>2, <1>4
<1>6. ShownPage' = T!Empty(ShownSize')
  BY <1>5 DEF T!Empty, T!CellsOf, Cells
<1>7. ShownSize # T!None
  BY ShownIs
<1>8. CASE ShownSize' = ShownSize
  BY <1>3, <1>6, <1>7, <1>8 DEF T!Clear, T!Empty, T!CellsOf
<1>9. CASE ShownSize' # ShownSize
  BY <1>2, <1>3, <1>6, <1>9 DEF T!Resize
<1> QED
  BY <1>8, <1>9

\* SetMode and Reset clear the terminal, resize it or leave it.
LEMMA ModeSteps ==
    ASSUME IInv, Shown, IInv', Shown',
           NEW n \in 0 .. Len(modes) - 1, NEW allocates, NEW failing,
           NEW r, r = AfterSetMode(n, allocates, failing), Becomes(r), screen' = r.s,
           UNCHANGED <<started, modes>>
    PROVE  T!Clear \/ T!Resize \/ UNCHANGED T!tvars
<1> DEFINE m == modes[n + 1]
<1>0. /\ gop' = r.gop /\ mode' = r.mode /\ column' = r.col /\ row' = r.row
  BY DEF Becomes
<1>s. started /\ screen \in [Dots(gop) -> Pixel] /\ attribute \in 0 .. 127
  BY ShownIs DEF IInv, TypeOK
<1>1. CASE r = Unchanged
  <2>1. UNCHANGED <<gop, screen, mode, column, row>>
    BY <1>0, <1>1 DEF Unchanged
  <2> QED
    BY <1>s, <2>1, Unseen
<1>2. CASE r = [Unchanged EXCEPT !.ok = TRUE, !.s = Cleared(Now).s, !.col = 0, !.row = 0,
                                 !.disturbed = disturbed /\ gop # Now.gop]
  <2>1. screen' = Cleared(Now).s /\ column' = 0 /\ row' = 0 /\ UNCHANGED <<gop, mode>>
    BY <1>0, <1>2 DEF Unchanged
  <2> QED
    BY <2>1, ClearedTo
<1>3. ASSUME NEW l \in {"null", "live", "freed"},
             r = [Unchanged EXCEPT !.s = Erased, !.disturbed = TRUE, !.line = l]
      PROVE  UNCHANGED T!tvars
  <2>1. screen' = Erased /\ UNCHANGED <<gop, mode, column, row>>
    BY <1>0, <1>3 DEF Unchanged
  <2>2. Erased \in [Dots(gop) -> Pixel]
    BY ErasedTyped
  <2>3. \A p \in Dots(gop) : Erased[p].shows = screen[p].shows
    <3>1. FlushCursor(Here).s = IF visible THEN Invert(screen, Cell(Here), Colours) ELSE screen
      <4>1. Ready /\ Here \in Canvas /\ Here.s = screen
        BY ShownIs DEF Facing, Inside, Here
      <4> QED
        BY <4>1, FlushTyped
    <3> QED
      BY <1>s, <3>1, InvertShows DEF Erased
  <2> QED
    BY <2>1, <2>2, <2>3, Unseen
<1>4. CASE /\ n # 1 /\ m.gop \in 0 .. Len(GopModes) - 1 /\ ModeFor(m, m.gop)
           /\ r = [ok |-> TRUE, gop |-> m.gop, s |-> Corner(BlackScreen(m.gop), m), mode |-> n,
                   col |-> 0, row |-> 0, line |-> "live", disturbed |-> FALSE]
  <2>1. screen' = Corner(BlackScreen(m.gop), m) /\ column' = 0 /\ row' = 0
    BY <1>0, <1>4
  <2> HIDE DEF m
  <2>2. /\ Corner(BlackScreen(m.gop), m) \in [Dots(m.gop) -> Pixel]
        /\ \A p \in Dots(m.gop) : Corner(BlackScreen(m.gop), m)[p].shows = Blank
    BY <1>s, <1>4, CornerShown
  <2>3. \A p \in DOMAIN screen' : screen'[p].shows = Blank
    BY <2>1, <2>2
  <2> QED
    BY <2>1, <2>3, ModeEntered
<1> QED
  BY <1>s, <1>1, <1>2, <1>3, <1>4, AfterSetModeIs

\* A graphics client that keeps the resolution wipes the terminal.
LEMMA WipeIs ==
    ASSUME IInv, Shown, Shown', NEW g \in 0 .. Len(GopModes) - 1, GraphicsClient(g)
    PROVE  T!Wipe
<1>1. /\ gop' = g /\ screen' = BlackScreen(g)
      /\ UNCHANGED <<started, modes, mode, attribute, column, row, visible, line>>
  BY DEF GraphicsClient, console
<1>2. Now' = Now
  BY <1>1 DEF Now
<1>3. gop' = gop
  BY <1>2 DEF Shown
<1>4. /\ Facing /\ Here \in Canvas /\ ShownCursor = <<column, row>> /\ ShownSize # T!None
  BY ShownIs DEF Inside
<1> DEFINE c == [s |-> BlackScreen(g), col |-> column, row |-> row, wide |-> FALSE]
<1>5. BlackScreen(g) \in [Dots(gop) -> Pixel] /\ column \in Nat /\ row \in Nat
  BY <1>1, <1>3, BlackScreenTyped DEF IInv, TypeOK
<1>6. c \in Canvas /\ c.s = BlackScreen(g) /\ c.col = column /\ c.row = row
  BY <1>5 DEF Canvas
<1> HIDE DEF c
<1>7. /\ ShownSize' = ShownSize /\ ShownPage' = Abs(c).page
      /\ ShownCursor'[1] = column /\ ShownCursor'[2] = row
  BY <1>1, <1>3, <1>6, LeavesShown
<1>8. Abs(c).page = T!Empty(ShownSize)
  <2>1. Abs(c).page = [p \in Cells |-> BlackScreen(g)[Spot(p)].shows]
    BY <1>6 DEF Abs
  <2>2. \A p \in Cells : BlackScreen(g)[Spot(p)].shows = Blank
    BY <1>1, <1>3, <1>4, SpotOnScreen DEF BlackScreen, Plain
  <2> QED
    BY <2>1, <2>2, Zenon DEF T!Empty, Cells
<1> QED
  BY <1>4, <1>7, <1>8 DEF T!Wipe

\* Every step of the console is one of the terminal, or none.
LEMMA StepShown ==
    ASSUME IInv, IInv', [Next]_vars
    PROVE  [T!TNext]_(T!tvars)
<1>1. CASE ~Shown'
  BY <1>1, Vanishes DEF T!TNext
<1>2. CASE ~Shown /\ Shown'
  BY <1>2, Appears DEF T!TNext
<1>3. CASE Shown /\ Shown'
  <2>0. started /\ started'
    BY <1>3 DEF Shown
  <2>1. ASSUME NEW failing, NEW installs, Start(failing, installs)
        PROVE  [T!TNext]_(T!tvars)
    BY <2>0, <2>1 DEF Start
  <2>2. ASSUME NEW allocates, NEW failing, NEW n \in 0 .. Len(modes) - 1,
               SetMode(n, allocates, failing)
        PROVE  [T!TNext]_(T!tvars)
    <3> DEFINE r == AfterSetMode(n, allocates, failing)
    <3>1. Becomes(r) /\ screen' = r.s /\ UNCHANGED <<started, modes>>
      BY <2>2 DEF SetMode
    <3> HIDE DEF r
    <3>2. T!Clear \/ T!Resize \/ UNCHANGED T!tvars
      BY <1>3, <3>1, ModeSteps DEF r
    <3> QED
      BY <3>2 DEF T!TNext
  <2>3. ASSUME NEW allocates, NEW failing, Reset(allocates, failing)
        PROVE  [T!TNext]_(T!tvars)
    <3> DEFINE r == AfterSetMode(0, allocates, failing)
    <3>1. Becomes(r) /\ screen' = r.s /\ UNCHANGED <<started, modes>> /\ 0 \in 0 .. Len(modes) - 1
      BY <2>3, ResetIs
    <3> HIDE DEF r
    <3>2. T!Clear \/ T!Resize \/ UNCHANGED T!tvars
      BY <1>3, <3>1, ModeSteps DEF r
    <3> QED
      BY <3>2 DEF T!TNext
  <2>4. CASE Stop
    BY <2>0, <2>4 DEF Stop
  <2>5. CASE ClearScreen
    <3>1. Inside(Cleared(Now)) /\ Cleared(Now).col = 0 /\ Cleared(Now).row = 0
      BY <1>3, ShownIs, ClearedIs
    <3>2. screen' = Cleared(Now).s /\ column' = 0 /\ row' = 0
          /\ UNCHANGED <<gop, started, modes, mode>>
      BY <2>5, <3>1 DEF ClearScreen, Leaves
    <3>3. T!Clear
      BY <1>3, <3>2, ClearedTo
    <3> QED
      BY <3>3 DEF T!TNext
  <2>6. ASSUME NEW str \in Strings, OutputString(str)
        PROVE  [T!TNext]_(T!tvars)
    BY <1>3, <2>6, StringPut DEF T!TNext
  <2>7. ASSUME NEW p \in Positions, SetCursorPosition(p[1], p[2])
        PROVE  [T!TNext]_(T!tvars)
    BY <1>3, <2>7, CursorGoes DEF T!TNext
  <2>8. ASSUME NEW a \in Attributes, SetAttribute(a)
        PROVE  [T!TNext]_(T!tvars)
    BY <1>3, <2>8, RecolourUnseen
  <2>9. ASSUME NEW v \in BOOLEAN, EnableCursor(v)
        PROVE  [T!TNext]_(T!tvars)
    BY <1>3, <2>9, EnableUnseen
  <2>10. ASSUME NEW g \in 0 .. Len(GopModes) - 1, GraphicsClient(g)
         PROVE  [T!TNext]_(T!tvars)
    BY <1>3, <2>10, WipeIs DEF T!TNext
  <2>11. CASE UNCHANGED vars
    <3>1. UNCHANGED <<gop, screen, started, modes, mode, column, row>>
      BY <2>11 DEF vars, console
    <3>2. screen \in [Dots(gop) -> Pixel]
      BY DEF IInv, TypeOK
    <3> QED
      BY <1>3, <3>1, <3>2, Unseen
  <2> QED
    BY <2>1, <2>2, <2>3, <2>4, <2>5, <2>6, <2>7, <2>8, <2>9, <2>10, <2>11 DEF Next
<1> QED
  BY <1>1, <1>2, <1>3

\* GraphicsConsole.c implements Terminal: whatever is nested, wrapped, scrolled,
\* cleared or switched, a client sees a page of characters on which each string
\* has the effect the text output protocol gives it.
THEOREM ConsoleIsTerminal == Spec => IsTerminal
<1>1. Init => T!TInit
  <2>1. Init => ~Shown
    BY DEF Init, Shown
  <2> QED
    BY <2>1, HiddenIs DEF T!TInit
<1>2. IInv /\ IInv' /\ [Next]_vars => [T!TNext]_(T!tvars)
  BY StepShown
<1> QED
  BY <1>1, <1>2, ConsoleInvariant, PTL DEF Spec, IsTerminal, T!TSpec

\* CheckModeSupported, ConOutSetMode and FlushCursor: a client is told modes that
\* fit on the resolution and differ, and the cursor is on the screen whenever it
\* is said to be visible.
THEOREM ConsoleIsKept == Spec => []ConsoleKept
<1>1. OtherModesFit /\ CursorShown => ConsoleKept
  BY DEF ConsoleKept
<1> QED
  BY <1>1, ConsoleModes, CursorAlwaysShown, PTL

=============================================================================
