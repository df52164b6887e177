------------------------------ MODULE Terminal ------------------------------
(***************************************************************************)
(* What a text console promises its clients: a page of characters, a        *)
(* cursor on it, and what every character of a string does to the two.      *)
(* Graphics clients share the screen, so the page may vanish or be wiped.   *)
(***************************************************************************)
EXTENDS Integers, Sequences

CONSTANTS Chars, Strings, Blank

VARIABLES
    size,   \* <<columns, rows>>, <<0, 0>> while there is no page
    page,   \* cell -> character
    col, row

tvars == <<size, page, col, row>>

None == <<0, 0>>
CellsOf(s) == (0 .. s[1] - 1) \X (0 .. s[2] - 1)
Empty(s) == [p \in CellsOf(s) |-> Blank]

-----------------------------------------------------------------------------
\* One line down; the page moves up when there is none.
Down(t) ==
    IF t.row < size[2] - 1
    THEN [t EXCEPT !.row = @ + 1]
    ELSE [t EXCEPT !.page = [p \in CellsOf(size) |->
             IF p[2] < size[2] - 1 THEN t.page[<<p[1], p[2] + 1>>] ELSE Blank]]
Return(t) == [t EXCEPT !.col = 0]
Wrap(t) == IF t.col = size[1] THEN Down(Return(t)) ELSE t

\* The next w cells show c.
Write(t, c, w) ==
    [t EXCEPT !.col = @ + w,
              !.page = [p \in CellsOf(size) |->
                  IF p[2] = t.row /\ p[1] \in t.col .. t.col + w - 1 THEN c ELSE t.page[p]]]

\* What is left of the line is blank if the character is too wide for it.
Type(t, c) ==
    LET w  == IF t.wide THEN 2 ELSE 1
        at == IF t.col + w > size[1] THEN Wrap(Write(t, Blank, 1)) ELSE t
    IN  Wrap(Write(at, c, w))

\* The cursor goes back one cell, to the line before if need be, and blanks it.
Blanked(t) == [Write(t, Blank, 1) EXCEPT !.col = t.col]
BackSpace(t) ==
    IF t.col > 0 THEN Blanked([t EXCEPT !.col = @ - 1])
    ELSE IF t.row > 0 THEN Blanked([t EXCEPT !.col = size[1] - 1, !.row = @ - 1])
    ELSE t

Effect(t, c) ==
    CASE c = "BS" -> BackSpace(t)
      [] c = "LF" -> Down(t)
      [] c = "CR" -> Return(t)
      [] c = "WIDE" -> [t EXCEPT !.wide = TRUE]
      [] c = "NARROW" -> [t EXCEPT !.wide = FALSE]
      [] OTHER -> Type(t, c)

-----------------------------------------------------------------------------
TInit == size = None /\ page = Empty(None) /\ col = 0 /\ row = 0

PutString(s) ==
    /\ size # None
    /\ LET t[n \in 0 .. Len(s)] ==
               IF n = 0 THEN [page |-> page, col |-> col, row |-> row, wide |-> FALSE]
               ELSE Effect(t[n - 1], s[n])
       IN  page' = t[Len(s)].page /\ col' = t[Len(s)].col /\ row' = t[Len(s)].row
    /\ UNCHANGED size

Clear ==
    /\ size # None
    /\ page' = Empty(size) /\ col' = 0 /\ row' = 0
    /\ UNCHANGED size

Goto ==
    /\ size # None
    /\ col' \in 0 .. size[1] - 1 /\ row' \in 0 .. size[2] - 1
    /\ UNCHANGED <<size, page>>

\* A page of another size is empty.
Resize ==
    /\ size' # size /\ size' # None
    /\ page' = Empty(size') /\ col' = 0 /\ row' = 0

\* The console starts on what the screen shows; or a graphics client goes.
Appear ==
    /\ size = None /\ size' # None
    /\ page' \in [CellsOf(size') -> Chars \cup {Blank}]
    /\ <<col', row'>> \in CellsOf(size')

\* The console stops or a graphics client changes the resolution.
Vanish == size' = None /\ page' = Empty(None) /\ col' = 0 /\ row' = 0

\* A graphics client clears the screen under the console.
Wipe == size # None /\ page' = Empty(size) /\ UNCHANGED <<size, col, row>>

TNext ==
    \/ \E s \in Strings : PutString(s)
    \/ Clear \/ Goto \/ Resize \/ Appear \/ Vanish \/ Wipe

TSpec == TInit /\ [][TNext]_tvars
=============================================================================
