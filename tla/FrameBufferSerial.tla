------------------------- MODULE FrameBufferSerial -------------------------
(***************************************************************************)
(* FrameBufferSerialPortLib: the serial port that debug output goes to,     *)
(* drawn on the boot screen.  Each image that links the library has its own *)
(* cursor and colours, and all draw on one screen.  A write disables the    *)
(* interrupts; a notification may print while they are enabled.             *)
(* FbConPutCharWithFactor ends a line at a label that jumps over the        *)
(* declaration of intstate, which is then whatever was on the stack.  Its   *)
(* characters are steps, and so is what it does in a line that is ending,   *)
(* because by then the interrupts may be on.                                *)
(***************************************************************************)
EXTENDS Integers, Sequences

CONSTANTS
    Images,                  \* modules that print
    Texts,                   \* what they print
    Width, Height,           \* PcdMipiFrameBufferWidth, ...Height: pixels
    FontWidth, FontHeight,   \* FONT_WIDTH, FONT_HEIGHT
    ScaleFactor,             \* SCALE_FACTOR
    Stack                    \* what an uninitialised intstate may be

\* Mutant of MaxX: leaves no column of pixels between two glyphs.
MaxXTight == Width \div FontWidth

\* m_MaxPosition: columns and lines of glyphs on the screen.
MaxX == Width \div (FontWidth + 1)
MaxY == (Height - 1) \div FontHeight

\* Assumed by an instance.
SerialAssumption ==
    /\ Width \in Nat /\ Height \in Nat \ {0}
    /\ FontWidth \in Nat \ {0} /\ FontHeight \in Nat \ {0} /\ ScaleFactor \in Nat \ {0}
    /\ MaxX >= ScaleFactor /\ MaxY > 2 * ScaleFactor /\ MaxY % ScaleFactor = 0
    /\ Stack \subseteq BOOLEAN /\ Texts \subseteq Seq(STRING)

Threads == {"app", "notification"}
Printable == {"a", " "}

VARIABLES
    interrupts,    \* are they enabled
    initialized,   \* m_Initialized of the images
    pos,           \* m_Position
    colour,        \* m_Color.Foreground
    write,         \* where the write of a thread is
    drawn          \* where the last glyph went

vars == <<interrupts, initialized, pos, colour, write, drawn>>

Idle == [phase |-> "idle"]
\* phase: "char" before a character, "line" and "reset" where a line ends.
Writing(image, text, critical) ==
    [phase |-> "char", image |-> image, text |-> text, interruptState |-> interrupts,
     critical |-> critical, currentForeground |-> colour[image], intstate |-> FALSE]

Init ==
    /\ interrupts = TRUE
    /\ initialized = [i \in Images |-> FALSE]
    /\ pos = [i \in Images |-> <<0, 0>>]
    /\ colour = [i \in Images |-> "none"]
    /\ write = [t \in Threads |-> Idle]
    /\ drawn = {}

\* A notification runs when it has interrupted the application, to its end.
CanRun(t) == t = "app" => write["notification"] = Idle
InPhase(t, phase) == CanRun(t) /\ write[t].phase = phase

\* Code of the application level runs with and without interrupts.
SwitchInterrupts ==
    /\ \A t \in Threads : write[t] = Idle
    /\ interrupts' = ~interrupts
    /\ UNCHANGED <<initialized, pos, colour, write, drawn>>

SerialPortInitialize(t, i) ==
    /\ InPhase(t, "idle") /\ (t = "notification" => interrupts)
    /\ ~initialized[i]
    /\ initialized' = [initialized EXCEPT ![i] = TRUE]
    /\ pos' = [pos EXCEPT ![i] = <<0, 0>>]
    /\ colour' = [colour EXCEPT ![i] = "white"]
    /\ UNCHANGED <<interrupts, write, drawn>>

\* SerialPortWrite, or SerialPortWriteCritical, which draws in yellow.
Begin(t, i, text, critical) ==
    /\ InPhase(t, "idle") /\ (t = "notification" => interrupts)
    /\ write' = [write EXCEPT ![t] = Writing(i, text, critical)]
    /\ interrupts' = FALSE
    /\ colour' = IF critical THEN [colour EXCEPT ![i] = "yellow"] ELSE colour
    /\ UNCHANGED <<initialized, pos, drawn>>

SerialPortWrite(t) == \E i \in Images, text \in Texts : Begin(t, i, text, FALSE)
SerialPortWriteCritical(t) == \E i \in Images, text \in Texts : Begin(t, i, text, TRUE)

\* Thread t goes to a phase, or on to the next character.
Goes(t, phase) == write' = [write EXCEPT ![t].phase = phase]
NextChar(t) ==
    write' = [write EXCEPT ![t].phase = "char", ![t].text = Tail(write[t].text)]

\* A character that draws nothing: the library is not initialized, a control
\* character, or a space at the start of a line.
Skip(t) ==
    /\ InPhase(t, "char") /\ write[t].text # <<>>
    /\ LET i == write[t].image
           c == Head(write[t].text)
       IN  /\ \/ ~initialized[i]
              \/ c \notin Printable \cup {"nl"}
              \/ c = " " /\ pos[i][1] = 0
           /\ pos' = IF initialized[i] /\ c = "cr" THEN [pos EXCEPT ![i][1] = 0] ELSE pos
    /\ NextChar(t)
    /\ UNCHANGED <<interrupts, initialized, colour, drawn>>

\* "goto newline" for the character itself.
NewLine(t) ==
    /\ InPhase(t, "char") /\ write[t].text # <<>> /\ Head(write[t].text) = "nl"
    /\ LET i == write[t].image
       IN  /\ initialized[i]
           /\ pos' = [pos EXCEPT ![i][2] = @ + ScaleFactor]
    /\ \E garbage \in Stack :
          write' = [write EXCEPT ![t].phase = "line", ![t].intstate = garbage]
    /\ UNCHANGED <<interrupts, initialized, colour, drawn>>

\* A glyph, with the interrupts off; behind the last column the line ends.
FbConDrawglyph(p) == drawn' = {p}
Paint(t) ==
    /\ InPhase(t, "char") /\ write[t].text # <<>> /\ Head(write[t].text) \in Printable
    /\ LET i == write[t].image
           p == pos[i]
       IN  /\ initialized[i]
           /\ Head(write[t].text) = " " => p[1] # 0
           /\ FbConDrawglyph(p)
           /\ IF p[1] + 1 >= MaxX \div ScaleFactor
              THEN /\ pos' = [pos EXCEPT ![i] = <<p[1] + 1, p[2] + ScaleFactor>>]
                   /\ write' = [write EXCEPT ![t].phase = "line", ![t].intstate = interrupts]
                   /\ interrupts' = FALSE
              ELSE /\ pos' = [pos EXCEPT ![i][1] = @ + 1]
                   /\ NextChar(t)
                   /\ UNCHANGED interrupts
    /\ UNCHANGED <<initialized, colour>>

EnableIf(state) == interrupts' = (interrupts \/ state)

\* To the first column, and on the last line of the screen to its top.
EndLine(t) ==
    /\ InPhase(t, "line")
    /\ LET i == write[t].image
       IN  /\ pos' = [pos EXCEPT ![i][1] = 0]
           /\ IF pos[i][2] >= MaxY - ScaleFactor
              THEN Goes(t, "reset") /\ UNCHANGED interrupts
              ELSE NextChar(t) /\ EnableIf(write[t].intstate)
    /\ UNCHANGED <<initialized, colour, drawn>>

\* ResetFb, and "goto paint": the character is put once more.
ResetFb(t) ==
    /\ InPhase(t, "reset")
    /\ pos' = [pos EXCEPT ![write[t].image][2] = 0]
    /\ EnableIf(write[t].intstate)
    /\ Goes(t, "char")
    /\ UNCHANGED <<initialized, colour, drawn>>

End(t) ==
    /\ InPhase(t, "char") /\ write[t].text = <<>>
    /\ EnableIf(write[t].interruptState)
    /\ colour' = IF write[t].critical
                 THEN [colour EXCEPT ![write[t].image] = write[t].currentForeground] ELSE colour
    /\ write' = [write EXCEPT ![t] = Idle]
    /\ UNCHANGED <<initialized, pos, drawn>>

Next ==
    \/ SwitchInterrupts
    \/ \E t \in Threads :
          \/ \E i \in Images : SerialPortInitialize(t, i)
          \/ SerialPortWrite(t) \/ SerialPortWriteCritical(t)
          \/ Skip(t) \/ NewLine(t) \/ Paint(t) \/ EndLine(t) \/ ResetFb(t) \/ End(t)
Spec == Init /\ [][Next]_vars

-----------------------------------------------------------------------------
TypeOK ==
    /\ interrupts \in BOOLEAN /\ initialized \in [Images -> BOOLEAN]
    /\ pos \in [Images -> Nat \X Nat]
    /\ colour \in [Images -> {"none", "white", "yellow"}]
    /\ drawn \subseteq Nat \X Nat

\* The scaled glyph of character cell p: its last column and line of pixels are
\* on the screen.
OnScreen(p) ==
    /\ p[1] * ScaleFactor * (FontWidth + 1) + FontWidth * ScaleFactor <= Width
    /\ p[2] * FontHeight + FontHeight * ScaleFactor <= Height

\* No glyph is drawn outside of the frame buffer, although a write that ends a
\* line may go on with the interrupts enabled and a notification of the same
\* image then prints between any two of its steps, with the cursor past a line's
\* end or the screen's.
GlyphsInside == \A p \in drawn : OnScreen(p)

\* Between writes an image that is initialized draws in white: an emergency
\* write leaves its yellow to nobody, whatever interrupted it.
YellowIsPassing ==
    (\A t \in Threads : write[t] = Idle) =>
        \A i \in Images : initialized[i] => colour[i] = "white"

\* Both.  That the interrupts come back as a write found them does not hold:
\* the end of a line restores what it has not saved.
SerialKept == GlyphsInside /\ YellowIsPassing
=============================================================================
