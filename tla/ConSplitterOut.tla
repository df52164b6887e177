--------------------------- MODULE ConSplitterOut ---------------------------
(***************************************************************************)
(* Drivers/ConSplitterDxe, the text output side: the virtual consoles       *)
(* mConOut and mStdErr, each standing for the text output devices the       *)
(* driver was started on.  A virtual mode is a size all its devices have;   *)
(* TextOutModeMap holds, per virtual mode, the number each device knows it  *)
(* by, and TextOutQueryData the sizes by the numbers of the first device.   *)
(* Memory does not run out and no device refuses a mode it has while it is  *)
(* added (ConsplitterSetConsoleOutMode asserts as much).                    *)
(***************************************************************************)
EXTENDS Integers, FiniteSetsExt, Sequences

CONSTANTS
    Devices,      \* text output devices
    ErrDevices,   \* those whose handle has gEfiStandardErrorDeviceGuid too
    Faulty,       \* those that may fail Reset and SetMode
    Modes,        \* per device: the sizes of its modes, NoSize where it has none
    Size25,       \* 80 x 25 and 80 x 50
    Size50,
    Colours,      \* attributes; Gray is EFI_LIGHTGRAY on EFI_BLACK
    Gray,
    Chars,        \* subset of {"bs", "lf", "cr", "a"} clients write
    Positions,    \* bound: where clients put the cursor
    AllocUnit     \* CONSOLE_SPLITTER_ALLOC_UNIT

NoSize == <<0, 0>>
NoMode == -1
Adding == 255                      \* Mode while a device is added: 0xFF
Virtuals == {"ConOut", "StdErr"}

\* Mode 0 is 80 x 25; mode 1 is 80 x 50 or, as the console on a small screen
\* has it, not supported: "EFI/UEFI spec require" (ConSplitter.c:2409).
OutAssumption ==
    /\ ErrDevices \subseteq Devices /\ Faulty \subseteq Devices
    /\ {Size25, Size50} \subseteq (Nat \ {0}) \X (Nat \ {0}) /\ Size25 # Size50
    /\ \A d \in Devices :
         /\ Modes[d] \in Seq(Nat \X Nat) /\ Len(Modes[d]) >= 2
         /\ Modes[d][1] = Size25 /\ Modes[d][2] \in {Size50, NoSize}
    /\ Gray \in Colours /\ Positions \subseteq Nat \X Nat
    /\ AllocUnit \in Nat /\ AllocUnit > 1

VARIABLES
    con,      \* per virtual console: its private data
    mode,     \* per device: current mode
    colour,   \* per device: attribute
    stale,    \* history: consoles a device left since they were last set
    lagging   \* history: devices that failed to take a mode, or took one from
              \* another console

vars == <<con, mode, colour, stale, lagging>>

\* TEXT_OUT_SPLITTER_PRIVATE_DATA: TextOutList and TextOutListCount,
\* TextOutQueryData, TextOutModeMap (<<>> for NULL), TextOutMode.
Privates == [list : Seq(Devices), cap : Nat, query : Seq(Nat \X Nat),
             map : Seq(Seq(Int)), max : Nat, mode : Int,
             cursor : Nat \X Nat, colour : Colours]

TypeOK ==
    /\ con \in [Virtuals -> Privates]
    /\ mode \in [Devices -> Nat] /\ colour \in [Devices -> Colours]
    /\ stale \subseteq Virtuals /\ lagging \subseteq Devices

Fill(n, e) == [i \in 1 .. n |-> e]

\* ConSplitterTextOutConstructor.
Constructed ==
    [list |-> <<>>, cap |-> AllocUnit, map |-> <<>>, max |-> 1, mode |-> 0,
     query |-> [Fill(AllocUnit, NoSize) EXCEPT ![1] = Size25], cursor |-> <<0, 0>>, colour |-> Gray]

Init ==
    /\ con = [v \in Virtuals |-> Constructed]
    /\ mode = [d \in Devices |-> 0]
    /\ colour = [d \in Devices |-> Gray]
    /\ stale = {} /\ lagging = {}

Held(s) == {s[i] : i \in DOMAIN s}
Drawn(c) == Held(c.list)
Others(v) == UNION {Drawn(con[w]) : w \in Virtuals \ {v}}

-----------------------------------------------------------------------------
(* The mode map.                                                           *)

\* ConSplitterTextOutQueryMode of a mode below MaxMode.
QueryMode(c, m) == IF c.map = <<>> THEN c.query[m + 1] ELSE c.query[c.map[m + 1][1] + 1]

\* Mutant of GrowMapTable: copies one column less.
GrowMapTableShort(c) ==
    [c EXCEPT !.map = [r \in 1 .. Len(c.query) |-> [i \in 1 .. c.cap |->
        IF c.map # <<>> /\ r <= c.max /\ i < Len(c.list) THEN c.map[r][i] ELSE NoMode]]]

\* ConSplitterGrowMapTable: every row grows to the new length of the list.
GrowMapTable(c) ==
    [c EXCEPT !.map = [r \in 1 .. Len(c.query) |-> [i \in 1 .. c.cap |->
        IF c.map # <<>> /\ r <= c.max /\ i <= Len(c.list) THEN c.map[r][i] ELSE NoMode]]]

\* ConSplitterAddOutputMode: the modes of the first device are the modes.
Spare(c, n) ==
    IF n > Len(c.query) THEN ((n - Len(c.query) + AllocUnit - 1) \div AllocUnit) * AllocUnit ELSE 0
AddOutputMode(c, d) ==
    LET n     == Len(Modes[d])
        data  == c.query \o Fill(Spare(c, n), NoSize)
        grown == GrowMapTable([c EXCEPT !.max = n, !.query = data])
    IN  [grown EXCEPT
           !.query = [i \in 1 .. Len(data) |-> IF i <= n THEN Modes[d][i] ELSE data[i]],
           !.map   = [r \in 1 .. Len(data) |-> [i \in 1 .. c.cap |->
                         IF r <= n /\ i = 1 THEN r - 1 ELSE grown.map[r][i]]]]

\* Mutant of ModeAfter: the number stays when a row before it is gone.
ModeUnmoved(was, gone, now) == IF gone = was + 1 THEN NoMode ELSE now

\* What a row that is gone makes of the current mode, which was the number was:
\* NoMode if it is its own.
ModeAfter(was, gone, now) ==
    IF gone = was + 1 THEN NoMode ELSE IF gone < was + 1 THEN now - 1 ELSE now

\* ConSplitterGetIntersection: rows from 3 on stay if keep has them.
GetIntersection(c, keep) ==
    LET pass[n \in 0 .. c.max] ==
            IF n = 0 THEN [rows |-> <<>>, mode |-> c.mode]
            ELSE LET last == pass[n - 1]
                 IN  IF n <= 2 \/ n \in keep THEN [last EXCEPT !.rows = Append(@, n)]
                     ELSE [last EXCEPT !.mode = ModeAfter(c.mode, n, @)]
        rows == pass[c.max].rows
    IN  [c EXCEPT
           !.max  = Len(rows),
           !.map  = [r \in 1 .. Len(c.map) |-> c.map[IF r <= Len(rows) THEN rows[r] ELSE r]],
           !.mode = pass[c.max].mode]

\* ConSplitterSyncOutputMode: d becomes the device of column i.  Each of its
\* sizes is looked for from the first row on, and one that is there twice is
\* entered twice.
RowsOf(c, size) == {r \in 1 .. c.max : QueryMode(c, r - 1) = size}
SyncOutputMode(c, d, i) ==
    LET lacks    == Modes[d][2] = NoSize
        data     == IF lacks THEN [c EXCEPT !.query[2] = NoSize] ELSE c
        At(r)    == {m \in DOMAIN Modes[d] : /\ Modes[d][m] # NoSize
                                             /\ QueryMode(data, r - 1) = Modes[d][m]
                                             /\ r = Min(RowsOf(data, Modes[d][m]))}
        Entry(r) == IF At(r) # {} THEN Max(At(r)) - 1
                    ELSE IF r = 2 /\ lacks THEN 1 ELSE c.map[r][i]
        synced   == [data EXCEPT !.map =
                        [r \in 1 .. Len(c.map) |->
                            IF r <= c.max THEN [c.map[r] EXCEPT ![i] = Entry(r)] ELSE c.map[r]]]
    IN  GetIntersection(synced, {r \in 1 .. c.max : synced.map[r][i] # NoMode})

-----------------------------------------------------------------------------
(* Setting a mode.                                                         *)

\* TextOutSetMode.
TextOutSetMode(c, m) == [c EXCEPT !.mode = m, !.cursor = <<0, 0>>]

\* What the devices of c are in after they were sent to row m; a device is
\* refused what it does not have.
Sent(c, m, was, failing) ==
    [d \in Devices |->
        IF d \notin Drawn(c) \ failing THEN was[d]
        ELSE LET to == c.map[m + 1][CHOOSE i \in DOMAIN c.list : c.list[i] = d]
             IN  IF to = NoMode \/ Modes[d][to + 1] = NoSize THEN was[d] ELSE to]

\* ConSplitterGetIntersectionBetweenConOutAndStrErr finds a device of both
\* lists when it is the first of mConOut; for the others it reads on behind the
\* list of mStdErr, whose length the pointer has already gone.
MayShare(all) ==
    IF all["ConOut"].list = <<>> \/ all["StdErr"].list = <<>> THEN {FALSE}
    ELSE IF Head(all["ConOut"].list) \in Drawn(all["StdErr"]) THEN {TRUE}
    ELSE IF Len(all["ConOut"].list) > 1 THEN BOOLEAN ELSE {FALSE}

\* Sizes of mConOut that mStdErr has, and the rows of mStdErr they are found at.
Sizes(c) == {QueryMode(c, m) : m \in 0 .. c.max - 1}
Intersected(all) ==
    LET out == all["ConOut"]
        err == all["StdErr"]
        hit == {Min(RowsOf(err, s)) : s \in Sizes(out) \cap Sizes(err)}
    IN  [v \in Virtuals |->
           IF v = "StdErr" THEN GetIntersection(err, hit)
           ELSE GetIntersection(out, {r \in 1 .. out.max : QueryMode(out, r - 1) \in Sizes(err)})]

\* A console whose current mode is gone is set to mode 0, mConOut first.
SetLost(all) ==
    [v \in Virtuals |-> IF all[v].mode < 0 THEN TextOutSetMode(all[v], 0) ELSE all[v]]
SentIfLost(c, was) == IF c.mode < 0 THEN Sent(c, 0, was, {}) ELSE was
SentLost(all, was) == SentIfLost(all["StdErr"], SentIfLost(all["ConOut"], was))

\* What that routine may leave, with the modes the devices are in.
Between(all) ==
    {IF shared THEN [con |-> SetLost(Intersected(all)), mode |-> SentLost(Intersected(all), mode)]
     ELSE [con |-> all, mode |-> mode] : shared \in MayShare(all)}

-----------------------------------------------------------------------------
(* Start and Stop.                                                         *)

\* ConsplitterSetConsoleOutMode, with PcdConOutColumn and PcdConOutRow zero as
\* the platform has them: the last mode no smaller than those before it.
PreferMode(c) ==
    LET best[m \in 0 .. c.max] ==
            IF m = 0 THEN [size |-> NoSize, mode |-> Adding]
            ELSE LET s == QueryMode(c, m - 1)
                 IN  IF s # NoSize /\ s[1] >= best[m - 1].size[1] /\ s[2] >= best[m - 1].size[2]
                     THEN [size |-> s, mode |-> m - 1] ELSE best[m - 1]
    IN  best[c.max].mode

\* ConSplitterTextOutAddDevice up to the intersection with the other console.
Added(c, d) ==
    LET full  == Len(c.list) >= c.cap
        room  == IF full THEN GrowMapTable([c EXCEPT !.cap = @ + AllocUnit]) ELSE c
        modal == IF c.list = <<>> THEN AddOutputMode([room EXCEPT !.mode = Adding], d)
                 ELSE SyncOutputMode([room EXCEPT !.mode = Adding], d, Len(c.list) + 1)
    IN  [modal EXCEPT !.list = Append(@, d)]

\* What it may leave of the consoles and of the devices' modes.
TextOutAddDevice(v, d) ==
    {LET prefer == PreferMode(to.con[v])
     IN  [con  |-> [to.con EXCEPT ![v] = TextOutSetMode(@, prefer)],
          mode |-> Sent(to.con[v], prefer, to.mode, {})]
        : to \in Between([con EXCEPT ![v] = Added(con[v], d)])}

\* ConSplitterConOutDriverBindingStart and its twin for StdErr; a device that is
\* new has the attribute set with the others.
Start(v, d) ==
    LET all == Drawn(con[v]) \cup {d} IN
    /\ d \notin Drawn(con[v])
    /\ \E to \in TextOutAddDevice(v, d) :
         con' = [to.con EXCEPT ![v].colour = Gray] /\ mode' = to.mode
    /\ colour' = [e \in Devices |-> IF e \in all THEN Gray ELSE colour[e]]
    /\ stale' = stale \ {v}
    /\ lagging' = (lagging \ all) \cup (Others(v) \cap all)
ConOutDriverBindingStart(d) == Start("ConOut", d)
StdErrDriverBindingStart(d) == d \in ErrDevices /\ Start("StdErr", d)

\* ConSplitterTextOutDeleteDevice.  The map is built anew from the devices that
\* are left, and the current mode stays the number it was.
Emptied(c) ==
    TextOutSetMode([c EXCEPT !.list = <<>>, !.max = 1, !.query[1] = Size25], 0)
Rebuilt(c, left) ==
    LET blank == [c EXCEPT !.list = left, !.map = <<>>, !.query = Fill(Len(@), NoSize)]
        columns[i \in 1 .. Len(left)] ==
            IF i = 1 THEN AddOutputMode(blank, left[1])
            ELSE SyncOutputMode(columns[i - 1], left[i], i)
    IN  columns[Len(left)]

TextOutDeleteDevice(v, k) ==
    LET c    == con[v]
        left == [i \in 1 .. Len(c.list) - 1 |-> IF i < k THEN c.list[i] ELSE c.list[i + 1]]
    IN  IF left = <<>>
        THEN /\ con' = [con EXCEPT ![v] = Emptied(c)]
             /\ stale' = stale \ {v}
             /\ UNCHANGED mode
        ELSE /\ \E to \in Between([con EXCEPT ![v] = Rebuilt(c, left)]) :
                  con' = to.con /\ mode' = to.mode
             /\ stale' = stale \cup {v}

Stop(v, d) ==
    /\ \E k \in DOMAIN con[v].list : con[v].list[k] = d /\ TextOutDeleteDevice(v, k)
    /\ UNCHANGED <<colour, lagging>>
ConOutDriverBindingStop(d) == Stop("ConOut", d)
StdErrDriverBindingStop(d) == Stop("StdErr", d)

-----------------------------------------------------------------------------
(* The simple text output protocol of a virtual console.                    *)

\* A number that is the current one clears the screens and sets nothing.
SetMode(v, m) ==
    /\ m \in 0 .. con[v].max - 1
    /\ IF con[v].mode = m
       THEN /\ con' = [con EXCEPT ![v].cursor = <<0, 0>>]
            /\ UNCHANGED <<mode, stale, lagging>>
       ELSE \E failing \in SUBSET (Faulty \cap Drawn(con[v])) :
              /\ mode' = Sent(con[v], m, mode, failing)
              /\ con' = [con EXCEPT ![v] = TextOutSetMode(@, m)]
              /\ stale' = stale \ {v}
              /\ lagging' = (lagging \ Drawn(con[v])) \cup failing \cup (Others(v) \cap Drawn(con[v]))
    /\ UNCHANGED colour

Reset(v) ==
    /\ \E failing \in SUBSET (Faulty \cap Drawn(con[v])) :
         /\ mode' = [d \in Devices |-> IF d \in Drawn(con[v]) \ failing THEN 0 ELSE mode[d]]
         /\ lagging' = (lagging \ Drawn(con[v])) \cup failing \cup (Others(v) \cap Drawn(con[v]))
    /\ con' = [con EXCEPT ![v] = TextOutSetMode(@, 0)]
    /\ colour' = [d \in Devices |-> IF d \in Drawn(con[v]) THEN con[v].colour ELSE colour[d]]
    /\ stale' = stale \ {v}

SetAttribute(v, a) ==
    /\ con' = [con EXCEPT ![v].colour = a]
    /\ colour' = [d \in Devices |-> IF d \in Drawn(con[v]) THEN a ELSE colour[d]]
    /\ UNCHANGED <<mode, stale, lagging>>

ClearScreen(v) ==
    /\ con' = [con EXCEPT ![v].cursor = <<0, 0>>]
    /\ UNCHANGED <<mode, colour, stale, lagging>>

Fits(p, size) == p[1] < size[1] /\ p[2] < size[2]

\* With the mode number lost (-1) the size is read in front of the map.
SetCursorPosition(v, p) ==
    /\ con[v].mode >= 0 => Fits(p, QueryMode(con[v], con[v].mode))
    /\ con' = [con EXCEPT ![v].cursor = p]
    /\ UNCHANGED <<mode, colour, stale, lagging>>

\* Without devices the cursor is moved by the characters.
Moved(at, char, size) ==
    LET down == IF at[2] < size[2] - 1 THEN at[2] + 1 ELSE at[2]
    IN  CASE char = "bs" -> IF at[1] > 0 THEN <<at[1] - 1, at[2]>>
                            ELSE IF at[2] > 0 THEN <<size[1] - 1, at[2] - 1>> ELSE at
          [] char = "lf" -> <<at[1], down>>
          [] char = "cr" -> <<0, at[2]>>
          [] OTHER       -> IF at[1] < size[1] - 1 THEN <<at[1] + 1, at[2]>> ELSE <<0, down>>

OutputString(v, char) ==
    /\ colour' = [d \in Devices |-> IF d \in Drawn(con[v]) THEN con[v].colour ELSE colour[d]]
    /\ IF con[v].list = <<>>
       THEN con' = [con EXCEPT ![v].cursor = Moved(@, char, QueryMode(con[v], con[v].mode))]
       ELSE LET first == Head(con[v].list)
            IN  \E p \in Positions : /\ Fits(p, Modes[first][mode[first] + 1])
                                     /\ con' = [con EXCEPT ![v].cursor = p]
    /\ UNCHANGED <<mode, stale, lagging>>

-----------------------------------------------------------------------------
Next ==
    \/ \E d \in Devices :
        \/ ConOutDriverBindingStart(d) \/ ConOutDriverBindingStop(d)
        \/ StdErrDriverBindingStart(d) \/ StdErrDriverBindingStop(d)
    \/ \E v \in Virtuals :
        \/ \E m \in 0 .. con[v].max - 1 : SetMode(v, m)
        \/ Reset(v) \/ ClearScreen(v)
        \/ \E a \in Colours : SetAttribute(v, a)
        \/ \E p \in Positions : SetCursorPosition(v, p)
        \/ \E char \in Chars : OutputString(v, char)

Spec == Init /\ [][Next]_vars

-----------------------------------------------------------------------------
(* Properties.                                                             *)

\* A virtual mode a client can query is, on every device, the mode of that
\* size: rows moved together, new columns, grown tables and modes a device has
\* not got keep the map and the sizes together.
MapTellsModes ==
    \A v \in Virtuals : LET c == con[v] IN
        \A m \in 0 .. c.max - 1 : QueryMode(c, m) # NoSize =>
            \A i \in DOMAIN c.list :
                /\ c.map[m + 1][i] \in 0 .. Len(Modes[c.list[i]]) - 1
                /\ Modes[c.list[i]][c.map[m + 1][i] + 1] = QueryMode(c, m)

\* The map has a column for every device and a row for every mode.
MapLargeEnough ==
    \A v \in Virtuals : LET c == con[v] IN
        /\ Len(c.list) <= c.cap /\ c.max <= Len(c.query)
        /\ c.map # <<>> => Len(c.map) >= c.max
        /\ \A r \in DOMAIN c.map : Len(c.map[r]) = c.cap

\* The current mode is the one every device is in, from the first device on,
\* but for devices that failed or serve two consoles, and after a removal.
ModeHeld(v) ==
    LET c == con[v] IN
        QueryMode(c, c.mode) # NoSize =>
            \A d \in Drawn(c) \ lagging : Modes[d][mode[d] + 1] = QueryMode(c, c.mode)
ModeIsSet ==
    \A v \in Virtuals \ stale : con[v].mode \in 0 .. con[v].max - 1 /\ ModeHeld(v)

\* Where there is no device the cursor stays on the screen that is reported.
CursorOnScreen ==
    \A v \in Virtuals : con[v].list = <<>> =>
        Fits(con[v].cursor, QueryMode(con[v], con[v].mode))

\* The devices that mConOut does not share with mStdErr have its colour.
ColourShared ==
    \A d \in Drawn(con["ConOut"]) \ ErrDevices : colour[d] = con["ConOut"].colour

\* The current mode is a mode.
ModeExists == \A v \in Virtuals : con[v].mode \in 0 .. con[v].max - 1
=============================================================================
