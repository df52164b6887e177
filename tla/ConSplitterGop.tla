--------------------------- MODULE ConSplitterGop ---------------------------
(***************************************************************************)
(* Drivers/ConSplitterDxe, the virtual graphics output of mConOut over the  *)
(* graphics outputs of its devices.  Its modes are the resolutions of the   *)
(* first device that all the later ones have too; it shows a frame buffer   *)
(* only while there is one device.  UGA devices, which the platform has     *)
(* none of and does not stand in for (PcdConOutUgaSupport), are left out,   *)
(* and memory does not run out.                                            *)
(***************************************************************************)
EXTENDS Integers, FiniteSetsExt, Sequences

CONSTANTS
    Devices,      \* consoles with a GRAPHICS_OUTPUT
    Faulty,       \* those whose SetMode and Blt may fail
    Modes,        \* per device: resolutions of its modes
    Small,        \* 800 x 600
    Pictures,     \* what clients draw; Black is the screen after a mode was set
    Black

Resolutions == {Small} \cup UNION {{Modes[d][i] : i \in DOMAIN Modes[d]} : d \in Devices}
Unset == 65535                     \* Mode->Mode before a mode is set
NoFrameBuffer == Black             \* FrameBufferBase 0

GopAssumption ==
    /\ Faulty \subseteq Devices /\ Black \notin Devices
    /\ \A d \in Devices : Modes[d] \in Seq(Resolutions) \ {<<>>}

VARIABLES
    gops,       \* devices of TextOutList that have a graphics output, in order
    installed,  \* the protocol is on mConOut.VirtualHandle
    buffer,     \* GraphicsOutputModeBuffer, one entry at least
    max,        \* Mode->MaxMode
    current,    \* Mode->Mode
    info,       \* resolution in Mode->Info
    frame,      \* device whose FrameBufferBase Mode shows
    mode,       \* per device: its mode, from 0
    picture,    \* per device: what it shows
    drawn,      \* history: what was drawn last
    behind,     \* history: devices that do not show it
    lagging,    \* history: devices that failed to take a mode
    forced,     \* history: entry 0 was overwritten with 800 x 600
    shrunk      \* history: a device left since the modes were computed

virtual == <<installed, buffer, max, current, info, frame>>
history == <<drawn, behind>>
vars == <<gops, virtual, mode, picture, history, lagging, forced, shrunk>>

TypeOK ==
    /\ gops \in Seq(Devices)
    /\ installed \in BOOLEAN /\ forced \in BOOLEAN /\ shrunk \in BOOLEAN
    /\ buffer \in Seq(Resolutions) /\ max \in Nat /\ current \in Nat
    /\ info \in Resolutions
    /\ frame \in Devices \cup {NoFrameBuffer}
    /\ mode \in [Devices -> Nat]
    /\ picture \in [Devices -> Pictures \cup {Black}]
    /\ drawn \in Pictures \cup {Black}
    /\ behind \subseteq Devices /\ lagging \subseteq Devices

\* ConSplitterTextOutConstructor: SetMode(0) of a mode buffer with 800 x 600.
Init ==
    /\ gops = <<>> /\ installed = FALSE
    /\ buffer = <<Small>> /\ max = 1 /\ current = 0
    /\ info = Small /\ frame = NoFrameBuffer
    /\ mode = [d \in Devices |-> 0]
    /\ picture = [d \in Devices |-> Black] /\ drawn = Black
    /\ behind = {} /\ lagging = {}
    /\ forced = FALSE /\ shrunk = FALSE

Held(s) == {s[i] : i \in DOMAIN s}
Now(d) == Modes[d][mode[d] + 1]

-----------------------------------------------------------------------------
(* ConSplitterGraphicsOutputSetMode.                                       *)

\* The number of resolution r on d; MaxMode, which d refuses, if it has none.
NumberOn(d, r) ==
    LET at == {i \in DOMAIN Modes[d] : Modes[d][i] = r}
    IN  IF at = {} THEN Len(Modes[d]) ELSE Min(at) - 1
Has(d, r) == NumberOn(d, r) < Len(Modes[d])

\* Devices of list that were in modes m and showed p are set to r; what they showed is
\* cleared.
Reached(list, r, failing) == {d \in Held(list) \ failing : Has(d, r)}
ModesAt(m, set, r) == [d \in Devices |-> IF d \in set THEN NumberOn(d, r) ELSE m[d]]
PicturesAt(p, set) == [d \in Devices |-> IF d \in set THEN Black ELSE p[d]]
DevicesFrom(m, p, list, r, failing) ==
    LET set == Reached(list, r, failing)
    IN  /\ mode' = ModesAt(m, set, r)
        /\ picture' = PicturesAt(p, set)
        /\ lagging' = (lagging \ set) \cup (Held(list) \ set)
        /\ drawn' = Black
        /\ behind' = {d \in Held(list) : picture'[d] # Black}
DevicesTo(list, r, failing) == DevicesFrom(mode, picture, list, r, failing)

\* With a single device Mode shows what the device says of itself.
Shows(list, n, r) ==
    /\ current' = n
    /\ IF Len(list) = 1
       THEN info' = Modes[list[1]][mode'[list[1]] + 1] /\ frame' = list[1]
       ELSE info' = r /\ UNCHANGED frame

SetMode(n) ==
    /\ installed /\ n < max
    /\ \E failing \in SUBSET (Faulty \cap Held(gops)) :
         /\ DevicesTo(gops, buffer[n + 1], failing)
         /\ Shows(gops, n, buffer[n + 1])
    /\ UNCHANGED <<gops, installed, buffer, max, forced, shrunk>>

-----------------------------------------------------------------------------
(* ConSplitterAddGraphicsOutputMode, and the part of TextOutAddDevice and   *)
(* TextOutDeleteDevice that is about graphics.                              *)

\* The first device lends its modes, its current one and its frame buffer.
AddFirst(d) ==
    /\ gops = <<>>
    /\ gops' = <<d>>
    /\ buffer' = Modes[d] /\ max' = Len(Modes[d])
    /\ current' = NumberOn(d, Now(d)) /\ info' = Now(d) /\ frame' = d
    /\ installed' = TRUE
    /\ drawn' = picture[d] /\ behind' = {}
    /\ lagging' = {}
    /\ forced' = FALSE /\ shrunk' = FALSE
    /\ UNCHANGED <<mode, picture>>

\* The modes so far that are among those of the set, each once.
MatchedModes(those) ==
    LET matched[n \in 0 .. max] ==
            IF n = 0 THEN <<>>
            ELSE IF buffer[n] \in those \ Held(matched[n - 1])
                 THEN Append(matched[n - 1], buffer[n]) ELSE matched[n - 1]
    IN  matched[max]
\* Mutant of Common: keeps modes the new device does not have.
CommonToSome(d) == MatchedModes(Resolutions)

Common(d) == MatchedModes(Held(Modes[d]))

\* Index of the mode to take: the one d is in, or 800 x 600, or the first.
Preferred(d, modes) ==
    LET At(r) == {i \in DOMAIN modes : modes[i] = r}
    IN  IF At(Now(d)) # {} THEN Min(At(Now(d)))
        ELSE IF At(Small) # {} THEN Min(At(Small)) ELSE 1

\* The consoles are in the preferred mode already: only d is set, if need be.
JoinMode(d, r, n) ==
    /\ current' = n /\ UNCHANGED info
    /\ \/ Now(d) = r /\ UNCHANGED <<mode, picture, drawn>>
          /\ lagging' = lagging \ {d}
       \/ /\ Now(d) # r
          /\ \E failing \in SUBSET (Faulty \cap {d}) :
               IF Has(d, r) /\ failing = {}
               THEN /\ mode' = [mode EXCEPT ![d] = NumberOn(d, r)]
                    /\ picture' = [picture EXCEPT ![d] = Black]
                    /\ lagging' = lagging \ {d}
               ELSE /\ lagging' = lagging \cup {d}
                    /\ UNCHANGED <<mode, picture>>
          /\ UNCHANGED drawn
    /\ behind' = behind \cup {d}
    /\ UNCHANGED forced

\* All of them are set; if one fails or has not got it, entry 0 becomes
\* 800 x 600 and they are set again, which there may be no mode left for.
ForceMode(d, modes, n, count) ==
    \E first, failing \in SUBSET (Faulty \cap Held(gops')) :
        LET r     == modes[n]
            fails == count = 0 \/ \E e \in Held(gops') : e \in first \/ ~Has(e, r)
            last  == IF fails THEN Small ELSE r
        IN  /\ buffer' = IF fails THEN [modes EXCEPT ![1] = Small] ELSE modes
            /\ forced' = (forced \/ fails)
            /\ IF count = 0
               THEN /\ current' = Unset
                    /\ lagging' = lagging \cup {d} /\ behind' = behind \cup {d}
                    /\ UNCHANGED <<info, mode, picture, drawn>>
               ELSE /\ current' = (IF fails THEN 0 ELSE n - 1)
                    /\ info' = last
                    /\ IF fails
                       THEN LET set == Reached(gops', r, first)
                            IN  DevicesFrom(ModesAt(mode, set, r), PicturesAt(picture, set),
                                            gops', Small, failing)
                       ELSE DevicesTo(gops', r, {})

\* With no mode in common the new buffer is read as the pool left it.
AddNext(d) ==
    /\ gops # <<>> /\ d \notin Held(gops)
    /\ gops' = Append(gops, d)
    /\ max' = Len(Common(d))
    /\ frame' = NoFrameBuffer
    /\ \E junk \in Resolutions :
         LET modes == IF Common(d) = <<>> THEN <<junk>> ELSE Common(d)
             n     == Preferred(d, Common(d))
         IN  IF modes[n] = info
             THEN JoinMode(d, modes[n], n - 1) /\ buffer' = modes
             ELSE ForceMode(d, modes, n, Len(Common(d)))
    /\ shrunk' = FALSE
    /\ UNCHANGED installed

\* The mode buffer, MaxMode and Mode stay what they are.
DeleteDevice(d) ==
    /\ \E k \in DOMAIN gops :
          /\ gops[k] = d
          /\ gops' = [i \in 1 .. Len(gops) - 1 |-> IF i < k THEN gops[i] ELSE gops[i + 1]]
    /\ installed' = (gops' # <<>>)
    /\ shrunk' = TRUE
    /\ behind' = behind \ {d}
    /\ UNCHANGED <<buffer, max, current, info, frame, mode, picture, drawn, lagging, forced>>

-----------------------------------------------------------------------------
(* ConSplitterGraphicsOutputBlt and ConSplitterGraphicsOutputQueryMode.     *)

Draw(p) ==
    /\ installed
    /\ \E failing \in SUBSET (Faulty \cap Held(gops)) :
         /\ picture' = [d \in Devices |-> IF d \in Held(gops) \ failing THEN p ELSE picture[d]]
         /\ behind' = failing
    /\ drawn' = p
    /\ UNCHANGED <<gops, virtual, mode, lagging, forced, shrunk>>

QueryMode(n) ==
    IF Len(gops) = 1 THEN Modes[gops[1]][n + 1] ELSE buffer[n + 1]

-----------------------------------------------------------------------------
Next ==
    \/ \E d \in Devices : AddFirst(d) \/ AddNext(d) \/ DeleteDevice(d)
    \/ \E n \in 0 .. max - 1 : SetMode(n)
    \/ \E p \in Pictures : Draw(p)

Spec == Init /\ [][Next]_vars

-----------------------------------------------------------------------------
(* Properties.                                                             *)

\* Every device has every mode of the virtual one, in whatever order they came
\* and went, until the mode buffer was overwritten with 800 x 600.
ModesAreCommon ==
    \A n \in 1 .. max : \A d \in Held(gops) : forced \/ Has(d, buffer[n])

\* All devices are in the resolution the virtual one shows, which is that of
\* its mode number; devices that failed are not, nor is there a mode number
\* when nothing was in common.
ResolutionShared ==
    installed /\ current # Unset /\ max > 0 =>
        /\ lagging = {} /\ ~forced => current < max /\ buffer[current + 1] = info
        /\ \A d \in Held(gops) \ lagging : Now(d) = info

\* A frame buffer that is shown is that of the only device: none is left behind
\* by a device that was removed or joined by another.
FrameBufferIsLive == installed /\ frame # NoFrameBuffer => gops = <<frame>>

\* Every device shows the picture drawn last, and so does what is read back from
\* the first of them, but for devices that joined or failed since.
PictureShared == \A d \in Held(gops) \ behind : picture[d] = drawn

\* The resolution a client is told for a mode is the one the mode sets.
QueryTellsMode ==
    installed => \A n \in 0 .. max - 1 :
        /\ Len(gops) = 1 => n < Len(Modes[gops[1]])
        /\ QueryMode(n) = buffer[n + 1]
QueryTellsModeUntilRemoval == shrunk \/ forced \/ QueryTellsMode
=============================================================================
