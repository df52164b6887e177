----------------------------- MODULE ButtonsDxe -----------------------------
(***************************************************************************)
(* Drivers/ButtonsDxe over Library/ExynosButtonsLib: buttons sampled by     *)
(* whoever asks for a key, turned into EFI keys and kept in two rings, one  *)
(* for the readers and one for a timer that serves key notifications.       *)
(* WaitForKeyCallback and PollForKeyCallback are notifications and          *)
(* KeysDxeReadKeyStroke raises the level to theirs, so each poll is one     *)
(* action.  Reset and the registrations raise nothing: they are one action  *)
(* for each assignment the timer's poll can tell apart, and place says how  *)
(* far the one that runs has come.  Notification functions that call the    *)
(* driver are left out, and so is a device that cannot be set up.           *)
(***************************************************************************)
EXTENDS Integers, Sequences, FiniteSets

CONSTANTS
    KeyMap,      \* KeyMap_8x09; ReadGpioStatus reads the volume keys as released
    RingSize,    \* MAX_KEYS_TO_BUFFER
    Patterns     \* keys notifications are registered for

ButtonsAssumption ==
    /\ KeyMap \subseteq {"PWR", "VOL_UP", "VOL_DOWN", "CAMERA", "HOME", "ROTATE_LOCK"}
    /\ Cardinality(KeyMap) <= 3      \* NUMBER_OF_KEYS: keysPressed is never full
    /\ RingSize \in Nat \ {0, 1}

EfiKeys == {"HOME", "DELETE", "ESC", "UP", "DOWN", "ENTER", "F3"}
NoKey == "none"

VARIABLES
    held,       \* the buttons the user holds
    prev,       \* pPrevButtonArray: the buttons held at the last poll
    pressed,    \* keysPressed
    npressed,   \* numOfKeysPressed
    detected,   \* isEfiKeyDetected
    ring,       \* keyBuffer: [buf, rd, wr]
    tring,      \* TimerEfiKeyBuffer
    list,       \* NotifyList
    running,    \* TimerRunning
    timer,      \* CallbackTimer: "idle", "armed", or "closed"
    place,      \* how far Reset or a registration has come, or "idle"
    torn,       \* history: the timer polled in the middle of the latest Reset
    unread,     \* history: the keys found and not yet read, until the ring runs over
    overrun,    \* history: keys were found faster than they were read
    given       \* history: keys generated in this press session

buttons == <<prev, pressed, npressed, detected, given>>
notify == <<list, running, timer>>
vars == <<held, buttons, ring, tring, notify, place, torn, unread, overrun>>

\* What is left to do: of Reset, to zero the count, empty the timer's ring, clear the
\* two matrices (the one that is pPrevButtonArray or the other is left), clear
\* keysPressed, and clear the detection; of the others, to start or close the timer.
ResetPlaces == {"count", "ring", "reader", "matrices", "prevLeft", "currLeft", "pressed",
                "detection"}
Places == {"idle", "arm", "running", "close"} \cup ResetPlaces

Slots == 0 .. RingSize - 1
Ring == [buf : [Slots -> EfiKeys \cup {NoKey}], rd : Slots, wr : Slots]

TypeOK ==
    /\ held \subseteq KeyMap /\ prev \subseteq KeyMap /\ pressed \subseteq KeyMap
    /\ npressed \in 0 .. 255 /\ detected \in BOOLEAN /\ given \in Nat
    /\ ring \in Ring /\ tring \in Ring
    /\ list \in Seq(Patterns) /\ running \in BOOLEAN /\ timer \in {"idle", "armed", "closed"}
    /\ place \in Places /\ torn \in BOOLEAN
    /\ unread \in Seq(EfiKeys) /\ overrun \in BOOLEAN

-----------------------------------------------------------------------------
(* The rings.                                                              *)

Succ(i) == (i + 1) % RingSize
NewRing == [buf |-> [i \in Slots |-> NoKey], rd |-> 0, wr |-> 0]
Store(r, k) == [r EXCEPT !.buf[r.wr] = k, !.wr = Succ(r.wr)]
\* What was read is forgotten: of a ring that ran over, a slot may be read again.
Consume(r) == [r EXCEPT !.buf[r.rd] = NoKey, !.rd = Succ(r.rd)]
IsKeyInBuffer(r) == r.rd # r.wr

-----------------------------------------------------------------------------
(* ExynosButtonsLib.  PollButtonArray returns no value when it succeeds, so *)
(* a poll counts as a failure or not whatever it read.                      *)

\* ConvertEfiKeyCode for a session that has no key yet: combinations first.
\* The carriage return of the power key is a scan code, which is that of F3.
Combination(p, r) ==
    CASE {"CAMERA", "VOL_UP"} \subseteq p -> "HOME"
      [] {"CAMERA", "VOL_DOWN"} \subseteq p /\ "VOL_UP" \notin p -> "DELETE"
      [] {"ROTATE_LOCK", "VOL_UP"} \subseteq p /\ "CAMERA" \notin p -> "ESC"
      [] {"ROTATE_LOCK", "VOL_DOWN"} \subseteq p
            /\ "VOL_UP" \notin p /\ "CAMERA" \notin p -> "DELETE"
      [] "VOL_UP" \in p /\ p \cap {"CAMERA", "ROTATE_LOCK"} = {}
           -> IF "PWR" \in p THEN "HOME" ELSE "UP"
      [] "VOL_DOWN" \in p /\ p \cap {"CAMERA", "ROTATE_LOCK", "VOL_UP"} = {}
           -> IF "PWR" \in p THEN "DELETE" ELSE "DOWN"
      [] OTHER -> IF r \cap {"CAMERA", "ROTATE_LOCK"} # {} THEN "ENTER"
                  ELSE IF "HOME" \in p THEN "HOME"
                  ELSE IF "PWR" \in p THEN "F3" ELSE NoKey

\* Mutant of ConvertEfiKeyCode: converts what was converted before, too.
ConvertAlways(p, n, r) == [key |-> Combination(p, r), detected |-> n # 0]
ConvertEfiKeyCode(p, n, r) ==
    LET key == IF detected THEN NoKey ELSE Combination(p, r)
    IN  [key |-> key, detected |-> n # 0 /\ (detected \/ key # NoKey)]

-----------------------------------------------------------------------------
(* PollForKey.  x is what the poll leaves and whether it found a key.      *)

Stale == [prev |-> prev, pressed |-> pressed, npressed |-> npressed, detected |-> detected,
          ring |-> ring, tring |-> tring, key |-> NoKey, place |-> place]

\* The matrices change places, and so does the one that Reset has left to clear.
Swapped == CASE place = "prevLeft" -> "currLeft"
             [] place = "currLeft" -> "prevLeft"
             [] OTHER -> place

\* ProcessArray for the buttons sampled, then the conversion, if any changed.  A
\* button that keysPressed does not hold is not counted down, and the count is a UINT8.
Sampled ==
    LET down == held \ prev
        up   == prev \ held
        p    == (pressed \ up) \cup down
        n    == (npressed + Cardinality(down) - Cardinality(pressed \cap up)) % 256
        c    == ConvertEfiKeyCode(p, n, up)
    IN  IF held = prev THEN [Stale EXCEPT !.place = Swapped]
        ELSE [prev |-> held, pressed |-> p, npressed |-> n, detected |-> c.detected,
              ring |-> IF c.key = NoKey THEN ring ELSE Store(ring, c.key),
              tring |-> IF c.key # NoKey /\ running THEN Store(tring, c.key) ELSE tring,
              key |-> c.key, place |-> Swapped]

Polls == {Stale, Sampled}

\* A full ring that takes one more key looks empty.
Polled(x) ==
    /\ prev' = x.prev /\ pressed' = x.pressed /\ npressed' = x.npressed
    /\ detected' = x.detected
    /\ given' = (IF x.npressed = 0 THEN 0 ELSE given + (IF x.key = NoKey THEN 0 ELSE 1))
    /\ overrun' = (overrun \/ (x.key # NoKey /\ Len(unread) = RingSize - 1))
Found(x) == IF overrun' THEN <<>>
            ELSE IF x.key = NoKey THEN unread ELSE Append(unread, x.key)

-----------------------------------------------------------------------------
(* The polls.                                                              *)

\* WaitForKeyCallback: the event is signalled if there is a key.
WaitForKeyCallback(x) ==
    /\ place = "idle"
    /\ Polled(x)
    /\ ring' = x.ring /\ tring' = x.tring /\ unread' = Found(x)
    /\ UNCHANGED <<held, notify, place, torn>>

\* KeysDxeReadKeyStroke, and KeysDxeReadKeyStrokeEx, which notifies as well.
KeysDxeReadKeyStroke(x) ==
    /\ place = "idle"
    /\ Polled(x)
    /\ tring' = x.tring
    /\ IF x.key # NoKey \/ IsKeyInBuffer(x.ring)
       THEN /\ ring' = Consume(x.ring)
            /\ unread' = IF overrun' THEN <<>> ELSE Tail(Found(x))
       ELSE ring' = x.ring /\ unread' = unread
    /\ UNCHANGED <<held, notify, place, torn>>

\* The timer reads its own ring and leaves the readers theirs.  It finds the others
\* between two steps; a Reset is over long before the timer's next period.
PollForKeyCallback(x) ==
    /\ timer = "armed"
    /\ place \in ResetPlaces => ~torn
    /\ Polled(x)
    /\ ring' = x.ring /\ unread' = Found(x)
    /\ tring' = IF x.key # NoKey \/ IsKeyInBuffer(x.tring) THEN Consume(x.tring) ELSE x.tring
    /\ place' = x.place /\ torn' = (torn \/ place \in ResetPlaces)
    /\ UNCHANGED <<held, notify>>

-----------------------------------------------------------------------------
(* Reset.  No poll but the timer's comes between, and that does not read    *)
(* keyBufferRead: the readers' ring is emptied in one step.                 *)

Advance(from, to) == place = from /\ place' = to /\ UNCHANGED <<held, notify>>

KeysDxeReset ==
    /\ Advance("idle", "count")
    /\ ring' = NewRing /\ unread' = <<>> /\ overrun' = FALSE /\ torn' = FALSE
    /\ UNCHANGED <<buttons, tring>>

ResetCount ==
    /\ Advance("count", "ring")
    /\ npressed' = 0
    /\ UNCHANGED <<prev, pressed, detected, given, ring, tring, unread, overrun, torn>>

\* First the pointer that is written through, then the one that is read through.
ResetTimerRing ==
    /\ \/ Advance("ring", "reader") /\ tring' = [tring EXCEPT !.wr = 0]
       \/ Advance("reader", "matrices") /\ tring' = [tring EXCEPT !.rd = 0]
    /\ UNCHANGED <<buttons, ring, unread, overrun, torn>>

\* Either matrix may be the one that is compared with.
ResetMatrixA ==
    /\ \/ Advance("matrices", "currLeft") /\ prev' = {}
       \/ Advance("matrices", "prevLeft") /\ prev' = prev
    /\ UNCHANGED <<pressed, npressed, detected, given, ring, tring, unread, overrun, torn>>

ResetMatrixB ==
    /\ \/ Advance("prevLeft", "pressed") /\ prev' = {}
       \/ Advance("currLeft", "pressed") /\ prev' = prev
    /\ UNCHANGED <<pressed, npressed, detected, given, ring, tring, unread, overrun, torn>>

ResetPressed ==
    /\ Advance("pressed", "detection")
    /\ pressed' = {}
    /\ UNCHANGED <<prev, npressed, detected, given, ring, tring, unread, overrun, torn>>

ResetDetection ==
    /\ Advance("detection", "idle")
    /\ detected' = FALSE /\ given' = 0
    /\ UNCHANGED <<prev, pressed, npressed, ring, tring, unread, overrun, torn>>

ResetSteps ==
    \/ KeysDxeReset \/ ResetCount \/ ResetTimerRing \/ ResetMatrixA \/ ResetMatrixB
    \/ ResetPressed \/ ResetDetection

-----------------------------------------------------------------------------
(* Notifications.                                                          *)

\* The first registration starts the timer, if there still is one.
KeysDxeRegisterKeyNotify(k) ==
    /\ place = "idle"
    /\ \A i \in DOMAIN list : list[i] # k
    /\ list' = Append(list, k)
    /\ place' = IF list = <<>> /\ timer # "closed" THEN "arm" ELSE "idle"
    /\ UNCHANGED <<held, buttons, ring, tring, running, timer, torn, unread, overrun>>

\* The timer may poll before TimerRunning says so, and the key is not in its ring.
StartTimer ==
    /\ \/ place = "arm" /\ place' = "running" /\ timer' = "armed" /\ running' = running
       \/ place = "running" /\ place' = "idle" /\ timer' = timer /\ running' = TRUE
    /\ UNCHANGED <<held, buttons, ring, tring, list, torn, unread, overrun>>

\* The last one closes it.
KeysDxeUnregisterKeyNotify(i) ==
    /\ place = "idle"
    /\ list' = SubSeq(list, 1, i - 1) \o SubSeq(list, i + 1, Len(list))
    /\ place' = IF list' = <<>> THEN "close" ELSE "idle"
    /\ UNCHANGED <<held, buttons, ring, tring, running, timer, torn, unread, overrun>>

\* Once the timer is closed nothing comes between what is left.
CloseTimer ==
    /\ place = "close" /\ place' = "idle"
    /\ timer' = "closed" /\ running' = FALSE /\ tring' = NewRing
    /\ UNCHANGED <<held, buttons, ring, list, torn, unread, overrun>>

User ==
    /\ held' \in SUBSET KeyMap
    /\ UNCHANGED <<buttons, ring, tring, notify, place, torn, unread, overrun>>

-----------------------------------------------------------------------------
\* ButtonsDxeInitialize; the buffers are global and zero.
Init ==
    /\ held \in SUBSET KeyMap
    /\ prev = {} /\ pressed = {} /\ npressed = 0 /\ detected = FALSE /\ given = 0
    /\ ring = NewRing /\ tring = NewRing
    /\ list = <<>> /\ running = FALSE /\ timer = "idle"
    /\ place = "idle" /\ torn = FALSE
    /\ unread = <<>> /\ overrun = FALSE

Next ==
    \/ \E x \in Polls :
         WaitForKeyCallback(x) \/ KeysDxeReadKeyStroke(x) \/ PollForKeyCallback(x)
    \/ ResetSteps
    \/ \E k \in Patterns : KeysDxeRegisterKeyNotify(k)
    \/ \E i \in DOMAIN list : KeysDxeUnregisterKeyNotify(i)
    \/ StartTimer \/ CloseTimer
    \/ User

Spec == Init /\ [][Next]_vars

-----------------------------------------------------------------------------
(* Properties.                                                             *)

\* The driver's list of pressed keys, its count and the last sample agree whenever it
\* is at rest, so that a session ends exactly when no button is pressed, and a press
\* session (ExynosButtonsLib.c:77) gives at most one key.  Not so after a Reset in whose
\* middle the timer polled (ButtonsDxe.c:476-484): the count is then off by what the
\* poll found, a session may never end, and no key comes until the next Reset.
OneKeyPerSession ==
    place = "idle" /\ ~torn =>
        /\ pressed = prev /\ npressed = Cardinality(prev)
        /\ given <= 1

\* Until a ring runs over, the readers get every key found, in order, whoever's
\* poll found it: a reader's, the wait event's or the timer's, in a Reset or out of it.
RingContents(r) == [i \in 1 .. (r.wr - r.rd) % RingSize |-> r.buf[(r.rd + i - 1) % RingSize]]
NoKeyLost == ~overrun => RingContents(ring) = unread
=============================================================================
