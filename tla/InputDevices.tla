---------------------------- MODULE InputDevices ----------------------------
(***************************************************************************)
(* What stands between the user and a client of the console's input, beside *)
(* the lists of keyboards (ConSplitterIn): the keys read from keyboards,    *)
(* the pointers, and the button driver.  The three share no state; each is  *)
(* an instance here, for whatever devices there are, with what is said of   *)
(* it.                                                                      *)
(***************************************************************************)
EXTENDS Integers

CONSTANTS
    Keyboards, ExKeyboards,   \* keyboards, and those with SIMPLE_TEXT_INPUT_EX
    Mice, Panels,             \* SIMPLE_POINTER and ABSOLUTE_POINTER devices
    Resolution, Extent,       \* their ranges
    FaultyDevices,            \* devices that may fail
    VirtualMax, IntMax,       \* ranges of the virtual pointers and of INT32
    PointerButtons,           \* buttons of the pointers
    ListUnit,                 \* CONSOLE_SPLITTER_ALLOC_UNIT
    KeyMap, RingSize,         \* buttons, and MAX_KEYS_TO_BUFFER
    ButtonPatterns,           \* keys the button driver's clients wait for
    MaxKeys, Reach            \* bounds: keys pressed, movement between two reads

VARIABLES
    keyConsoles, keyExList, keyQueue, keyQueueCap, exported, keySignal, waiting,
    pending, keysPressed, taken,
    pointers, caps, signal, device, answer, owed, gone,
    held, prev, pressed, npressed, detected, ring, tring, list, running, timer,
    place, torn, unread, overrun, given

keys == <<keyConsoles, keyExList, keyQueue, keyQueueCap, exported, keySignal, waiting,
          pending, keysPressed, taken>>
points == <<pointers, caps, signal, device, answer, owed, gone>>
button == <<held, prev, pressed, npressed, detected, ring, tring, list, running, timer,
            place, torn, unread, overrun, given>>

Keys == INSTANCE ConSplitterKeys WITH
    Devices <- Keyboards, ExDevices <- ExKeyboards, Faulty <- FaultyDevices \cap Keyboards,
    AllocUnit <- ListUnit, consoles <- keyConsoles, exList <- keyExList,
    queue <- keyQueue, queueCap <- keyQueueCap, signal <- keySignal, pressed <- keysPressed
Pointer == INSTANCE ConSplitterPointer WITH
    Faulty <- FaultyDevices \cap (Mice \cup Panels), Buttons <- PointerButtons,
    AllocUnit <- ListUnit
Buttons == INSTANCE ButtonsDxe WITH Patterns <- ButtonPatterns

ASSUME DevicesAssumption ==
    /\ Keys!KeysAssumption /\ Pointer!PointerAssumption /\ Buttons!ButtonsAssumption

-----------------------------------------------------------------------------
\* Reading keys, ConSplitterKeys: those of a keyboard in order, none twice, and
\* never more of them than KeyQueue has room for.
KeysKept == Keys!TypeOK /\ Keys!KeysInOrder /\ Keys!QueueSuffices

\* The pointers, ConSplitterPointer: movements are returned once, a client that is
\* woken finds something, and touches are on the screen.
PointerInput ==
    Pointer!TypeOK /\ Pointer!MovementArrives /\ Pointer!WakeMeansInput /\ Pointer!TouchOnScreen

\* The buttons, ButtonsDxe: one key for a press, and each is read.
ButtonKeys == Buttons!TypeOK /\ Buttons!OneKeyPerSession /\ Buttons!NoKeyLost
=============================================================================
