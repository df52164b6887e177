------------------------ MODULE ConSplitterPointer ------------------------
(***************************************************************************)
(* Drivers/ConSplitterDxe, the pointers of mConIn: one simple pointer that  *)
(* adds up the movements of all mice, and one absolute pointer that shows   *)
(* the last of the touch panels that changed, each scaled to the virtual    *)
(* resolution.  One axis stands for the three, which are handled alike.     *)
(***************************************************************************)
EXTENDS Integers, FiniteSets, SequencesExt

CONSTANTS
    Mice, Panels,   \* SIMPLE_POINTER and ABSOLUTE_POINTER devices
    Faulty,         \* those whose Reset or GetState may fail
    Resolution,     \* per mouse: Mode->ResolutionX, 0 for an axis it lacks
    Extent,         \* per panel: Mode->AbsoluteMinX and AbsoluteMaxX
    VirtualMax,     \* resolution of the virtual pointers, which start at 0
    IntMax,         \* largest INT32
    Buttons,
    AllocUnit,      \* CONSOLE_SPLITTER_ALLOC_UNIT
    Reach           \* bound: movement of a mouse between two reads

Pointing == Mice \cup Panels
PointerKinds == {"simple", "absolute"}
KindOf(d) == IF d \in Mice THEN "simple" ELSE "absolute"

PointerAssumption ==
    /\ Mice \cap Panels = {} /\ Faulty \subseteq Pointing
    /\ Resolution \in [Mice -> Nat]
    /\ Extent \in [Panels -> {r \in [min : Nat, max : Nat] : r.min < r.max \/ r.max = 0}]
    /\ {VirtualMax, IntMax, Reach} \subseteq Nat /\ AllocUnit \in Nat \ {0}

VARIABLES
    pointers,   \* PointerList and AbsolutePointerList, as long as they are
    caps,       \* PointerListCount and AbsolutePointerListCount
    signal,     \* InputEventSignalState and AbsoluteInputEventSignalState
    device,     \* what a device will answer to GetState
    answer,     \* what the last successful GetState of the panels returned
    owed,       \* history: movement the user made and GetState has not returned,
                \* nor a device lost that was reset or left
    gone        \* history: kinds a device left since the last GetState

vars == <<pointers, caps, signal, device, answer, owed, gone>>

States  == [changed : BOOLEAN, x : Int, buttons : SUBSET Buttons]
Resting == [changed |-> FALSE, x |-> 0, buttons |-> {}]

TypeOK ==
    /\ pointers \in [PointerKinds -> Seq(Pointing)]
    /\ caps \in [PointerKinds -> Nat]
    /\ signal \in [PointerKinds -> BOOLEAN]
    /\ device \in [Pointing -> States]
    /\ answer \in [x : Int, buttons : SUBSET Buttons, from : SUBSET Panels]
    /\ owed \in Int
    /\ gone \subseteq PointerKinds

Init ==
    /\ pointers = [k \in PointerKinds |-> <<>>]
    /\ caps = [k \in PointerKinds |-> AllocUnit]
    /\ signal = [k \in PointerKinds |-> FALSE]
    /\ device = [d \in Pointing |-> Resting]
    /\ answer = [x |-> 0, buttons |-> {}, from |-> {}]
    /\ owed = 0 /\ gone = {}

Held(s) == {s[i] : i \in DOMAIN s}
Listed(k) == Held(pointers[k])

-----------------------------------------------------------------------------
(* Scaling.                                                                *)

\* A product of INT32 values.
Int32(n) == ((n + IntMax + 1) % (2 * (IntMax + 1))) - (IntMax + 1)
Quotient(n, m) == IF n < 0 THEN -((-n) \div m) ELSE n \div m

ScaledMove(d, x) ==
    IF x = 0 \/ Resolution[d] = 0 THEN 0
    ELSE Quotient(Int32(x * VirtualMax), Resolution[d])

\* An axis whose range is empty keeps what is there.
ScaledPosition(d, x, old) ==
    IF Extent[d].max = 0 THEN old
    ELSE (x * VirtualMax) \div (Extent[d].max - Extent[d].min)

\* The movements of those in S, added up along PointerList.
Moved(S) ==
    LET list == pointers["simple"]
        sum[i \in 0 .. Len(list)] ==
            IF i = 0 THEN 0
            ELSE sum[i - 1] + (IF list[i] \in S THEN ScaledMove(list[i], device[list[i]].x) ELSE 0)
    IN  sum[Len(list)]

-----------------------------------------------------------------------------
(* Binding.                                                                *)

\* ConSplitterSimplePointerAddDevice and ConSplitterAbsolutePointerAddDevice.
AddDevice(d) ==
    LET k == KindOf(d) IN
    /\ caps' = IF Len(pointers[k]) >= caps[k] THEN [caps EXCEPT ![k] = @ + AllocUnit] ELSE caps
    /\ pointers' = [pointers EXCEPT ![k] = Append(@, d)]

\* The drivers for the two kinds differ in the protocol they are about.
Start(d) ==
    /\ d \notin Listed(KindOf(d))
    /\ AddDevice(d)
    /\ UNCHANGED <<signal, device, answer, owed, gone>>

\* What a mouse had moved goes with it.
DeleteDevice(d) ==
    pointers' = [pointers EXCEPT ![KindOf(d)] = RemoveAt(@, Min({i \in DOMAIN @ : @[i] = d}))]

Stop(d) ==
    /\ d \in Listed(KindOf(d))
    /\ DeleteDevice(d)
    /\ device' = [device EXCEPT ![d] = Resting]
    /\ owed' = owed - Moved({d})
    /\ gone' = gone \cup {KindOf(d)}
    /\ UNCHANGED <<caps, signal, answer>>

-----------------------------------------------------------------------------
(* Reset, GetState and WaitForInput of the virtual pointers.                *)

ResetPointers(k, failing) ==
    /\ failing \subseteq Faulty \cap Listed(k)
    /\ signal' = [signal EXCEPT ![k] = FALSE]
    /\ LET done == Listed(k) \ failing
       IN  /\ device' = [d \in Pointing |-> IF d \in done THEN Resting ELSE device[d]]
           /\ owed' = IF k = "simple" THEN owed - Moved(done) ELSE owed
    /\ gone' = gone \ {k}
    /\ UNCHANGED <<pointers, caps, answer>>

\* The devices are asked in turn; those that changed answer, and one that is
\* broken makes the status a DEVICE_ERROR, with the movements in State.
ReadyOf(k, broken) == {d \in Listed(k) \ broken : device[d].changed}

\* Mutant of ReadBy: the client's event counts as signalled for ever.
ReadStaysSignalled(k, ready) ==
    /\ gone' = gone \ {k}
    /\ device' = [d \in Pointing |->
         IF d \notin ready THEN device[d]
         ELSE [device[d] EXCEPT !.changed = FALSE, !.x = IF d \in Mice THEN 0 ELSE @]]
    /\ UNCHANGED signal

\* The devices that answered have no change left, and a mouse starts from zero.
ReadBy(k, ready) ==
    /\ signal' = [signal EXCEPT ![k] = FALSE]
    /\ gone' = gone \ {k}
    /\ device' = [d \in Pointing |->
         IF d \notin ready THEN device[d]
         ELSE [device[d] EXCEPT !.changed = FALSE, !.x = IF d \in Mice THEN 0 ELSE @]]

SimplePointerGetState(broken) ==
    /\ broken \subseteq Faulty \cap Listed("simple")
    /\ ReadBy("simple", ReadyOf("simple", broken))
    /\ owed' = owed - Moved(ReadyOf("simple", broken))
    /\ UNCHANGED <<pointers, caps, answer>>

\* One after the other they write the state; an axis that is missing keeps what
\* the one before left.
Shown(ready) ==
    LET list == pointers["absolute"]
        state[i \in 0 .. Len(list)] ==
            IF i = 0 THEN [x |-> 0, buttons |-> {}, from |-> {}]
            ELSE IF list[i] \notin ready THEN state[i - 1]
            ELSE [x |-> ScaledPosition(list[i], device[list[i]].x, state[i - 1].x),
                  buttons |-> device[list[i]].buttons,
                  from |-> IF Extent[list[i]].max = 0 THEN state[i - 1].from ELSE {list[i]}]
    IN  state[Len(list)]

AbsolutePointerGetState(broken) ==
    /\ broken \subseteq Faulty \cap Listed("absolute")
    /\ ReadBy("absolute", ReadyOf("absolute", broken))
    /\ answer' = IF broken # {} \/ ReadyOf("absolute", broken) = {} THEN answer
                 ELSE Shown(ReadyOf("absolute", broken))
    /\ UNCHANGED <<pointers, caps, owed>>

WaitForInput(k) ==
    /\ ~signal[k]
    /\ \E d \in Listed(k) : device[d].changed
    /\ signal' = [signal EXCEPT ![k] = TRUE]
    /\ UNCHANGED <<pointers, caps, device, answer, owed, gone>>

-----------------------------------------------------------------------------
(* The user and the drivers of the devices: external.                       *)

Move(d, x) ==
    /\ d \in Listed("simple")
    /\ device[d].x + x \in -Reach .. Reach
    /\ device' = [device EXCEPT ![d].changed = TRUE, ![d].x = @ + x]
    /\ owed' = owed + ScaledMove(d, device[d].x + x) - ScaledMove(d, device[d].x)
    /\ UNCHANGED <<pointers, caps, signal, answer, gone>>

Touch(d, x, buttons) ==
    /\ d \in Listed("absolute")
    /\ x \in Extent[d].min .. Extent[d].max
    /\ device' = [device EXCEPT ![d] = [changed |-> TRUE, x |-> x, buttons |-> buttons]]
    /\ UNCHANGED <<pointers, caps, signal, answer, owed, gone>>

Next ==
    \/ \E d \in Pointing : Start(d) \/ Stop(d)
    \/ \E k \in PointerKinds : WaitForInput(k)
    \/ \E failing \in SUBSET Faulty :
          \/ \E k \in PointerKinds : ResetPointers(k, failing)
          \/ SimplePointerGetState(failing) \/ AbsolutePointerGetState(failing)
    \/ \E d \in Mice, x \in {-1, 1} : Move(d, x)
    \/ \E d \in Panels, x \in 0 .. VirtualMax, b \in SUBSET Buttons : Touch(d, x, b)

Spec == Init /\ [][Next]_vars

-----------------------------------------------------------------------------
(* Properties.                                                             *)

\* Every movement the user makes with any mouse is returned once, or is still
\* with the mouse, or went with a device that was reset or removed
\* (ConSplitterSimplePointerPrivateGetState).
MovementArrives == owed = Moved(Listed("simple"))

\* A client that is woken finds a device that changed, unless a device left in
\* between: what is remembered of a wake-up is forgotten when the devices are
\* read (InputEventSignalState, AbsoluteInputEventSignalState).
WakeMeansInput ==
    \A k \in PointerKinds :
        signal[k] => k \in gone \/ \E d \in Listed(k) : device[d].changed

\* The position of a touch lies on the virtual screen if the panel that
\* reported it counts from zero (ConSplitterAbsolutePointerGetState).
TouchOnScreen ==
    \A d \in answer.from : Extent[d].min = 0 => answer.x \in 0 .. VirtualMax
=============================================================================
