-------------------------- MODULE ConSplitterKeys --------------------------
(***************************************************************************)
(* Drivers/ConSplitterDxe, reading keys from mConIn: ReadKeyStroke and      *)
(* ReadKeyStrokeEx over the same keyboards, the queue in which the latter   *)
(* saves what several keyboards had ready at once, and the event both tell  *)
(* their callers to wait for.  Of starting, stopping and setting the state  *)
(* (ConSplitterIn) this module keeps what reading depends on.               *)
(***************************************************************************)
EXTENDS Naturals, FiniteSets, SequencesExt

CONSTANTS
    Devices,      \* keyboards
    ExDevices,    \* those with SIMPLE_TEXT_INPUT_EX
    Faulty,       \* those whose Reset or read may fail
    AllocUnit,    \* CONSOLE_SPLITTER_ALLOC_UNIT
    MaxKeys       \* bound: keys pressed

KeysAssumption ==
    /\ ExDevices \subseteq Devices /\ Faulty \subseteq Devices
    /\ AllocUnit \in Nat \ {0} /\ MaxKeys \in Nat

VARIABLES
    consoles,   \* TextInList, CurrentNumberOfConsoles long
    exList,     \* TextInExList, CurrentNumberOfExConsoles long
    queue,      \* KeyQueue, CurrentNumberOfKeys long
    queueCap,   \* keys KeyQueue was allocated for
    exported,   \* VirtualKeyStateExported
    signal,     \* KeyEventSignalState
    waiting,    \* a client is in WaitForEvent on WaitForKey
    pending,    \* per device: keys it has buffered
    pressed,    \* history: keys pressed
    taken       \* history, per device: number of the last key delivered

lists == <<consoles, exList, queueCap>>
vars  == <<lists, queue, exported, signal, waiting, pending, pressed, taken>>

KeyPresses == [dev : Devices, n : 1 .. MaxKeys, partial : BOOLEAN]

TypeOK ==
    /\ consoles \in Seq(Devices) /\ exList \in Seq(ExDevices)
    /\ queue \in Seq(KeyPresses) /\ queueCap \in Nat
    /\ exported \in BOOLEAN /\ signal \in BOOLEAN /\ waiting \in BOOLEAN
    /\ pending \in [Devices -> Seq(KeyPresses)]
    /\ pressed \in 0 .. MaxKeys /\ taken \in [Devices -> 0 .. MaxKeys]

Init ==
    /\ consoles = <<>> /\ exList = <<>>
    /\ queue = <<>> /\ queueCap = AllocUnit
    /\ exported = FALSE /\ signal = FALSE /\ waiting = FALSE
    /\ pending = [d \in Devices |-> <<>>]
    /\ pressed = 0 /\ taken = [d \in Devices |-> 0]

Held(s) == {s[i] : i \in DOMAIN s}

\* s without its first d; the devices behind it move up.
Without(s, d) ==
    IF d \in Held(s) THEN RemoveAt(s, Min({i \in DOMAIN s : s[i] = d})) ELSE s

-----------------------------------------------------------------------------
(* What the rest of the driver does to reading.                            *)

\* Start adds d to the lists; a full TextInExList takes KeyQueue along when
\* it grows.
AddDevice(d) ==
    /\ d \notin Held(consoles)
    /\ consoles' = Append(consoles, d)
    /\ exList' = IF d \in ExDevices THEN Append(exList, d) ELSE exList
    /\ queueCap' = IF d \in ExDevices /\ Len(exList) >= queueCap
                   THEN queueCap + AllocUnit ELSE queueCap
    /\ UNCHANGED <<queue, exported, signal, waiting, pending, pressed, taken>>

DeleteDevice(d) ==
    /\ d \in Held(consoles)
    /\ consoles' = Without(consoles, d)
    /\ exList' = Without(exList, d)
    /\ UNCHANGED <<queueCap, queue, exported, signal, waiting, pending, pressed, taken>>

SetState ==
    /\ ~waiting
    /\ exported' \in BOOLEAN
    /\ UNCHANGED <<lists, queue, signal, waiting, pending, pressed, taken>>

\* Every device of the list is reset; the queue only if none of them fails.
ResetDevices(list, failing) ==
    /\ ~waiting
    /\ failing \subseteq Faulty \cap Held(list)
    /\ pending' = [d \in Devices |-> IF d \in Held(list) \ failing THEN <<>> ELSE pending[d]]
    /\ signal' = FALSE
    /\ \/ failing = {} /\ exported' = FALSE /\ queue' = <<>>
       \/ failing # {} /\ UNCHANGED <<exported, queue>>
    /\ UNCHANGED <<lists, waiting, pressed, taken>>

Reset   == \E failing \in SUBSET Faulty : ResetDevices(consoles, failing)
ResetEx == \E failing \in SUBSET Faulty : ResetDevices(exList, failing)

-----------------------------------------------------------------------------
(* Reading.                                                                *)

Deliver(k) == taken' = [taken EXCEPT ![k.dev] = k.n]

\* Index of the first key of s that is not partial, 0 if there is none.
FirstFull(s) ==
    LET full == {i \in DOMAIN s : ~s[i].partial}
    IN  IF full = {} THEN 0 ELSE Min(full)

\* Mutant of After: the key returned stays in the queue.
AfterTwice(s, i) == SubSeq(s, i, Len(s))

\* What is left once the key at i is taken.
After(s, i) == SubSeq(s, i + 1, Len(s))

\* ConSplitterTextInExDequeueKey, as often as it takes: partial keys before
\* the one returned are dropped.
ReadSaved ==
    /\ FirstFull(queue) # 0
    /\ Deliver(queue[FirstFull(queue)])
    /\ queue' = After(queue, FirstFull(queue))
    /\ UNCHANGED pending

\* The devices in their order: each is read until it has nothing but gives a
\* key that is not partial.  The first n were read and had none.
ReadEmpty(broken, n) ==
    [e \in Devices |-> IF e \in Held(SubSeq(consoles, 1, n)) \ broken THEN <<>> ELSE pending[e]]
KeyReady(d) == FirstFull(pending[d]) # 0
ReadDevices(broken) ==
    /\ FirstFull(queue) = 0
    /\ queue' = <<>>
    /\ LET with == {i \in DOMAIN consoles : consoles[i] \notin broken /\ KeyReady(consoles[i])}
           d == consoles[Min(with)]
           k == FirstFull(pending[d])
       IN  \/ /\ with # {}
              /\ Deliver(pending[d][k])
              /\ pending' = [ReadEmpty(broken, Min(with) - 1) EXCEPT ![d] = After(pending[d], k)]
           \/ /\ with = {}
              /\ pending' = ReadEmpty(broken, Len(consoles))
              /\ UNCHANGED taken

ReadKeyStroke ==
    /\ ~waiting
    /\ signal' = FALSE
    /\ \/ ReadSaved
       \/ \E broken \in SUBSET (Faulty \cap Held(consoles)) : ReadDevices(broken)
    /\ UNCHANGED <<lists, exported, waiting, pressed>>

\* With nothing saved one key of each Ex device is, partial ones only if the
\* clients asked for them; the first saved key is the one returned.
ReadyDevices(broken) == {d \in Held(exList) \ broken : pending[d] # <<>>}
SaveKeys(broken) ==
    LET saved[i \in 0 .. Len(exList)] ==
            IF i = 0 THEN <<>>
            ELSE IF /\ exList[i] \in ReadyDevices(broken)
                    /\ exported \/ ~Head(pending[exList[i]]).partial
                 THEN Append(saved[i - 1], Head(pending[exList[i]])) ELSE saved[i - 1]
    IN  saved[Len(exList)]

ReadKeyStrokeEx ==
    /\ ~waiting
    /\ signal' = FALSE
    /\ \/ /\ queue # <<>>
          /\ Deliver(Head(queue)) /\ queue' = Tail(queue)
          /\ UNCHANGED pending
       \/ /\ queue = <<>>
          /\ \E broken \in SUBSET (Faulty \cap Held(exList)) :
               /\ pending' = [d \in Devices |->
                    IF d \in ReadyDevices(broken) THEN Tail(pending[d]) ELSE pending[d]]
               /\ \/ /\ SaveKeys(broken) = <<>>
                     /\ UNCHANGED <<queue, taken>>
                  \/ /\ SaveKeys(broken) # <<>>
                     /\ Deliver(Head(SaveKeys(broken)))
                     /\ queue' = Tail(SaveKeys(broken))
    /\ UNCHANGED <<lists, exported, waiting, pressed>>

WaitForEvent ==
    /\ ~waiting
    /\ waiting' = TRUE
    /\ UNCHANGED <<lists, queue, exported, signal, pending, pressed, taken>>

\* ConSplitterTextInWaitForKey, when it signals the event.  A device's own
\* event is for keys that are not partial: KeyReady.
WaitForKey ==
    /\ waiting
    /\ signal \/ \E d \in Held(consoles) : KeyReady(d)
    /\ signal' = TRUE
    /\ waiting' = FALSE
    /\ UNCHANGED <<lists, queue, exported, pending, pressed, taken>>

\* The user, and the drivers of the keyboards: external.
Press(d, partial) ==
    /\ pressed < MaxKeys
    /\ pressed' = pressed + 1
    /\ pending' = [pending EXCEPT ![d] =
                     Append(@, [dev |-> d, n |-> pressed + 1, partial |-> partial])]
    /\ UNCHANGED <<lists, queue, exported, signal, waiting, taken>>

-----------------------------------------------------------------------------
Next ==
    \/ \E d \in Devices : AddDevice(d) \/ DeleteDevice(d)
    \/ SetState \/ Reset \/ ResetEx
    \/ ReadKeyStroke \/ ReadKeyStrokeEx \/ WaitForEvent \/ WaitForKey
    \/ \E d \in Devices, partial \in BOOLEAN : Press(d, partial)

Spec == Init /\ [][Next]_vars

-----------------------------------------------------------------------------
(* Properties.                                                             *)

\* The keys of a device are delivered in the order they were pressed and none
\* twice, through whichever protocol and by way of the queue or not
\* (ConSplitterTextInPrivateReadKeyStroke, ConSplitterTextInReadKeyStrokeEx).
KeysInOrder ==
    \A d \in Devices :
        LET Mine == {i \in DOMAIN queue : queue[i].dev = d}
        IN  /\ \A i \in Mine :
                 /\ taken[d] < queue[i].n
                 /\ \A j \in Mine : i < j => queue[i].n < queue[j].n
                 /\ \A j \in DOMAIN pending[d] : queue[i].n < pending[d][j].n
            /\ \A i \in DOMAIN pending[d] :
                 /\ taken[d] < pending[d][i].n
                 /\ \A j \in DOMAIN pending[d] : i < j => pending[d][i].n < pending[d][j].n

\* KeyQueue has room for the keys that are saved in it, however the lists
\* changed since it was allocated (ConSplitterTextInReadKeyStrokeEx writes it
\* without looking at its size).
QueueSuffices == queue = <<>> => Len(SaveKeys({})) <= queueCap
=============================================================================
