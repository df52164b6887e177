------------------------------- MODULE Keypad -------------------------------
(***************************************************************************)
(* Drivers/KeypadDxe: a keypad device as SIMPLE_TEXT_INPUT(_EX).  Keys go   *)
(* into one ring for the readers and, when a registered notification wants *)
(* them, into a second one that KeyNotifyProcessHandler serves.            *)
(*                                                                         *)
(* Task priority levels order everything: the clients run at               *)
(* TPL_APPLICATION, the polling timer and the notification handler at      *)
(* TPL_CALLBACK, and every operation on the rings and the list at          *)
(* TPL_NOTIFY, which nothing here preempts.  The notification functions    *)
(* the handler calls are clients themselves.  KeypadErr is left out: only  *)
(* KeypadError sets it and nothing calls KeypadError.                      *)
(***************************************************************************)
EXTENDS KeyRing, FiniteSets

CONSTANTS
    Keys,        \* key data the device may report
    Patterns,    \* key data the clients register for
    Functions,   \* notification functions
    Handles,     \* addresses AllocateZeroPool may return for a notification
    End,         \* &NotifyList, the end of a walk
    MaxStrokes,  \* bound: strokes the device delivers
    StopFails    \* may UninstallMultipleProtocolInterfaces refuse

KeyData == [code : STRING, shift : 0..1, toggle : 0..1]
NullKey == "null"     \* SCAN_NULL and CHAR_NULL: a partial keystroke

ASSUME KeypadAssumption ==
    /\ Keys \subseteq KeyData /\ Patterns \subseteq KeyData
    /\ End \notin Handles
    /\ MaxStrokes \in Nat
    /\ StopFails \in BOOLEAN
    /\ NoStroke.n = 0

VARIABLES
    phase,      \* the driver on the controller: absent, starting or ready
    events,     \* the events the private data refers to
    orphans,    \* events still open of the private data given up last
    ring,       \* EfiKeyQueue
    nring,      \* EfiKeyQueueForNotify
    exposed,    \* IsSupportPartialKey
    list,       \* NotifyList, oldest registration first
    signalled,  \* KeyNotifyProcessEvent is signalled and not yet dispatched
    handler,    \* KeyNotifyProcessHandler: where, its KeyData, its Link
    holder,     \* who polls the device at TPL_NOTIFY, for what, the stroke it
                \* is pushing and the notifications still to queue for it
    reading,    \* the clients inside ReadKeyStroke's loop
    strokes     \* strokes delivered to this private data

vars == <<phase, events, orphans, ring, nring, exposed, list, signalled,
          handler, holder, reading, strokes>>

\* "app" is a client at TPL_APPLICATION, "fn" the notification function that
\* KeyNotifyProcessHandler is calling.
Clients == {"app", "fn"}
Events  == {"WaitForKey", "WaitForKeyEx", "Timer", "KeyNotify"}
Strokes == [key : Keys, n : 1 .. MaxStrokes]
Entries == [handle : Handles, pattern : Patterns, fn : Functions]

Free    == [by |-> "none", op |-> "none", stroke |-> NoStroke, copies |-> 0]
Holders == [by : Clients \cup {"timer", "none"},
            op : {"none", "timer", "read", "readEx", "wait", "skip"},
            stroke : Strokes \cup {NoStroke}, copies : Nat]
AtRest  == [pc |-> "idle", stroke |-> NoStroke, link |-> End]

TypeOK ==
    /\ phase \in {"absent", "starting", "ready"}
    /\ events \subseteq Events /\ orphans \subseteq Events
    /\ ring \in Rings(Strokes) /\ nring \in Rings(Strokes)
    /\ exposed \in BOOLEAN
    /\ list \in Seq(Entries)
    /\ signalled \in BOOLEAN
    /\ handler \in [pc : {"idle", "pop", "walk", "call", "lost"},
                    stroke : Strokes \cup {NoStroke}, link : Handles \cup {End}]
    /\ holder \in Holders
    /\ reading \subseteq Clients
    /\ strokes \in 0 .. MaxStrokes

Init ==
    /\ phase = "absent"
    /\ events = {} /\ orphans = {}
    /\ ring = EmptyRing /\ nring = EmptyRing
    /\ exposed = FALSE
    /\ list = <<>>
    /\ signalled = FALSE
    /\ handler = AtRest
    /\ holder = Free
    /\ reading = {}
    /\ strokes = 0

-----------------------------------------------------------------------------
(* The notification list.                                                  *)

\* A zero shift or toggle state in the registered data matches any.
IsKeyRegistered(reg, in) ==
    /\ reg.code = in.code
    /\ reg.shift # 0 => reg.shift = in.shift
    /\ reg.toggle # 0 => reg.toggle = in.toggle

Registered == {list[i].handle : i \in DOMAIN list}
EntryAt(h) == list[CHOOSE i \in DOMAIN list : list[i].handle = h]

GetFirstNode == IF list = <<>> THEN End ELSE list[1].handle
GetNextNode(h) ==
    LET i == CHOOSE j \in DOMAIN list : list[j].handle = h
    IN  IF i = Len(list) THEN End ELSE list[i + 1].handle

Without(h) ==
    LET i == CHOOSE j \in DOMAIN list : list[j].handle = h
    IN  SubSeq(list, 1, i - 1) \o SubSeq(list, i + 1, Len(list))

\* The registrations that want key k.
Wanting(k) == {i \in DOMAIN list : IsKeyRegistered(list[i].pattern, k)}

-----------------------------------------------------------------------------
(* Who may run.                                                            *)

\* Raising the event queues its handler, and RestoreTPL runs it before a
\* client at TPL_APPLICATION goes on.
AppRuns == handler.pc = "idle" /\ ~signalled
Runs(c) == IF c = "fn" THEN handler.pc = "call" ELSE AppRuns

\* Client c may call a protocol function.
MayCall(c) == /\ phase = "ready"
              /\ holder = Free
              /\ c \notin reading
              /\ Runs(c)

-----------------------------------------------------------------------------
(* Polling: KeypadTimerHandler calls the device's GetKeys at TPL_NOTIFY,    *)
(* which pushes keys through KeypadReturnApi before it returns.            *)

TimerTick ==
    /\ "Timer" \in events
    /\ holder = Free /\ handler.pc = "idle"
    /\ holder' = [Free EXCEPT !.by = "timer", !.op = "timer"]
    /\ UNCHANGED <<phase, events, orphans, ring, nring, exposed, list,
                   signalled, handler, reading, strokes>>

\* ReadKeyStroke, ReadKeyStrokeEx and the notification of WaitForKey (or
\* WaitForKeyEx, which calls it) poll first.
EnterPoll(c, op) ==
    /\ phase = "ready" /\ holder = Free /\ Runs(c)
    /\ c \in reading => op = "read"
    /\ holder' = [Free EXCEPT !.by = c, !.op = op]
    /\ reading' = IF op = "read" THEN reading \cup {c} ELSE reading
    /\ UNCHANGED <<phase, events, orphans, ring, nring, exposed, list,
                   signalled, handler, strokes>>

Polling == holder.op \in {"timer", "read", "readEx", "wait"}

\* The device reports k: a partial key is dropped unless exposed, any other
\* gets a number and is due one entry per registration that wants it.
KeypadReturnApiPushEfikeyBufTail(k) ==
    /\ Polling /\ holder.stroke = NoStroke
    /\ strokes < MaxStrokes
    /\ k.code = NullKey => exposed
    /\ strokes' = strokes + 1
    /\ holder' = [holder EXCEPT !.stroke = [key |-> k, n |-> strokes + 1],
                                !.copies = Cardinality(Wanting(k))]
    /\ UNCHANGED <<phase, events, orphans, ring, nring, exposed, list,
                   signalled, handler, reading>>

\* Mutant of QueueForNotify: queues the stroke and signals nothing.
QueueSilently ==
    /\ holder.stroke # NoStroke /\ holder.copies > 0
    /\ nring' = PushEfikeyBufTail(nring, holder.stroke)
    /\ holder' = [holder EXCEPT !.copies = @ - 1]
    /\ UNCHANGED <<phase, events, orphans, ring, exposed, list, signalled,
                   handler, reading, strokes>>

\* One turn of its loop over NotifyList that finds a match.
QueueForNotify ==
    /\ holder.stroke # NoStroke /\ holder.copies > 0
    /\ nring' = PushEfikeyBufTail(nring, holder.stroke)
    /\ signalled' = TRUE
    /\ holder' = [holder EXCEPT !.copies = @ - 1]
    /\ UNCHANGED <<phase, events, orphans, ring, exposed, list, handler,
                   reading, strokes>>

\* After the loop the stroke goes to the readers.
QueueForReaders ==
    /\ holder.stroke # NoStroke /\ holder.copies = 0
    /\ ring' = PushEfikeyBufTail(ring, holder.stroke)
    /\ holder' = [holder EXCEPT !.stroke = NoStroke]
    /\ UNCHANGED <<phase, events, orphans, nring, exposed, list, signalled,
                   handler, reading, strokes>>

IsPartial(q) == ~IsEfikeyBufEmpty(q) /\ HeadKey(q).key.code = NullKey

\* GetKeys returns to the timer.
PollDone ==
    /\ holder.op = "timer" /\ holder.stroke = NoStroke
    /\ holder' = Free
    /\ UNCHANGED <<phase, events, orphans, ring, nring, exposed, list,
                   signalled, handler, reading, strokes>>

\* GetKeys returns to KeypadReadKeyStrokeWorker, which pops; ReadKeyStroke
\* goes round again after a partial key.
ReadDone ==
    /\ holder.op \in {"read", "readEx"} /\ holder.stroke = NoStroke
    /\ ring' = PopEfikeyBufHead(ring)
    /\ reading' = IF holder.op = "read" /\ IsPartial(ring) THEN reading
                  ELSE reading \ {holder.by}
    /\ holder' = Free
    /\ UNCHANGED <<phase, events, orphans, nring, exposed, list, signalled,
                   handler, strokes>>

\* GetKeys returns to KeypadWaitForKey, which drops the partial keys at the
\* head and signals its event if a key is left.
WaitSkip ==
    /\ holder.op \in {"wait", "skip"} /\ holder.stroke = NoStroke
    /\ IsPartial(ring)
    /\ ring' = PopEfikeyBufHead(ring)
    /\ holder' = [holder EXCEPT !.op = "skip"]
    /\ UNCHANGED <<phase, events, orphans, nring, exposed, list, signalled,
                   handler, reading, strokes>>

WaitDone ==
    /\ holder.op \in {"wait", "skip"} /\ holder.stroke = NoStroke
    /\ ~IsPartial(ring)
    /\ holder' = Free
    /\ UNCHANGED <<phase, events, orphans, ring, nring, exposed, list,
                   signalled, handler, reading, strokes>>

-----------------------------------------------------------------------------
(* The other protocol functions, each one critical section.                *)

\* Mutant of InitKeypad: frees the registrations too.
InitKeypadForgets ==
    /\ ring' = ClearRing(ring) /\ nring' = ClearRing(nring)
    /\ exposed' = FALSE
    /\ list' = <<>>

InitKeypad ==
    /\ ring' = ClearRing(ring) /\ nring' = ClearRing(nring)
    /\ exposed' = FALSE
    /\ UNCHANGED list

KeypadEfiReset(c) ==
    /\ MayCall(c)
    /\ InitKeypad
    /\ UNCHANGED <<phase, events, orphans, signalled, handler, holder,
                   reading, strokes>>

\* The tests of the four bits are else-if: a lock hides EXPOSED.
KeypadSetState(c, locks, expose) ==
    /\ MayCall(c)
    /\ exposed' = (expose /\ ~locks)
    /\ UNCHANGED <<phase, events, orphans, ring, nring, list, signalled,
                   handler, holder, reading, strokes>>

\* A pair already registered gets its old handle and changes nothing.
KeypadRegisterKeyNotify(c, pattern, fn) ==
    /\ MayCall(c)
    /\ \A i \in DOMAIN list :
          IsKeyRegistered(list[i].pattern, pattern) => list[i].fn # fn
    /\ \E h \in Handles \ Registered :
          list' = Append(list, [handle |-> h, pattern |-> pattern, fn |-> fn])
    /\ UNCHANGED <<phase, events, orphans, ring, nring, exposed, signalled,
                   handler, holder, reading, strokes>>

\* The walk's own node may be the one removed and freed: no line looks at
\* what the handler stands on.
KeypadUnregisterKeyNotify(c, h) ==
    /\ MayCall(c)
    /\ h \in Registered
    /\ list' = Without(h)
    /\ UNCHANGED <<phase, events, orphans, ring, nring, exposed, signalled,
                   handler, holder, reading, strokes>>

-----------------------------------------------------------------------------
(* KeyNotifyProcessHandler: pops at TPL_NOTIFY, walks the list and calls   *)
(* the functions at TPL_CALLBACK.                                          *)

Dispatch ==
    /\ signalled /\ handler.pc = "idle" /\ holder = Free
    /\ signalled' = FALSE
    /\ handler' = [handler EXCEPT !.pc = "pop"]
    /\ UNCHANGED <<phase, events, orphans, ring, nring, exposed, list, holder,
                   reading, strokes>>

\* Mutant of HandlerPop: takes the newest key.
HandlerPopNewest ==
    /\ handler.pc = "pop" /\ holder = Free
    /\ IF IsEfikeyBufEmpty(nring)
       THEN /\ handler' = AtRest
            /\ UNCHANGED nring
       ELSE LET t == (nring.tail + RingSize - 1) % RingSize IN
            /\ handler' = [pc |-> "walk", stroke |-> nring.buf[t],
                           link |-> GetFirstNode]
            /\ nring' = [nring EXCEPT !.tail = t]
    /\ UNCHANGED <<phase, events, orphans, ring, exposed, list, signalled,
                   holder, reading, strokes>>

HandlerPop ==
    /\ handler.pc = "pop" /\ holder = Free
    /\ handler' = IF IsEfikeyBufEmpty(nring) THEN AtRest
                  ELSE [pc |-> "walk", stroke |-> HeadKey(nring),
                        link |-> GetFirstNode]
    /\ nring' = PopEfikeyBufHead(nring)
    /\ UNCHANGED <<phase, events, orphans, ring, exposed, list, signalled,
                   holder, reading, strokes>>

\* Mutant of HandlerWalk: returns after one stroke.
HandlerWalkOnce ==
    /\ handler.pc = "walk" /\ holder = Free
    /\ handler' = IF handler.link = End
                  THEN AtRest
                  ELSE IF IsKeyRegistered(EntryAt(handler.link).pattern,
                                          handler.stroke.key)
                       THEN [handler EXCEPT !.pc = "call"]
                       ELSE [handler EXCEPT !.link = GetNextNode(@)]
    /\ UNCHANGED <<phase, events, orphans, ring, nring, exposed, list,
                   signalled, holder, reading, strokes>>

HandlerWalk ==
    /\ handler.pc = "walk" /\ holder = Free
    /\ handler' = IF handler.link = End
                  THEN [AtRest EXCEPT !.pc = "pop"]
                  ELSE IF IsKeyRegistered(EntryAt(handler.link).pattern,
                                          handler.stroke.key)
                       THEN [handler EXCEPT !.pc = "call"]
                       ELSE [handler EXCEPT !.link = GetNextNode(@)]
    /\ UNCHANGED <<phase, events, orphans, ring, nring, exposed, list,
                   signalled, holder, reading, strokes>>

\* The handler stands at the end of the list or on a node that is in it.
OnNode == handler.link # End => handler.link \in Registered

\* GetNextNode on a node that was freed reads what is left there: a node of
\* the list, its end, or an address that is neither.  With the private data
\* gone too there is no list to come back to.
FreedNext ==
    \/ handler' = [handler EXCEPT !.pc = "lost"]
    \/ /\ phase = "ready"
       /\ \E l \in Registered \cup {End} :
             handler' = [handler EXCEPT !.pc = "walk", !.link = l]

\* The notification function returns; only now is the next node read.
FunctionReturns ==
    /\ handler.pc = "call" /\ holder = Free /\ "fn" \notin reading
    /\ IF OnNode
       THEN handler' = [handler EXCEPT !.pc = "walk", !.link = GetNextNode(@)]
       ELSE FreedNext
    /\ UNCHANGED <<phase, events, orphans, ring, nring, exposed, list,
                   signalled, holder, reading, strokes>>

\* The processor's exception handler keeps the machine for ever.
DeadLoop == handler.pc = "lost" /\ UNCHANGED vars

-----------------------------------------------------------------------------
(* Driver binding.                                                         *)

\* The exits of Start and Stop close one event, the first of an else-if
\* chain that is there, and give up the private data with the others.
CloseFirst(evs, chain) ==
    evs \ {chain[i] : i \in {j \in DOMAIN chain :
             chain[j] \in evs /\ \A k \in 1 .. j - 1 : chain[k] \notin evs}}

StartChain == <<"WaitForKey", "Timer", "WaitForKeyEx", "KeyNotify">>
StopChain  == <<"WaitForKey", "WaitForKeyEx", "KeyNotify">>

\* The private data is gone; events evs still point to it.
GiveUp(evs) ==
    /\ phase' = "absent"
    /\ events' = {}
    /\ orphans' = evs
    /\ ring' = EmptyRing /\ nring' = EmptyRing
    /\ exposed' = FALSE
    /\ list' = <<>>
    /\ strokes' = 0

\* Start up to SetTimer; created is what it had when a call failed.
StartEvents ==
    /\ phase = "absent" /\ holder = Free /\ AppRuns
    /\ \/ /\ phase' = "starting"
          /\ events' = {"WaitForKey", "WaitForKeyEx", "Timer"}
          /\ orphans' = {}
          /\ UNCHANGED <<ring, nring, exposed, list, strokes>>
       \/ \E created \in {{}, {"WaitForKey"}, {"WaitForKey", "WaitForKeyEx"},
                          {"WaitForKey", "WaitForKeyEx", "Timer"}} :
             GiveUp(CloseFirst(created, StartChain))
    /\ UNCHANGED <<signalled, handler, holder, reading>>

\* The rest of Start, with the timer running: KeyNotifyProcessEvent, Reset
\* and InstallMultipleProtocolInterfaces.
StartInstall ==
    /\ phase = "starting" /\ holder = Free
    /\ \/ /\ phase' = "ready"
          /\ events' = events \cup {"KeyNotify"}
          /\ InitKeypad
          /\ UNCHANGED <<orphans, strokes>>
       \/ GiveUp(CloseFirst(events, StartChain))
       \/ GiveUp(CloseFirst(events \cup {"KeyNotify"}, StartChain))
    /\ UNCHANGED <<signalled, handler, holder, reading>>

\* Also from a notification function, under the handler that calls it.
Stop(c) ==
    /\ MayCall(c) /\ reading = {}
    /\ \/ GiveUp(CloseFirst(events \ {"Timer"}, StopChain))
       \/ /\ StopFails
          /\ events' = events \ {"Timer"}
          /\ UNCHANGED <<phase, orphans, ring, nring, exposed, list, strokes>>
    /\ UNCHANGED <<signalled, handler, holder, reading>>

-----------------------------------------------------------------------------

DeviceStep == (\E k \in Keys : KeypadReturnApiPushEfikeyBufTail(k))
PollStep == QueueForNotify \/ QueueForReaders \/ PollDone \/ ReadDone
            \/ WaitSkip \/ WaitDone
ClientStep(c) ==
    \/ \E op \in {"read", "readEx", "wait"} : EnterPoll(c, op)
    \/ KeypadEfiReset(c)
    \/ \E locks, expose \in BOOLEAN : KeypadSetState(c, locks, expose)
    \/ \E p \in Patterns, f \in Functions : KeypadRegisterKeyNotify(c, p, f)
    \/ \E h \in Handles : KeypadUnregisterKeyNotify(c, h)
HandlerStep == HandlerPop \/ HandlerWalk

Next == \/ TimerTick \/ DeviceStep \/ PollStep
        \/ \E c \in Clients : ClientStep(c)
        \/ Dispatch \/ HandlerStep \/ FunctionReturns \/ DeadLoop
        \/ StartEvents \/ StartInstall \/ \E c \in Clients : Stop(c)

Spec == Init /\ [][Next]_vars

\* A critical section ends; the handler goes on when nothing preempts it; a
\* signalled handler is dispatched in its turn among the TPL_CALLBACK
\* events; notification functions finish what they call and return.
FairSpec == /\ Spec
            /\ WF_vars(PollStep)
            /\ WF_vars(HandlerStep)
            /\ SF_vars(Dispatch)
            /\ SF_vars(EnterPoll("fn", "read") /\ "fn" \in reading)
            /\ SF_vars(FunctionReturns)

-----------------------------------------------------------------------------
(* Properties.                                                             *)

\* What the readers see is a queue that loses only its oldest keys: no
\* interleaving of the timer, ReadKeyStroke's loop, WaitForKey's skipping,
\* notification functions and Reset reorders or repeats a stroke.
ReadersFifo == INSTANCE KeyFifo WITH arriving <- holder.stroke,
                                     pending <- Contents(ring),
                                     Capacity <- RingSize - 1
ReadersSpec == ReadersFifo!Spec

\* No lost wake-up: a stroke queued for the notifications has the event
\* signalled or the handler still to look at the ring, whatever was queued,
\* reset or unregistered while the handler was walking.
NotifyWakeup ==
    ~IsEfikeyBufEmpty(nring) => signalled \/ handler.pc # "idle"

\* The handler's node is freed under it by two calls only, both from the
\* function it is calling: the unregistration of that very entry and Stop.
\* Other registrations coming and going, Reset, reads, the timer and the
\* binding of the driver leave it on the list.
WalkerAlive ==
    [][OnNode => \/ OnNode'
                 \/ KeypadUnregisterKeyNotify("fn", handler.link)
                 \/ Stop("fn")]_vars

\* Notifications come in the order of the strokes: the one in the handler's
\* hands is not newer than those queued, nor these out of order.
NotifyInOrder ==
    LET q == <<handler.stroke>> \o Contents(nring) IN
    \A i, j \in DOMAIN q : i < j => q[i].n <= q[j].n

\* Every stroke queued for the notifications leaves the queue: the handler
\* takes it, or overflow, Reset or Stop drops it.  Only notification
\* functions that register new ones for ever can keep the handler walking,
\* and only a freed node can make it lose its way.
Queued(n) == \E i \in DOMAIN Contents(nring) : Contents(nring)[i].n = n
Notified ==
    \/ \A n \in 1 .. MaxStrokes : Queued(n) ~> ~Queued(n)
    \/ []<><<\E p \in Patterns, f \in Functions :
                KeypadRegisterKeyNotify("fn", p, f)>>_vars
    \/ <>(handler.pc = "lost")
=============================================================================
