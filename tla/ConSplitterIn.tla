--------------------------- MODULE ConSplitterIn ---------------------------
(***************************************************************************)
(* Drivers/ConSplitterDxe, the text input side: mConIn stands for all the   *)
(* keyboards the driver was started on.  A keyboard is in TextInList, and   *)
(* in TextInExList if it has the Ex protocol; a key notification registered *)
(* on mConIn is registered on every one of them, those that come later     *)
(* included, and NotifyHandleList keeps the handle each returned.           *)
(*                                                                         *)
(* The calls run at TPL_APPLICATION and raise nothing.  Devices call        *)
(* ToggleStateSyncKeyNotify from TPL_CALLBACK, where devices also come and  *)
(* go; of the fan-outs SetState is the one that shares state with it, and   *)
(* so the one that is cut at every device.                                  *)
(***************************************************************************)
EXTENDS Naturals, FiniteSets, SequencesExt

CONSTANTS
    Devices,      \* keyboards
    ExDevices,    \* those with SIMPLE_TEXT_INPUT_EX
    Faulty,       \* those whose Reset, SetState or Register may fail
    Patterns,     \* key data clients register for
    Functions,    \* notification functions of clients
    Sync,         \* ToggleStateSyncKeyNotify
    AllocUnit,    \* CONSOLE_SPLITTER_ALLOC_UNIT
    NoHandle      \* what an unused slot of NotifyHandleList holds

PartialKey == [code |-> "null", shift |-> 0]   \* SCAN_NULL, CHAR_NULL, no state
KeyData == [code : STRING, shift : 0 .. 1]

ASSUME ConInAssumption ==
    /\ ExDevices \subseteq Devices /\ Faulty \subseteq Devices
    /\ Patterns \subseteq KeyData
    /\ Sync \notin Functions
    /\ AllocUnit \in Nat \ {0}

VARIABLES
    opened,     \* devices whose ConsoleInDevice GUID the driver holds open
    consoles,   \* the devices of TextInList, whose order only reading minds
    conCap,     \* TextInListCount
    exList,     \* TextInExList, CurrentNumberOfExConsoles long
    exCap,      \* TextInExListCount
    queueCap,   \* keys KeyQueue was allocated for
    notify,     \* NotifyList; NotifyHandleList as long as it was allocated
    phys,       \* PhysicalKeyToggleState
    setting,    \* the call of SetState in progress
    regs,       \* per device: registrations it holds
    toggle,     \* per device: caps lock, and whether it reports partial keys
    due,        \* per device: toggle state its notification is to report
    lapsed      \* history: Ex devices a failed call left in another state

binding  == <<opened, consoles, conCap>>
exVars   == <<exList, exCap, notify, regs>>
toggles  == <<phys, toggle, lapsed>>
vars == <<binding, exVars, toggles, queueCap, setting, due>>

Toggles == [caps : BOOLEAN, exposed : BOOLEAN]
Exposed == [caps |-> FALSE, exposed |-> TRUE]    \* KEY_STATE_VALID_EXPOSED
Cleared == [caps |-> FALSE, exposed |-> FALSE]
NotSetting == [on |-> FALSE, to |-> Cleared, index |-> 0]

Regs == [pattern : Patterns, fn : Functions] \cup [pattern : {PartialKey}, fn : {Sync}]
DeviceHandles == [dev : ExDevices, reg : Regs]
Notifies == [reg : Regs, handles : Seq(DeviceHandles \cup {NoHandle})]

TypeOK ==
    /\ opened \subseteq Devices
    /\ consoles \subseteq Devices /\ conCap \in Nat
    /\ exList \in Seq(ExDevices) /\ exCap \in Nat
    /\ queueCap \in Nat
    /\ notify \in Seq(Notifies)
    /\ phys \in Toggles
    /\ setting \in [on : BOOLEAN, to : Toggles, index : Nat]
    /\ regs \in [Devices -> SUBSET Regs]
    /\ toggle \in [Devices -> Toggles]
    /\ due \in [Devices -> SUBSET Toggles]
    /\ lapsed \subseteq Devices

-----------------------------------------------------------------------------
(* Registrations.                                                          *)

\* A shift state of zero in the registered data matches any.
IsKeyRegistered(reg, in) ==
    /\ reg.code = in.code
    /\ reg.shift # 0 => reg.shift = in.shift

\* RegisterKeyNotify of a keyboard (KeypadDxe's, and the drivers it was
\* written after): the registration that covers r, r itself if there is none.
Covers(o, r) == IsKeyRegistered(o.pattern, r.pattern) /\ o.fn = r.fn
Covering(rs, r) ==
    IF \E o \in rs : Covers(o, r) THEN CHOOSE o \in rs : Covers(o, r) ELSE r
DeviceRegister(d, r) == regs[d] \cup {Covering(regs[d], r)}
HandleOf(d, rs, r)   == [dev |-> d, reg |-> Covering(rs, r)]

\* UnregisterKeyNotify of a keyboard: a handle that is not its own does nothing.
DeviceUnregister(d, h) == IF h # NoHandle /\ h.dev = d THEN regs[d] \ {h.reg} ELSE regs[d]

\* ToggleStateSyncInitialization registers Sync before there is a device.
SyncEntry == [reg |-> [pattern |-> PartialKey, fn |-> Sync],
              handles |-> [i \in 1 .. AllocUnit |-> NoHandle]]

\* ConSplitterTextInConstructor.
Init ==
    /\ opened = {} /\ consoles = {} /\ conCap = AllocUnit
    /\ exList = <<>> /\ exCap = AllocUnit
    /\ queueCap = AllocUnit
    /\ notify = <<SyncEntry>>
    /\ phys = Exposed
    /\ setting = NotSetting
    /\ regs = [d \in Devices |-> {}]
    /\ toggle = [d \in Devices |-> Cleared]
    /\ due = [d \in Devices |-> {}]
    /\ lapsed = {}

Held(s) == {s[i] : i \in DOMAIN s}

-----------------------------------------------------------------------------
(* Start.                                                                  *)

\* ConSplitterGrowBuffer on an array of n elements.
Grown(n) == n + AllocUnit
GrownHandles(e) ==
    [e EXCEPT !.handles = [i \in 1 .. Grown(exCap) |->
                             IF i <= exCap THEN e.handles[i] ELSE NoHandle]]

\* ConSplitterStart and ConSplitterTextInAddDevice.
Open(d) == opened' = opened \cup {d}
TextInAddDevice(d) ==
    /\ consoles' = consoles \cup {d}
    /\ conCap' = IF Cardinality(consoles) >= conCap THEN Grown(conCap) ELSE conCap

\* The list can not grow: the device stays open and is in no list.
StartNoMemory(d) ==
    /\ d \notin opened
    /\ Cardinality(consoles) >= conCap
    /\ Open(d)
    /\ UNCHANGED <<consoles, conCap, exVars, toggles, queueCap, setting, due>>

\* A keyboard without the Ex protocol.
StartPlain(d) ==
    /\ d \notin opened \cup ExDevices
    /\ Open(d) /\ TextInAddDevice(d)
    /\ UNCHANGED <<exVars, toggles, queueCap, setting, due>>

\* ConSplitterTextInExAddDevice runs out of memory after growing the handle
\* lists of the first k notifications and, when it has come to that, KeyQueue.
StartExNoMemory(d) ==
    /\ d \in ExDevices \ opened
    /\ Len(exList) >= exCap
    /\ Open(d) /\ TextInAddDevice(d)
    /\ \E k \in 0 .. Len(notify) :
         /\ notify' = [i \in DOMAIN notify |->
                         IF i <= k THEN GrownHandles(notify[i]) ELSE notify[i]]
         /\ \/ queueCap' = queueCap
            \/ k = Len(notify) /\ queueCap' = Grown(exCap)
    /\ UNCHANGED <<exList, exCap, regs, toggles, setting, due>>

\* Mutant of Room: takes a full array for one with room.
RoomForOneMore == Len(exList) <= exCap

\* The arrays as they are when the device is about to be registered on.
Room == Len(exList) < exCap
NotifyWithRoom == IF Room THEN notify ELSE [i \in DOMAIN notify |-> GrownHandles(notify[i])]
ExRoom ==
    /\ exCap' = IF Room THEN exCap ELSE Grown(exCap)
    /\ queueCap' = IF Room THEN queueCap ELSE Grown(exCap)

\* Registrations 1 to k of the list, made on d one after the other: one that is
\* covered by what the device has by then adds nothing.
RegisteredOn(d, k) ==
    regs[d] \cup
    {notify[i].reg : i \in {j \in 1 .. k :
        ~\E o \in regs[d] \cup {notify[h].reg : h \in 1 .. j - 1} : Covers(o, notify[j].reg)}}
WithHandle(e, d, i) ==
    [e EXCEPT !.handles[Len(exList) + 1] = HandleOf(d, RegisteredOn(d, i - 1), e.reg)]

\* The device refuses the (k + 1)st notification: the k before it are taken
\* back, and the device is left in TextInList only.
StartExRefused(d) ==
    /\ d \in (ExDevices \cap Faulty) \ opened
    /\ Open(d) /\ TextInAddDevice(d)
    /\ ExRoom
    /\ \E k \in 0 .. Len(notify) - 1 :
         /\ notify' = [i \in DOMAIN notify |->
                         IF i <= k THEN WithHandle(NotifyWithRoom[i], d, i)
                                   ELSE NotifyWithRoom[i]]
         /\ regs' = [regs EXCEPT ![d] = RegisteredOn(d, k) \
                       {notify'[i].handles[Len(exList) + 1].reg : i \in 1 .. k}]
    /\ UNCHANGED <<exList, toggles, setting, due>>

\* A device asked to take state t takes it unless it fails.
Takes(t, failing) ==
    [d \in Devices |-> IF d \in Held(exList) \ failing THEN t ELSE toggle[d]]

StartEx(d) ==
    /\ d \in ExDevices \ opened
    /\ Open(d) /\ TextInAddDevice(d)
    /\ ExRoom
    /\ notify' = [i \in DOMAIN notify |-> WithHandle(NotifyWithRoom[i], d, i)]
    /\ regs' = [regs EXCEPT ![d] = RegisteredOn(d, Len(notify))]
    /\ exList' = Append(exList, d)
    /\ \/ toggle' = [toggle EXCEPT ![d] = phys] /\ lapsed' = lapsed \ {d}
       \/ d \in Faulty /\ toggle' = toggle /\ lapsed' = lapsed \cup {d}
    /\ UNCHANGED <<phys, setting, due>>

-----------------------------------------------------------------------------
(* Stop.                                                                   *)

\* The devices behind d move up; the handle lists stay as they are.
TextInExDeleteDevice(d) ==
    \E k \in DOMAIN exList :
        /\ exList[k] = d /\ d \notin Held(SubSeq(exList, 1, k - 1))
        /\ exList' = RemoveAt(exList, k)

\* ConSplitterStop and ConSplitterTextInDeleteDevice.
Close(d) == opened' = opened \ {d}
TextInDeleteDevice(d) == consoles' = consoles \ {d}

\* A device that is not in TextInExList, though it is one, ends Stop with an error.
Stop(d) ==
    /\ d \in opened
    /\ IF d \in ExDevices THEN TextInExDeleteDevice(d) ELSE UNCHANGED exList
    /\ Close(d) /\ TextInDeleteDevice(d)
    /\ lapsed' = lapsed \ {d}
    /\ UNCHANGED <<conCap, exCap, notify, regs, phys, toggle, queueCap, setting, due>>

\* The device's own driver goes and comes back: external.
Replug(d) ==
    /\ d \notin opened
    /\ regs' = [regs EXCEPT ![d] = {}]
    /\ toggle' = [toggle EXCEPT ![d] = Cleared]
    /\ due' = [due EXCEPT ![d] = {}]
    /\ UNCHANGED <<binding, exList, exCap, notify, phys, lapsed,
                   queueCap, setting>>

-----------------------------------------------------------------------------
(* RegisterKeyNotify and UnregisterKeyNotify.                              *)

\* One client: it does one thing at a time.
Runs == ~setting.on

RegisteredAlready(r) == \E i \in DOMAIN notify : Covers(notify[i].reg, r)

NewEntry(r, n) ==
    [reg |-> r, handles |-> [i \in 1 .. exCap |->
                               IF i <= n THEN HandleOf(exList[i], regs[exList[i]], r)
                               ELSE NoHandle]]

RegisterKeyNotify(r) ==
    /\ Runs
    /\ ~RegisteredAlready(r)
    /\ notify' = Append(notify, NewEntry(r, Len(exList)))
    /\ regs' = [d \in Devices |-> IF d \in Held(exList) THEN DeviceRegister(d, r) ELSE regs[d]]
    /\ UNCHANGED <<binding, exList, exCap, toggles, queueCap, setting, due>>

\* Mutant of RegisterRefused: the entry stays in the list.
RegisterRefusedKept(r) ==
    /\ Runs
    /\ ~RegisteredAlready(r)
    /\ \E k \in DOMAIN exList :
         /\ exList[k] \in Faulty
         /\ notify' = Append(notify, NewEntry(r, k - 1))
    /\ UNCHANGED <<binding, exList, exCap, regs, toggles, queueCap, setting, due>>

\* The device at k refuses: the ones before it are unregistered.
RegisterRefused(r) ==
    /\ Runs
    /\ ~RegisteredAlready(r)
    /\ \E k \in DOMAIN exList :
         /\ exList[k] \in Faulty
         /\ regs' = [d \in Devices |->
                       IF d \in Held(SubSeq(exList, 1, k - 1))
                       THEN DeviceRegister(d, r) \ {Covering(regs[d], r)} ELSE regs[d]]
    /\ UNCHANGED <<binding, exList, exCap, notify, toggles, queueCap, setting, due>>

UnregisterKeyNotify(i) ==
    /\ Runs
    /\ notify[i].reg.fn # Sync
    /\ regs' = [d \in Devices |->
                  LET at == {j \in DOMAIN exList : exList[j] = d}
                  IN  IF at = {} THEN regs[d]
                      ELSE DeviceUnregister(d, notify[i].handles[CHOOSE j \in at : TRUE])]
    /\ notify' = RemoveAt(notify, i)
    /\ UNCHANGED <<binding, exList, exCap, toggles, queueCap, setting, due>>

-----------------------------------------------------------------------------
(* Toggle state.                                                           *)

SetStateCall(t) ==
    /\ Runs
    /\ setting' = [on |-> TRUE, to |-> t, index |-> 0]
    /\ UNCHANGED <<binding, exVars, toggles, queueCap, due>>

\* Mutant of PhysicalState: without the flag that exposes partial keys.
StateAsGiven == setting.to
PhysicalState == [setting.to EXCEPT !.exposed = TRUE]

SetStateDevice ==
    /\ setting.on /\ setting.index < Len(exList)
    /\ LET d == exList[setting.index + 1]
       IN  \/ /\ toggle' = [toggle EXCEPT ![d] = PhysicalState]
              /\ lapsed' = lapsed \ {d}
              /\ setting' = [setting EXCEPT !.index = @ + 1]
           \/ /\ d \in Faulty
              /\ setting' = NotSetting
              /\ UNCHANGED <<toggle, lapsed>>
    /\ UNCHANGED <<binding, exVars, phys, queueCap, due>>

SetStateReturn ==
    /\ setting.on /\ setting.index >= Len(exList)
    /\ phys' = PhysicalState
    /\ setting' = NotSetting
    /\ UNCHANGED <<binding, exVars, toggle, lapsed, queueCap, due>>

ToggleStateSyncKeyNotify(d) ==
    /\ \E t \in due[d] :
         IF t.exposed /\ t # phys
         THEN /\ phys' = t
              /\ \E failing \in SUBSET (Faulty \cap Held(exList)) :
                   /\ toggle' = Takes(t, failing)
                   /\ lapsed' = failing
         ELSE UNCHANGED <<phys, toggle, lapsed>>
    /\ due' = [due EXCEPT ![d] = {}]
    /\ UNCHANGED <<binding, exVars, queueCap, setting>>

\* Reset of the devices of one list; those that fail are left alone.  When
\* none does, ToggleStateSyncReInitialization.
ResetDevices(list, failing) ==
    /\ Runs
    /\ failing \subseteq Faulty \cap list
    /\ IF failing = {}
       THEN /\ phys' = Exposed
            /\ \E deaf \in SUBSET (Faulty \cap Held(exList)) :
                 /\ toggle' = [d \in Devices |->
                      IF d \in Held(exList) \ deaf THEN Exposed
                      ELSE IF d \in list THEN Cleared ELSE toggle[d]]
                 /\ lapsed' = deaf
       ELSE /\ toggle' = [d \in Devices |->
                 IF d \in list \ failing THEN Cleared ELSE toggle[d]]
            /\ lapsed' = lapsed \cup ((Held(exList) \cap list) \ failing)
            /\ UNCHANGED phys
    /\ UNCHANGED <<binding, exVars, queueCap, setting, due>>

Reset   == \E failing \in SUBSET Faulty : ResetDevices(consoles, failing)
ResetEx == \E failing \in SUBSET Faulty : ResetDevices(Held(exList), failing)

-----------------------------------------------------------------------------
(* The user.  A lock key is a partial key, reported when the device was     *)
(* asked to; its notification is due if ToggleStateSyncKeyNotify is         *)
(* registered there.                                                        *)

PressLock(d) ==
    /\ due[d] = {}
    /\ toggle' = [toggle EXCEPT ![d].caps = ~@]
    /\ due' = IF toggle[d].exposed /\ SyncEntry.reg \in regs[d]
              THEN [due EXCEPT ![d] = {toggle'[d]}] ELSE due
    /\ UNCHANGED <<binding, exVars, phys, lapsed, queueCap, setting>>

-----------------------------------------------------------------------------
BindingNext ==
    \E d \in Devices :
        \/ StartNoMemory(d) \/ StartPlain(d) \/ StartExNoMemory(d)
        \/ StartExRefused(d) \/ StartEx(d) \/ Stop(d) \/ Replug(d)

NotifyNext ==
    \/ \E p \in Patterns, f \in Functions :
          \/ RegisterKeyNotify([pattern |-> p, fn |-> f])
          \/ RegisterRefused([pattern |-> p, fn |-> f])
    \/ \E i \in DOMAIN notify : UnregisterKeyNotify(i)

StateNext ==
    \/ \E t \in Toggles : ~t.exposed /\ SetStateCall(t)
    \/ SetStateDevice \/ SetStateReturn
    \/ \E d \in Devices : ToggleStateSyncKeyNotify(d)
    \/ Reset \/ ResetEx

Next ==
    \/ BindingNext \/ NotifyNext \/ StateNext
    \/ \E d \in ExDevices : PressLock(d)

Spec == Init /\ [][Next]_vars

-----------------------------------------------------------------------------
(* Properties.                                                             *)

\* No array is written behind its end: lists, handle lists and key queue hold
\* what the devices and calls put there, whichever allocation failed before.
BuffersSuffice ==
    /\ Cardinality(consoles) <= conCap
    /\ Len(exList) <= exCap
    /\ exCap <= queueCap
    /\ \A i \in DOMAIN notify : Len(notify[i].handles) >= exCap

\* A device in a list is one the driver still holds open, and is in it once.
Attached ==
    /\ Held(exList) \subseteq consoles /\ consoles \subseteq opened
    /\ IsInjective(exList)

ListsSound == BuffersSuffice /\ Attached

\* Every notification of the list is registered on every Ex device, whether
\* the device or the registration came first and whatever was refused before.
NotifyEverywhere ==
    \A i \in DOMAIN notify : \A d \in Held(exList) :
        \E r \in regs[d] : Covers(r, notify[i].reg)

\* Partial keys are reported by every Ex device, which is what lets
\* ToggleStateSyncKeyNotify hear of a lock key, but for devices that failed to
\* take a state and those reset by a Reset that failed on another.
ExposedEverywhere ==
    \A d \in Held(exList) : toggle[d].exposed \/ d \in lapsed
=============================================================================
