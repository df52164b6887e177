------------------------------- MODULE DwMmcHc -------------------------------
(***************************************************************************)
(* The DesignWare SD/eMMC host controller driver, Drivers/DwMmcHcDxe: its  *)
(* driver binding (Start, Stop), SD_MMC_PASS_THRU (PassThru, ResetDevice), *)
(* the queue of asynchronous requests served by the TPL_NOTIFY timer, and  *)
(* the TPL_CALLBACK timer that detects cards.                              *)
(*                                                                         *)
(* UEFI runs one thread; what interleaves are task priority levels:        *)
(*   App   a client, Start or Stop at TPL_APPLICATION, preempted by        *)
(*   Enum  DwMmcHcEnumerateDevice at TPL_CALLBACK, preempted by            *)
(*   tick  ProcessAsyncTaskList at TPL_NOTIFY, which only hardware passes. *)
(* The card and the controller's registers are the environment.  Left out  *)
(* is SEND_TUNING_BLOCK, which DwMmcCreateTrb gives neither the FIFO nor a *)
(* table and which no routine sends.                                       *)
(***************************************************************************)
EXTENDS Integers, Sequences

CONSTANTS
    Packets,      \* command packets owned by the clients
    DataPackets,  \* those of them that transfer data
    IdPacket,     \* the packet the identification routines build
    None,         \* no packet
    Cards,        \* kinds of card a user can insert: subset of {"Emmc","Sd"}
    PlatformCard, \* CardType the platform's GetCapability reports
    Removable,    \* SlotType = RemovableSlot: cards come and go
    Timeouts,     \* Packet->Timeout values clients use; 0 waits for ever
    Resubmit,     \* may a TPL_NOTIFY notification submit requests itself
    StopFails     \* may UninstallProtocolInterface refuse in Stop

AllPackets == Packets \cup {IdPacket}
CardTypes  == {"Emmc", "Sd"}
NoCard     == "NoCard"

ASSUME PacketAssumption ==
    /\ IdPacket \notin Packets
    /\ None \notin AllPackets
    /\ DataPackets \subseteq AllPackets
ASSUME PlatformAssumption ==
    /\ Cards \subseteq CardTypes
    /\ PlatformCard \in CardTypes
    /\ {Removable, Resubmit, StopFails} \subseteq BOOLEAN
    /\ Timeouts \subseteq Nat

VARIABLES
    drv,     \* handle database: BY_DRIVER open, protocol installed, timers
    slot,    \* Private->Slot[0]
    queue,   \* Private->Queue, the asynchronous TRBs
    trb,     \* the TRB allocated for each packet, or NoTrb
    event,   \* what the caller's Event of each packet has seen
    stat,    \* Packet->TransactionStatus, or PassThru's status when blocking
    call,    \* the PassThru, Start or Stop call each thread is inside
    enum,    \* where DwMmcHcEnumerateDevice is
    tick,    \* where ProcessAsyncTaskList is
    card,    \* the card physically in the slot
    bus,     \* the data phase the controller is carrying out
    rint,    \* packet whose ACD and DTO bits RINTSTS holds
    idsts,   \* packet whose buffer the RI/TI bits of IDSTS report moved
    dma,     \* descriptor table DBADDR points to, and its OWN bit
    busy,    \* DATA_BUSY of STATUS: the card holds its data line
    overlap  \* history: an earlier data phase was on the bus when RINTSTS was cleared

client == <<drv, slot, queue, trb, event, stat, call, enum, tick>>
hw     == <<bus, rint, idsts, dma, busy, overlap>>
vars   == <<client, card, hw>>

Threads  == {"App", "Enum"}
Statuses == {"None", "Success", "NoMedia", "DeviceError", "Timeout",
             "Aborted", "Invalid", "OutOfResources"}
Events   == {"idle", "pending", "signalled", "twice"}
NoTrb    == [live |-> FALSE, fifo |-> FALSE, data |-> FALSE, wait |-> FALSE,
             tmo |-> 0, started |-> FALSE]
IdleCall == [pc |-> "idle", pkt |-> None, async |-> FALSE]
NoBus    == [pkt |-> None, dma |-> FALSE]
NoSlot   == [enable |-> FALSE, media |-> FALSE, cardType |-> PlatformCard]

Trbs  == [live : BOOLEAN, fifo : BOOLEAN, data : BOOLEAN, wait : BOOLEAN,
          tmo : Nat, started : BOOLEAN]

\* Where a thread can be: outside PassThru, or inside it with a packet.
OutsidePcs == {"idle", "returned", "stopping", "uninstall"}
InsidePcs  == {"create", "insert", "waitq", "exec", "issue", "result"}
Calls == [pc : OutsidePcs, pkt : {None}, async : {FALSE}]
         \cup [pc : InsidePcs, pkt : AllPackets, async : BOOLEAN]

TypeOK ==
    /\ drv \in [opened : BOOLEAN, installed : BOOLEAN, timers : BOOLEAN]
    /\ slot \in [enable : BOOLEAN, media : BOOLEAN, cardType : CardTypes]
    /\ queue \in Seq(AllPackets)
    /\ trb \in [AllPackets -> Trbs]
    /\ event \in [AllPackets -> Events]
    /\ stat \in [AllPackets -> Statuses]
    /\ call \in [Threads -> Calls]
    /\ enum \in {"idle", "removed", "inserted",
                 "emmc", "emmcMode", "sd", "sdMode"}
    /\ tick \in {"idle", "exec", "issue", "check"}
    /\ card \in CardTypes \cup {NoCard}
    /\ bus \in [pkt : AllPackets \cup {None}, dma : BOOLEAN]
    /\ rint \in AllPackets \cup {None}
    /\ idsts \in AllPackets \cup {None}
    /\ dma \in [desc : AllPackets \cup {None}, own : BOOLEAN]
    /\ busy \in BOOLEAN /\ overlap \in BOOLEAN

Init ==
    /\ drv = [opened |-> FALSE, installed |-> FALSE, timers |-> FALSE]
    /\ slot = NoSlot
    /\ queue = <<>>
    /\ trb = [p \in AllPackets |-> NoTrb]
    /\ event = [p \in AllPackets |-> "idle"]
    /\ stat = [p \in AllPackets |-> "None"]
    /\ call = [t \in Threads |-> IdleCall]
    /\ enum = "idle"
    /\ tick = "idle"
    /\ card \in IF Removable THEN Cards \cup {NoCard} ELSE Cards
    /\ bus = NoBus
    /\ rint = None
    /\ idsts = None
    /\ dma = [desc |-> None, own |-> FALSE]
    /\ busy = FALSE /\ overlap = FALSE

-----------------------------------------------------------------------------
(* Helpers.                                                                *)

InQueue(p) == \E i \in 1..Len(queue) : queue[i] = p
InFlight(p) == InQueue(p) \/ \E t \in Threads : call[t].pkt = p

\* A thread runs when no higher level is active.
CanRun(t) == /\ tick = "idle"
             /\ t = "App" => enum = "idle"

Goto(t, pc) == call' = [call EXCEPT ![t].pc = pc]

\* PassThru returns status s to thread t.
Return(t, s) ==
    /\ stat' = [stat EXCEPT ![call[t].pkt] = s]
    /\ call' = [call EXCEPT ![t] =
                  IF t = "Enum" THEN [IdleCall EXCEPT !.pc = "returned"]
                                ELSE IdleCall]

\* gBS->SignalEvent (Trb->Event)
Signal(e) == IF e = "pending" THEN "signalled" ELSE "twice"

\* Mutant of CompleteHead: takes the last link instead of the first.
CompleteTail(s) ==
    LET p == queue[Len(queue)] IN
    /\ queue' = SubSeq(queue, 1, Len(queue) - 1)
    /\ stat' = [stat EXCEPT ![p] = s]
    /\ event' = [event EXCEPT ![p] = Signal(@)]
    /\ trb' = [trb EXCEPT ![p] = NoTrb]

\* RemoveEntryList, TransactionStatus, SignalEvent and DwMmcFreeTrb on the
\* first queued TRB.
CompleteHead(s) ==
    LET p == Head(queue) IN
    /\ queue' = Tail(queue)
    /\ stat' = [stat EXCEPT ![p] = s]
    /\ event' = [event EXCEPT ![p] = Signal(@)]
    /\ trb' = [trb EXCEPT ![p] = NoTrb]

\* Mutant of DrainQueue: forgets SignalEvent.
DrainQueueSilently(s) ==
    /\ queue' = <<>>
    /\ stat' = [p \in AllPackets |-> IF InQueue(p) THEN s ELSE stat[p]]
    /\ trb' = [p \in AllPackets |-> IF InQueue(p) THEN NoTrb ELSE trb[p]]
    /\ UNCHANGED event

\* The loops that do the same to every queued TRB under TPL_NOTIFY.
DrainQueue(s) ==
    /\ queue' = <<>>
    /\ stat' = [p \in AllPackets |-> IF InQueue(p) THEN s ELSE stat[p]]
    /\ event' = [p \in AllPackets |->
                   IF InQueue(p) THEN Signal(event[p]) ELSE event[p]]
    /\ trb' = [p \in AllPackets |-> IF InQueue(p) THEN NoTrb ELSE trb[p]]

-----------------------------------------------------------------------------
(* DwMmcCreateTrb.  With an SD card the TRB will use the FIFO; otherwise a *)
(* data TRB gets a descriptor table at once: BuildDmaDescTable writes its  *)
(* address to DBADDR and clears IDSTS, whatever is still queued.           *)

UsesDma(data) == slot.cardType # "Sd" /\ data

\* Mutant of ProgramDma: DBADDR keeps the address of the last table.
ProgramDmaStale(p) == /\ dma' = [dma EXCEPT !.own = TRUE]
                      /\ idsts' = None

ProgramDma(p) == /\ dma' = [desc |-> p, own |-> TRUE]
                 /\ idsts' = None

NewTrb(p, data, tmo) ==
    [live |-> TRUE, fifo |-> slot.cardType = "Sd", data |-> data,
     wait |-> tmo = 0, tmo |-> tmo, started |-> FALSE]

DwMmcCreateTrb(p, tmo) ==
    LET data == p \in DataPackets IN
    /\ trb' = [trb EXCEPT ![p] = NewTrb(p, data, tmo)]
    /\ IF UsesDma(data) THEN ProgramDma(p)
                        ELSE UNCHANGED <<dma, idsts>>

\* There is no memory for the TRB, or BuildDmaDescTable failed before it programmed
\* DBADDR, or DwMmcHcStartDma after it.  The Error label frees nothing, not even the
\* TRB.
CreateTrbFails(p) ==
    /\ \/ UsesDma(p \in DataPackets) /\ ProgramDma(p)
       \/ UNCHANGED <<dma, idsts>>
    /\ UNCHANGED trb

-----------------------------------------------------------------------------
(* DwMmcExecTrb: the wait for the card's data line, which nothing bounds,  *)
(* and the clear of RINTSTS; then, behind a reset of the FIFO and writes   *)
(* to other registers, the command.  What was on the bus may end between   *)
(* the two.                                                                *)

\* Mutant of ClearInterrupts: RINTSTS is not cleared before the command.
ClearNothing ==
    /\ ~busy
    /\ overlap' = (bus.pkt # None)
    /\ UNCHANGED <<bus, rint, idsts, dma, busy>>

ClearInterrupts ==
    /\ ~busy
    /\ rint' = None
    /\ overlap' = (bus.pkt # None)
    /\ UNCHANGED <<bus, idsts, dma, busy>>

\* An absent card gives the response timeout error; the FIFO path may also time
\* out moving data.  The data phase that follows only completes for the FIFO when
\* the SD routine sent the automatic stop.
Outcomes(p) ==
    IF card = NoCard THEN {"DeviceError"}
    ELSE {"Success", "DeviceError"} \cup
         (IF slot.cardType = "Sd" /\ trb[p].fifo /\ trb[p].data
          THEN {"Timeout"} ELSE {})

\* A card may answer a command with its data line held.
MayHold == busy' \in (IF card = NoCard THEN {busy} ELSE {busy, TRUE})

DwMmcExecTrb(p, s) ==
    /\ s \in Outcomes(p)
    /\ bus' = IF /\ s = "Success"
                 /\ trb[p].data
                 /\ trb[p].fifo => slot.cardType = "Sd"
              THEN [pkt |-> p, dma |-> ~trb[p].fifo]
              ELSE NoBus
    /\ MayHold
    /\ UNCHANGED <<rint, dma, idsts, overlap>>

\* DwMmcCheckTrbResult: the status it returns, and for a DMA transfer the
\* condition its polling loop waits for before it returns at all.
CheckReturns(p) == trb[p].data /\ ~trb[p].fifo => idsts # None
CheckReady(p)   == trb[p].data /\ trb[p].fifo => rint # None
ClearIdsts(p) == idsts' = IF trb[p].data /\ ~trb[p].fifo THEN None ELSE idsts

-----------------------------------------------------------------------------
(* DwMmcPassThruPassThru, for a client (App) and for the identification    *)
(* commands of Enum.                                                       *)

\* Parameter and slot checks, up to the call of DwMmcCreateTrb.  A malformed
\* packet is refused, and so is any packet when no media is present.
PassThruEnter(t, p, async, valid) ==
    /\ call[t].pc = "idle"
    /\ call' = [call EXCEPT ![t] = [pc |-> "create", pkt |-> p,
                                    async |-> async]]
    /\ event' = [event EXCEPT ![p] = "idle"]
    /\ stat' = [stat EXCEPT ![p] = "None"]
    /\ valid /\ slot.enable /\ slot.media

PassThruRefused(t, p, valid) ==
    /\ call[t].pc = "idle"
    /\ ~(valid /\ slot.enable /\ slot.media)
    /\ stat' = [stat EXCEPT ![p] = IF valid /\ slot.enable THEN "NoMedia"
                                                           ELSE "Invalid"]
    /\ call' = [call EXCEPT ![t] =
                  IF t = "Enum" THEN [IdleCall EXCEPT !.pc = "returned"]
                                ELSE IdleCall]
    /\ event' = [event EXCEPT ![p] = "idle"]

PassThru(t, p, async, valid) ==
    /\ CanRun(t)
    /\ ~InFlight(p)
    /\ \/ PassThruEnter(t, p, async, valid)
       \/ PassThruRefused(t, p, valid)
    /\ UNCHANGED <<drv, slot, queue, trb, enum, tick, card, hw>>

ClientPassThru ==
    /\ drv.installed
    /\ \E p \in Packets, async, valid \in BOOLEAN :
          PassThru("App", p, async, valid)

\* The identification routines call PassThru without an event.
IdPassThru ==
    /\ enum \in {"emmc", "emmcMode", "sd", "sdMode"}
    /\ PassThru("Enum", IdPacket, FALSE, TRUE)

CreateTrb(t) ==
    LET p == call[t].pkt IN
    /\ CanRun(t)
    /\ call[t].pc = "create"
    /\ \E tmo \in IF t = "Enum" THEN {1} ELSE Timeouts :
          DwMmcCreateTrb(p, tmo)
    /\ Goto(t, IF call[t].async THEN "insert" ELSE "waitq")
    /\ UNCHANGED <<drv, slot, queue, event, stat, enum, tick, card, bus, rint, busy, overlap>>

CreateTrbError(t) ==
    /\ CanRun(t)
    /\ call[t].pc = "create"
    /\ CreateTrbFails(call[t].pkt)
    /\ Return(t, "OutOfResources")
    /\ UNCHANGED <<drv, slot, queue, event, enum, tick, card, bus, rint, busy, overlap>>

\* Mutant of InsertTrb: InsertHeadList.
InsertTrbFirst(t) ==
    LET p == call[t].pkt IN
    /\ CanRun(t)
    /\ call[t].pc = "insert"
    /\ queue' = <<p>> \o queue
    /\ event' = [event EXCEPT ![p] = "pending"]
    /\ call' = [call EXCEPT ![t] = IdleCall]
    /\ UNCHANGED <<drv, slot, trb, stat, enum, tick, card, hw>>

\* InsertTailList under TPL_NOTIFY; PassThru then returns EFI_SUCCESS.
InsertTrb(t) ==
    LET p == call[t].pkt IN
    /\ CanRun(t)
    /\ call[t].pc = "insert"
    /\ queue' = Append(queue, p)
    /\ event' = [event EXCEPT ![p] = "pending"]
    /\ call' = [call EXCEPT ![t] = IdleCall]
    /\ UNCHANGED <<drv, slot, trb, stat, enum, tick, card, hw>>

\* Mutant of WaitQueueEmpty: goes on whatever is queued.
WaitNothing(t) ==
    /\ CanRun(t)
    /\ call[t].pc = "waitq"
    /\ Goto(t, "exec")
    /\ UNCHANGED <<drv, slot, queue, trb, event, stat, enum, tick, card, hw>>

\* The loop that spins until the asynchronous list is empty.
WaitQueueEmpty(t) ==
    /\ CanRun(t)
    /\ call[t].pc = "waitq"
    /\ queue = <<>>
    /\ Goto(t, "exec")
    /\ UNCHANGED <<drv, slot, queue, trb, event, stat, enum, tick, card, hw>>

ClearSync(t) ==
    /\ CanRun(t)
    /\ call[t].pc = "exec"
    /\ ClearInterrupts
    /\ Goto(t, "issue")
    /\ UNCHANGED <<drv, slot, queue, trb, event, stat, enum, tick, card>>

\* Mutant of ExecSync: returns an error without going through Done.
ExecSyncLeaks(t) ==
    /\ CanRun(t)
    /\ call[t].pc = "issue"
    /\ \E s \in Statuses :
          /\ DwMmcExecTrb(call[t].pkt, s)
          /\ IF s = "Success" THEN Goto(t, "result") /\ UNCHANGED stat
                              ELSE Return(t, s)
    /\ UNCHANGED <<drv, slot, queue, trb, event, enum, tick, card>>

ExecSync(t) ==
    LET p == call[t].pkt IN
    /\ CanRun(t)
    /\ call[t].pc = "issue"
    /\ \E s \in Statuses :
          /\ DwMmcExecTrb(p, s)
          /\ IF s = "Success"
             THEN Goto(t, "result") /\ UNCHANGED <<trb, stat>>
             ELSE Return(t, s) /\ trb' = [trb EXCEPT ![p] = NoTrb]
    /\ UNCHANGED <<drv, slot, queue, event, enum, tick, card>>

\* Mutant of WaitTrbResult: Timeout is never counted down.
WaitTrbResultForever(t) ==
    LET p == call[t].pkt IN
    /\ CanRun(t)
    /\ call[t].pc = "result"
    /\ CheckReturns(p) /\ CheckReady(p)
    /\ Return(t, "Success")
    /\ trb' = [trb EXCEPT ![p] = NoTrb]
    /\ ClearIdsts(p)
    /\ UNCHANGED <<drv, slot, queue, event, enum, tick, card, bus, rint, dma, busy,
                   overlap>>

\* DwMmcWaitTrbResult: one turn of its loop.
WaitTrbResult(t) ==
    LET p == call[t].pkt IN
    /\ CanRun(t)
    /\ call[t].pc = "result"
    /\ CheckReturns(p)
    /\ \/ /\ CheckReady(p)
          /\ Return(t, "Success")
          /\ trb' = [trb EXCEPT ![p] = NoTrb]
       \/ /\ ~CheckReady(p)
          /\ ~trb[p].wait
          /\ IF trb[p].tmo <= 1
             THEN Return(t, "Timeout") /\ trb' = [trb EXCEPT ![p] = NoTrb]
             ELSE /\ trb' = [trb EXCEPT ![p].tmo = @ - 1]
                  /\ UNCHANGED <<stat, call>>
    /\ ClearIdsts(p)
    /\ UNCHANGED <<drv, slot, queue, event, enum, tick, card, bus, rint, dma, busy,
                   overlap>>

\* Mutant of NotifySubmit: InsertHeadList.
NotifySubmitFirst(p) ==
    /\ Resubmit
    /\ tick = "idle"
    /\ drv.installed /\ slot.enable /\ slot.media
    /\ ~InFlight(p)
    /\ \E tmo \in Timeouts : DwMmcCreateTrb(p, tmo)
    /\ queue' = <<p>> \o queue
    /\ event' = [event EXCEPT ![p] = "pending"]
    /\ stat' = [stat EXCEPT ![p] = "None"]
    /\ UNCHANGED <<drv, slot, call, enum, tick, card, bus, rint, busy, overlap>>

\* A request submitted at TPL_NOTIFY: PassThru runs without interruption.
NotifySubmit(p) ==
    /\ Resubmit
    /\ tick = "idle"
    /\ drv.installed /\ slot.enable /\ slot.media
    /\ ~InFlight(p)
    /\ \E tmo \in Timeouts : DwMmcCreateTrb(p, tmo)
    /\ queue' = Append(queue, p)
    /\ event' = [event EXCEPT ![p] = "pending"]
    /\ stat' = [stat EXCEPT ![p] = "None"]
    /\ UNCHANGED <<drv, slot, call, enum, tick, card, bus, rint, busy, overlap>>

\* DwMmcPassThruResetDevice
ResetDevice ==
    /\ CanRun("App")
    /\ call["App"].pc = "idle"
    /\ drv.installed /\ slot.enable /\ slot.media
    /\ DrainQueue("Aborted")
    /\ UNCHANGED <<drv, slot, call, enum, tick, card, hw>>

-----------------------------------------------------------------------------
(* ProcessAsyncTaskList, every DW_MMC_HC_ASYNC_TIMER.                      *)

\* Mutant of TickNoMedia: the handler leaves the request for later.
TickSkipsNoMedia == FALSE /\ UNCHANGED vars

TickNoMedia ==
    /\ ~slot.media
    /\ CompleteHead("NoMedia")
    /\ UNCHANGED <<tick, hw>>

TickExec ==
    /\ slot.media
    /\ ~trb[Head(queue)].started
    /\ tick' = "exec"
    /\ UNCHANGED <<queue, stat, event, trb, hw>>

TickClear ==
    /\ tick = "exec"
    /\ ClearInterrupts
    /\ tick' = "issue"
    /\ UNCHANGED <<drv, slot, queue, trb, event, stat, call, enum, card>>

TickIssue ==
    /\ tick = "issue" /\ queue # <<>>
    /\ \E s \in Statuses :
          /\ DwMmcExecTrb(Head(queue), s)
          /\ IF s = "Success"
             THEN /\ trb' = [trb EXCEPT ![Head(queue)].started = TRUE]
                  /\ tick' = "check"
                  /\ UNCHANGED <<queue, stat, event>>
             ELSE CompleteHead(s) /\ tick' = "idle"
    /\ UNCHANGED <<drv, slot, call, enum, card>>

TickStarted ==
    /\ slot.media
    /\ trb[Head(queue)].started
    /\ tick' = "check"
    /\ UNCHANGED <<queue, stat, event, trb, hw>>

Tick ==
    /\ tick = "idle"
    /\ drv.timers
    /\ queue # <<>>
    /\ TickNoMedia \/ TickExec \/ TickStarted
    /\ UNCHANGED <<drv, slot, call, enum, card>>

\* Mutants of TickCheck: Timeout is decremented without the test for zero,
\* and the timeout is never counted.
TickCheckUntested ==
    LET p == Head(queue) IN
    /\ tick = "check" /\ queue # <<>>
    /\ CheckReturns(p)
    /\ tick' = "idle"
    /\ \/ CheckReady(p) /\ CompleteHead("Success")
       \/ /\ ~CheckReady(p)
          /\ trb' = [trb EXCEPT ![p].tmo = IF trb[p].wait THEN @ ELSE @ - 1]
          /\ UNCHANGED <<queue, stat, event>>
    /\ ClearIdsts(p)
    /\ UNCHANGED <<drv, slot, call, enum, card, bus, rint, dma, busy,
                   overlap>>

TickCheckUncounted ==
    LET p == Head(queue) IN
    /\ tick = "check" /\ queue # <<>>
    /\ CheckReturns(p)
    /\ tick' = "idle"
    /\ \/ CheckReady(p) /\ CompleteHead("Success")
       \/ ~CheckReady(p) /\ UNCHANGED <<queue, stat, event, trb>>
    /\ ClearIdsts(p)
    /\ UNCHANGED <<drv, slot, call, enum, card, bus, rint, dma, busy,
                   overlap>>

\* DwMmcCheckTrbResult in the same invocation: for DMA it does not return,
\* at TPL_NOTIFY, until the controller reports the transfer.
TickCheck ==
    LET p == Head(queue) IN
    /\ tick = "check" /\ queue # <<>>
    /\ CheckReturns(p)
    /\ tick' = "idle"
    /\ \/ CheckReady(p) /\ CompleteHead("Success")
       \/ /\ ~CheckReady(p)
          /\ ~trb[p].wait /\ trb[p].tmo = 0
          /\ CompleteHead("Timeout")
       \/ /\ ~CheckReady(p)
          /\ trb[p].wait \/ trb[p].tmo > 0
          /\ trb' = [trb EXCEPT ![p].tmo = IF trb[p].wait THEN @ ELSE @ - 1]
          /\ UNCHANGED <<queue, stat, event>>
    /\ ClearIdsts(p)
    /\ UNCHANGED <<drv, slot, call, enum, card, bus, rint, dma, busy,
                   overlap>>

-----------------------------------------------------------------------------
(* DwMmcHcEnumerateDevice, every DW_MMC_HC_ENUM_TIMER.                     *)

DetectCard ==
    /\ CanRun("Enum") /\ enum = "idle"
    /\ drv.timers /\ slot.enable /\ Removable
    /\ slot.media # (card # NoCard)
    /\ IF slot.media
       THEN slot' = [slot EXCEPT !.media = FALSE] /\ enum' = "removed"
       ELSE enum' = "inserted" /\ UNCHANGED slot
    /\ UNCHANGED <<drv, queue, trb, event, stat, call, tick, card, hw>>

\* Signal every queued request EFI_NO_MEDIA, then reinstall the protocol.
DrainRemoved ==
    /\ CanRun("Enum") /\ enum = "removed"
    /\ DrainQueue("NoMedia")
    /\ enum' = "idle"
    /\ UNCHANGED <<drv, slot, call, tick, card, hw>>

\* DwMmcHcInitHost and DwMmcHcReset; on an error the handler just returns.
ResetInserted ==
    /\ CanRun("Enum") /\ enum = "inserted"
    /\ \/ slot' = [slot EXCEPT !.media = TRUE] /\ enum' = "emmc"
       \/ enum' = "idle" /\ UNCHANGED slot
    /\ bus' = NoBus /\ rint' = None /\ idsts' = None
    /\ UNCHANGED <<drv, queue, trb, event, stat, call, tick, card, dma, busy, overlap>>

\* What an identification routine does with the status of a command: send
\* the next one, fail, set CardType and go on to the bus mode, or finish.
\* Each phase stands for the commands it sends under one CardType.
IdentifyStep(routine, mode, kind, onFail) ==
    /\ enum \in {routine, mode}
    /\ \/ enum' = enum /\ stat[IdPacket] = "Success" /\ UNCHANGED slot
       \/ enum' = onFail /\ UNCHANGED slot
       \/ /\ enum = routine /\ enum' = mode
          /\ stat[IdPacket] = "Success" /\ card = kind
          /\ slot' = [slot EXCEPT !.cardType = kind]
       \/ enum = mode /\ enum' = "idle" /\ stat[IdPacket] = "Success"
          /\ UNCHANGED slot

\* The routines of mCardTypeDetectRoutineTable in order: when EmmcIdentification
\* fails SdCardIdentification is tried, when that fails the handler returns.
Identify ==
    /\ CanRun("Enum")
    /\ call["Enum"].pc = "returned"
    /\ \/ IdentifyStep("emmc", "emmcMode", "Emmc", "sd")
       \/ IdentifyStep("sd", "sdMode", "Sd", "idle")
    /\ call' = [call EXCEPT !["Enum"] = IdleCall]
    /\ UNCHANGED <<drv, queue, trb, event, stat, tick, card, hw>>

-----------------------------------------------------------------------------
(* DriverBindingStart and DriverBindingStop.                               *)

\* OpenProtocol BY_DRIVER must succeed, then a zero clock frequency or an
\* empty slot leaves with EFI_SUCCESS and nothing installed; any error leaves
\* without closing the protocol; otherwise the slot is set up, whatever the
\* identification routines returned.
Start ==
    /\ CanRun("App") /\ call["App"].pc = "idle"
    /\ ~drv.opened
    /\ \/ /\ drv' = [drv EXCEPT !.opened = TRUE]
          /\ UNCHANGED <<slot, bus, rint, idsts>>
       \/ /\ card # NoCard
          /\ drv' = [opened |-> TRUE, installed |-> TRUE, timers |-> TRUE]
          /\ \E ct \in {PlatformCard, card} :
               slot' = [enable |-> TRUE, media |-> TRUE, cardType |-> ct]
          /\ bus' = NoBus /\ rint' = None /\ idsts' = None
    /\ UNCHANGED <<queue, trb, event, stat, call, enum, tick, card,
                   dma, busy, overlap>>

\* CloseEvent on both timers.
Stop ==
    /\ CanRun("App") /\ call["App"].pc = "idle"
    /\ drv.installed
    /\ drv' = [drv EXCEPT !.timers = FALSE]
    /\ Goto("App", IF queue = <<>> THEN "uninstall" ELSE "stopping")
    /\ UNCHANGED <<slot, queue, trb, event, stat, enum, tick, card, hw>>

\* One turn of the loop: NextLink is read before the event is signalled, and
\* notifications run inside SignalEvent, for the queue is not locked.
StopDrain ==
    /\ CanRun("App") /\ call["App"].pc = "stopping" /\ queue # <<>>
    /\ CompleteHead("Aborted")
    /\ Goto("App", IF Len(queue) = 1 THEN "uninstall" ELSE "stopping")
    /\ UNCHANGED <<drv, slot, enum, tick, card, hw>>

\* UninstallProtocolInterface.  On success Private is freed, but the protocol
\* closed is gEfiPciIoProtocolGuid: the one Start opened stays open.
StopUninstall ==
    /\ CanRun("App") /\ call["App"].pc = "uninstall"
    /\ \/ /\ drv' = [drv EXCEPT !.installed = FALSE]
          /\ slot' = NoSlot
          /\ queue' = <<>>
       \/ StopFails /\ UNCHANGED <<drv, slot, queue>>
    /\ call' = [call EXCEPT !["App"] = IdleCall]
    /\ UNCHANGED <<trb, event, stat, enum, tick, card, hw>>

-----------------------------------------------------------------------------
(* The environment: the card, and the controller finishing a data phase.   *)

MoveCard ==
    /\ Removable
    /\ card' \in IF card = NoCard THEN Cards ELSE {NoCard}
    /\ busy' = FALSE
    /\ UNCHANGED <<client, bus, rint, idsts, dma, overlap>>

\* The card lets go of its data line, sooner or later or never.
CardReady ==
    /\ busy /\ busy' = FALSE
    /\ UNCHANGED <<client, card, bus, rint, idsts, dma, overlap>>

HwFifoDone ==
    /\ bus.pkt # None /\ ~bus.dma
    /\ card # NoCard
    /\ rint' = bus.pkt
    /\ bus' = NoBus
    /\ MayHold
    /\ UNCHANGED <<client, card, idsts, dma, overlap>>

\* The DMA engine moves the buffer of the table DBADDR points to.
HwDmaDone ==
    /\ bus.pkt # None /\ bus.dma
    /\ card # NoCard /\ dma.own
    /\ idsts' = dma.desc
    /\ dma' = [dma EXCEPT !.own = FALSE]
    /\ bus' = NoBus
    /\ MayHold
    /\ UNCHANGED <<client, card, rint, overlap>>

PassThruStep(t) == \/ CreateTrb(t) \/ CreateTrbError(t) \/ InsertTrb(t)
                   \/ WaitQueueEmpty(t) \/ ClearSync(t) \/ ExecSync(t)
                   \/ WaitTrbResult(t)
EnumStep == DetectCard \/ DrainRemoved \/ ResetInserted \/ IdPassThru \/ Identify
TickStep == Tick \/ TickClear \/ TickIssue \/ TickCheck
StopStep == StopDrain \/ StopUninstall
Hardware == HwFifoDone \/ HwDmaDone \/ CardReady

Next == \/ ClientPassThru \/ ResetDevice \/ Start \/ Stop \/ StopStep
        \/ (\E t \in Threads : PassThruStep(t))
        \/ (\E p \in Packets : NotifySubmit(p))
        \/ TickStep \/ EnumStep \/ MoveCard \/ Hardware

Spec == Init /\ [][Next]_vars

(* Fairness: the timers are periodic, so their handlers run again and      *)
(* again; a call made is carried on with when nothing preempts it.  The    *)
(* card and the controller owe nothing.                                    *)
Fairness == /\ WF_vars(TickStep)
            /\ WF_vars(EnumStep)
            /\ WF_vars(StopStep)
            /\ \A t \in Threads : WF_vars(PassThruStep(t))
FairSpec == Spec /\ Fairness

-----------------------------------------------------------------------------
(* Properties.                                                             *)

\* Every request accepted with an Event is either still queued, its event not
\* signalled, or its event was signalled once: no completion path of the three
\* that empty the queue (timer, removal, Stop, ResetDevice) skips or repeats one.
SignalledOnce ==
    \A p \in AllPackets : /\ event[p] = "pending" <=> InQueue(p)
                          /\ event[p] # "twice"

\* The queue holds each TRB once, none of them freed, and only the first can
\* have been sent to the card.
QueueWellFormed ==
    /\ \A i, j \in 1..Len(queue) : queue[i] = queue[j] => i = j
    /\ \A i \in 1..Len(queue) : /\ trb[queue[i]].live
                                /\ trb[queue[i]].started => i = 1
    /\ tick # "idle" => queue # <<>>
    /\ tick # "idle" => (trb[Head(queue)].started <=> tick = "check")

\* A TRB is allocated exactly while its request is queued or a PassThru call
\* is using it: none is lost, none is used after DwMmcFreeTrb.
HoldsTrb(t, p) == /\ call[t].pkt = p
                  /\ call[t].pc \in {"insert", "waitq", "exec", "issue", "result"}
TrbOwned ==
    \A p \in AllPackets :
        trb[p].live <=> InQueue(p) \/ \E t \in Threads : HoldsTrb(t, p)

\* "Wait async I/O list is empty before execute sync I/O operation": from the
\* moment a blocking command leaves that wait until it returns, nothing is queued.
SyncExclusive ==
    \A t \in Threads : call[t].pc \in {"exec", "issue", "result"} => queue = <<>>

\* A data command reported successful moved its own data: the status bits it was
\* completed on are those of its own transfer.  "Interrupt status is cleared before a
\* new command is issued" (DwMmcHci.c:1575) does not carry that far where a transfer
\* that timed out is still on the bus: it may end between the clear and the command.
CompletionIsOwn ==
    [][\A p \in AllPackets :
         (/\ stat[p] # "Success" /\ stat'[p] = "Success"
          /\ trb[p].data)
         => IF trb[p].fifo THEN overlap \/ rint = p ELSE idsts = p]_vars

\* "Execute the specified TRB": a DMA command starts with DBADDR pointing to
\* the table built for it, not consumed yet.
DmaIsForCommand ==
    [][bus'.pkt # None /\ bus' # bus /\ bus'.dma
       => dma.desc = bus'.pkt /\ dma.own]_vars

\* "Event will be signaled when the Packet completes": a queued request does
\* not stay queued for ever, for every request has a timeout.  Claimed of a card
\* that lets go of its data line again and again: the wait for that has no timeout.
AsyncCompletes ==
    \A p \in AllPackets : event[p] = "pending" ~> event[p] # "pending"

\* A blocking PassThru call comes back, of such a card.
SyncReturns == call["App"].pc = "waitq" ~> call["App"].pc = "idle"

\* No request waits on a slot without a card: a removal cancels those queued,
\* and one that was being accepted at that moment is cancelled by the timer.
NoMediaDrains == (~slot.media /\ drv.timers) ~> (queue = <<>> \/ slot.media)

\* What makes the safety properties inductive when no notification submits.
\* A packet inside a PassThru call is not queued, and the two threads use
\* packets of their own.
PacketsApart ==
    /\ \A t \in Threads : call[t].pkt # None => ~InQueue(call[t].pkt)
    /\ call["App"].pkt \in Packets \cup {None}
    /\ call["Enum"].pkt \in {IdPacket, None}

\* Which calls can be where; only blocking commands are waited for, and only
\* a running identification has one.
CallsConsistent ==
    /\ \A t \in Threads :
         /\ call[t].pc = "insert" => call[t].async
         /\ call[t].pc \in {"waitq", "exec", "issue", "result"} => ~call[t].async
         /\ HoldsTrb(t, call[t].pkt) => ~trb[call[t].pkt].started
    /\ call["App"].pc # "returned"
    /\ call["Enum"].pc \notin {"insert", "stopping", "uninstall"}
    /\ ~call["Enum"].async
    /\ call["Enum"].pc # "idle" =>
           enum \in {"emmc", "emmcMode", "sd", "sdMode"}

\* Stop runs with the timers closed and no handler active, and only frees
\* Private with the queue empty.
StopQuiet ==
    /\ call["App"].pc \in {"stopping", "uninstall"} =>
           ~drv.timers /\ enum = "idle" /\ tick = "idle"
    /\ call["App"].pc = "uninstall" => queue = <<>>

SafetyInv == /\ QueueWellFormed /\ SignalledOnce /\ TrbOwned /\ SyncExclusive
             /\ PacketsApart /\ CallsConsistent /\ StopQuiet

\* What AsyncFifo promises of a queue of requests, kept by this driver.
Fifo == INSTANCE AsyncFifo WITH Requests <- AllPackets, pending <- queue
FifoSpec == Fifo!Spec
=============================================================================
