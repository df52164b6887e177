----------------------------- MODULE MmcTransfer -----------------------------
(***************************************************************************)
(* How data gets to and from a card (DwMmcHci.c): the clock's divisor, the  *)
(* FIFO that DwSdExecTrb and TransferFifo poll while the controller fills   *)
(* or empties it, and the descriptor table that the DMA of an eMMC walks.   *)
(* One request at a time; the queue of requests is DwMmcHc's.  Buffers and  *)
(* lengths are in bytes, and byte k of a transfer is the number k.  The     *)
(* FIFO holds words of four bytes; a word is the number of its first byte.  *)
(***************************************************************************)
EXTENDS Integers, Sequences

CONSTANTS
    Lengths,                \* DataLen of the requests for the FIFO
    DmaLengths,             \* and of those for the DMA
    Depth, Watermark,       \* of the controller's FIFO, in words
    GenericTimeout,         \* DW_MMC_HC_GENERIC_TIMEOUT
    CommandPolls,           \* 10000 polls for CMD_DONE
    CallerTimeout,          \* Packet->Timeout
    BlockSize, DmaBufSize,  \* DW_MMC_BLOCK_SIZE, DWMMC_DMA_BUF_SIZE
    BaseClkFreq, ClockFreqs,
    ResetFails,             \* may a reset of the FIFO or the DMA time out
    MaxRequests             \* bound: requests made

\* Assumed by an instance; DataLen is bounded, as a UINT32.
TransferAssumption ==
    /\ Lengths \cup DmaLengths \cup ClockFreqs \subseteq Nat \ {0}
    /\ \E n \in Lengths \cup DmaLengths : \A m \in Lengths \cup DmaLengths : m <= n
    /\ Watermark \in Nat /\ Depth \in Nat /\ Watermark < Depth
    /\ {GenericTimeout, CommandPolls} \subseteq Nat \ {0, 1}
    /\ {CallerTimeout, BlockSize, DmaBufSize, BaseClkFreq} \subseteq Nat \ {0}
    /\ DmaBufSize % BlockSize = 0 /\ ResetFails \in BOOLEAN

VARIABLES
    emmc,       \* CardType: transfers go by DMA
    clock,      \* the frequency last asked for, and CLKDIV
    phase,      \* where the driver is
    trb,        \* Read, DataLen, UseBE
    data,       \* Trb->Data and what is around it, by offset
    received,   \* TransferFifo's Received, and Ascending
    timeout,    \* the Timeout of the loop the driver is in
    intsts,     \* Intsts and the full bit of Sts as last read
    full,
    status,     \* what the request came to
    rint,       \* RINTSTS, and RI of IDSTS
    busy,       \* DATA_BUSY of STATUS: the card holds its data line
    fifo,       \* words in the FIFO
    bus,        \* the data phase: its direction, what it has moved of what, in words
                \* or for the DMA in bytes
    sent,       \* words or bytes the card was sent
    table,      \* descriptors
    idmac,      \* the descriptor the DMA is at, 0 for none
    dirty,      \* history: the command was given in the middle of something
    bad,        \* history: the data phase had an error
    requests

local == <<received, timeout, intsts, full>>
wire == <<fifo, bus, sent, bad>>
dma == <<table, idmac>>
driver == <<emmc, clock, phase, trb, data, local, status, dma, dirty, requests>>
vars == <<driver, rint, busy, wire>>

Least(a, b) == IF a < b THEN a ELSE b
Longest == CHOOSE n \in Lengths \cup DmaLengths : \A m \in Lengths \cup DmaLengths : m <= n
Up(n, unit) == (n + unit - 1) \div unit
Around == (-Longest)..(2 * Longest + BlockSize + 4)
NoBus == [dir |-> "none", cmd |-> FALSE, done |-> 0, todo |-> 0, over |-> FALSE]
Errors == {"DATA_ERR"}

Init ==
    /\ emmc \in BOOLEAN /\ clock = [asked |-> BaseClkFreq, div |-> 0]
    /\ phase = "idle" /\ trb = [Read |-> TRUE, DataLen |-> 0, UseBE |-> FALSE]
    /\ data = [o \in Around |-> 0]
    /\ received = 0 /\ timeout = 0 /\ intsts = {} /\ full = FALSE /\ status = "none"
    /\ rint = {} /\ busy = FALSE /\ fifo = <<>> /\ bus = NoBus /\ sent = <<>>
    /\ table = <<>> /\ idmac = 0 /\ dirty = FALSE /\ bad = FALSE /\ requests = 0

-----------------------------------------------------------------------------
\* The loop of DwMmcHcClockSupply: the divisor grows until the setting, one more
\* where the division leaves a rest, is no longer above the clock asked for.
Divisor(freq) ==
    LET setting(div) == BaseClkFreq \div (2 * div)
        above(div) == \/ freq < setting(div)
                      \/ freq = setting(div) /\ BaseClkFreq % (2 * div) # 0
        from[div \in 1..(BaseClkFreq + 1)] == IF above(div) THEN from[div + 1] ELSE div
    IN  IF freq < BaseClkFreq THEN from[1] ELSE 0

\* No request depends on the clock, so none is made after it was changed.
DwMmcHcClockSupply ==
    /\ phase = "idle" /\ requests = 0 /\ requests' = MaxRequests
    /\ \E freq \in ClockFreqs :
          clock' = [asked |-> freq, div |-> Divisor(Least(freq, BaseClkFreq))]
    /\ UNCHANGED <<emmc, phase, trb, data, local, status, rint, busy, wire, dma, dirty>>

-----------------------------------------------------------------------------
\* DwSdExecTrb with a FIFO transfer.  A buffer to read into was cleared by
\* DwMmcCreateTrb; one to write has bytes 1, 2, ...  Only SD_SEND_SCR, which reads,
\* is UseBE.
Request(read, n, be) ==
    /\ ~emmc /\ phase = "idle" /\ requests < MaxRequests /\ requests' = requests + 1
    /\ be => read
    /\ trb' = [Read |-> read, DataLen |-> n, UseBE |-> be]
    /\ data' = [o \in Around |-> IF ~read /\ o \in 0..(n - 1) THEN o + 1 ELSE 0]
    /\ phase' = "wait" /\ status' = "none"
    /\ UNCHANGED <<emmc, clock, local, rint, busy, wire, dma, dirty>>

\* The loop that reads STATUS until the card's data line is free, without end.
WaitIdle ==
    /\ phase = "wait" /\ ~busy /\ phase' = "clear"
    /\ UNCHANGED <<emmc, clock, trb, data, local, status, rint, busy, wire, dma, dirty,
                   requests>>

ClearInterrupts ==
    /\ phase = "clear" /\ phase' = "reset" /\ rint' = {}
    /\ UNCHANGED <<emmc, clock, trb, data, local, status, busy, wire, dma, dirty, requests>>

\* DwMmcHcWaitReset: that it times out is only logged.
FifoReset ==
    /\ phase = "reset" /\ phase' = "issue"
    /\ \/ fifo' = <<>>
       \/ ResetFails /\ UNCHANGED fifo
    /\ UNCHANGED <<emmc, clock, trb, data, local, status, rint, busy, bus, sent, bad, dma,
                   dirty, requests>>

\* The command is written, and a data phase of its own begins.
Issue ==
    /\ phase = "issue" /\ phase' = "command"
    /\ bus' = [NoBus EXCEPT !.dir = IF trb.Read THEN "in" ELSE "out", !.cmd = TRUE,
                            !.todo = Up(trb.DataLen, 4)]
    /\ dirty' = (bus # NoBus \/ fifo # <<>> \/ rint # {})
    /\ sent' = <<>> /\ bad' = FALSE
    /\ timeout' = CommandPolls
    /\ UNCHANGED <<emmc, clock, trb, data, received, intsts, full, status, rint, busy, fifo,
                   dma, requests>>

Ends(result) == phase' = "idle" /\ status' = result

\* One turn of the wait for CMD_DONE.  When it has run out the code goes on with
\* the status it has read last.
AfterCommand(seen) ==
    IF seen \cap Errors # {}
    THEN Ends("DEVICE_ERROR") /\ UNCHANGED received
    ELSE phase' = "poll" /\ received' = 0 /\ UNCHANGED status
CommandPoll ==
    /\ phase = "command"
    /\ LET last == timeout = 1
           seen == IF last THEN intsts ELSE rint
       IN  /\ intsts' = seen
           /\ IF last \/ "CMD_DONE" \in seen
              THEN AfterCommand(seen) /\ timeout' = GenericTimeout
              ELSE timeout' = timeout - 1 /\ UNCHANGED <<phase, status, received>>
    /\ UNCHANGED <<emmc, clock, trb, data, full, rint, busy, wire, dma, dirty, requests>>

-----------------------------------------------------------------------------
\* TransferFifo: the top of its loop reads RINTSTS.
Poll ==
    /\ phase = "poll" /\ phase' = "move"
    /\ intsts' = rint
    /\ UNCHANGED <<emmc, clock, trb, data, received, timeout, full, status, rint, busy,
                   wire, dma, dirty, requests>>

\* Verify, with got bytes received and left turns to go.
Verify(got, left) ==
    /\ received' = got
    /\ timeout' = IF got < trb.DataLen THEN left - 1 ELSE CallerTimeout
    /\ CASE intsts \cap Errors # {} -> Ends("DEVICE_ERROR")
         [] intsts \cap Errors = {} /\ left = 1 -> Ends("TIMEOUT")
         [] OTHER -> /\ phase' = IF got < trb.DataLen THEN "poll" ELSE "check"
                     /\ UNCHANGED status

\* Mutant of Mirror: a big-endian read starts behind the buffer's last word.
MirrorOff(k) == IF trb.UseBE THEN 4 * Up(trb.DataLen, 4) + 3 - k ELSE k

\* Where byte k + 1 of the transfer is in the buffer: words go up from its start, or
\* down from its last word with their bytes swapped, which is byte after byte.
Mirror(k) == IF trb.UseBE THEN 4 * Up(trb.DataLen, 4) - 1 - k ELSE k

\* A read takes what the FIFO holds, but no more than the request's length, which
\* it rounds up to words.
MoveIn ==
    /\ phase = "move" /\ trb.Read
    /\ LET count == IF intsts \cap {"RXDR", "DTO"} = {} THEN 0
                    ELSE Least(Len(fifo), Up(trb.DataLen, 4))
           at(o) == Mirror(o) - received
       IN  /\ data' = [o \in Around |-> IF at(o) \in 0..(4 * count - 1)
                                       THEN fifo[at(o) \div 4 + 1] + (at(o) % 4)
                                       ELSE data[o]]
           /\ fifo' = SubSeq(fifo, count + 1, Len(fifo))
           /\ Verify(received + 4 * count, IF count > 0 THEN GenericTimeout ELSE timeout)
    /\ UNCHANGED <<emmc, clock, trb, intsts, full, rint, busy, bus, sent, bad, dma, dirty,
                   requests>>

\* A write reads STATUS when it is asked for words.
MoveOut ==
    /\ phase = "move" /\ ~trb.Read
    /\ IF "TXDR" \in intsts
       THEN /\ phase' = "push" /\ full' = (Len(fifo) = Depth)
            /\ UNCHANGED <<received, timeout, status>>
       ELSE Verify(received, timeout) /\ UNCHANGED full
    /\ UNCHANGED <<emmc, clock, trb, data, intsts, rint, busy, wire, dma, dirty, requests>>

\* Its inner loop: a word, TXDR cleared, and both registers read again.
PushWord ==
    /\ phase = "push"
    /\ IF ~full /\ received < trb.DataLen /\ "TXDR" \in intsts
       THEN /\ fifo' = Append(fifo, data[Mirror(received)])
            /\ rint' = rint \ {"TXDR"}
            /\ received' = received + 4 /\ phase' = "reread"
            /\ UNCHANGED <<timeout, status>>
       ELSE Verify(received, GenericTimeout) /\ UNCHANGED <<fifo, rint>>
    /\ UNCHANGED <<emmc, clock, trb, data, intsts, full, busy, bus, sent, bad, dma, dirty,
                   requests>>
Reread ==
    /\ phase = "reread" /\ phase' = "push"
    /\ intsts' = rint /\ full' = (Len(fifo) = Depth)
    /\ UNCHANGED <<emmc, clock, trb, data, received, timeout, status, rint, busy, wire,
                   dma, dirty, requests>>

\* DwMmcCheckTrbResult, as often as the caller's timeout lets it.
CheckFifo ==
    /\ phase = "check" /\ timeout' = timeout - 1
    /\ CASE {"ACD", "DTO"} \subseteq rint -> Ends("SUCCESS")
         [] ~({"ACD", "DTO"} \subseteq rint) /\ timeout = 1 -> Ends("TIMEOUT")
         [] OTHER -> UNCHANGED <<phase, status>>
    /\ UNCHANGED <<emmc, clock, trb, data, received, intsts, full, rint, busy, wire, dma,
                   dirty, requests>>

-----------------------------------------------------------------------------
\* The controller: it answers the command, puts words into the FIFO or takes
\* them out of it, says when it wants the driver to, that the data is over, that
\* the stop command it sends by itself is done, and that the bus had an error.  When
\* the data or the stop command is over the card may hold its data line, and lets go
\* of it sooner or later or never.
MayHold == busy' \in {busy, TRUE}
CardReady == busy /\ busy' = FALSE /\ UNCHANGED <<driver, rint, wire>>
Raise(bits) == rint' = rint \cup bits
Controller(dir) == bus.dir = dir /\ ~bus.over /\ ~emmc

CommandDone ==
    /\ bus.cmd /\ bus' = [bus EXCEPT !.cmd = FALSE] /\ Raise({"CMD_DONE"})
    /\ UNCHANGED <<driver, busy, fifo, sent, bad>>
CardSends ==
    /\ Controller("in") /\ bus.done < bus.todo /\ Len(fifo) < Depth
    /\ fifo' = Append(fifo, 4 * bus.done + 1)
    /\ bus' = [bus EXCEPT !.done = @ + 1]
    /\ Raise(IF Len(fifo') > Watermark THEN {"RXDR"} ELSE {})
    /\ UNCHANGED <<driver, busy, sent, bad>>
CardTakes ==
    /\ Controller("out") /\ ~bus.cmd /\ bus.done < bus.todo /\ fifo # <<>>
    /\ sent' = Append(sent, Head(fifo)) /\ fifo' = Tail(fifo)
    /\ bus' = [bus EXCEPT !.done = @ + 1]
    /\ UNCHANGED <<driver, rint, busy, bad>>
RequestData ==
    /\ Controller("out") /\ Len(fifo) <= Watermark /\ Raise({"TXDR"})
    /\ UNCHANGED <<driver, busy, wire>>
DataOver ==
    /\ Controller(bus.dir) /\ bus.dir # "none" /\ ~bus.cmd /\ bus.done = bus.todo
    /\ bus' = [bus EXCEPT !.over = TRUE] /\ Raise({"DTO"})
    /\ MayHold
    /\ UNCHANGED <<driver, fifo, sent, bad>>
AutoStop ==
    /\ bus.over /\ bus' = NoBus /\ Raise({"ACD"})
    /\ MayHold
    /\ UNCHANGED <<driver, fifo, sent, bad>>
BusError ==
    /\ Controller(bus.dir) /\ bus.dir # "none" /\ ~bad
    /\ bad' = TRUE /\ Raise(Errors)
    /\ UNCHANGED <<driver, busy, fifo, bus, sent>>

-----------------------------------------------------------------------------
\* BYTCNT, whole blocks; and the descriptors of BuildDmaDescTable, the last of
\* which is as long as what is left and alone raises an interrupt.
BytCnt(n) == IF n < BlockSize THEN n ELSE BlockSize * Up(n, BlockSize)
DescTable(n) ==
    LET entries == Up(n, DmaBufSize)
    IN  [i \in 1..entries |->
           [own |-> TRUE, last |-> i = entries, address |-> DmaBufSize * (i - 1),
            size |-> IF i = entries THEN BytCnt(n) - DmaBufSize * (entries - 1) ELSE DmaBufSize,
            next |-> IF i = entries THEN 0 ELSE i + 1]]

\* DwMmcCreateTrb for an eMMC: the table, then DwMmcHcStartDma, which may find
\* that the DMA does not come out of its reset.
BuildDmaDescTable(read, n) ==
    /\ emmc /\ phase = "idle" /\ requests < MaxRequests /\ requests' = requests + 1
    /\ trb' = [Read |-> read, DataLen |-> n, UseBE |-> FALSE]
    /\ data' = [o \in Around |-> IF ~read /\ o \in 0..(n - 1) THEN o + 1 ELSE 0]
    /\ table' = DescTable(n) /\ idmac' = 1 /\ rint' = rint \ {"RI"}
    /\ sent' = <<>>
    /\ \/ /\ phase' = "dma" /\ status' = "none"
          /\ bus' = [NoBus EXCEPT !.dir = IF read THEN "in" ELSE "out", !.todo = BytCnt(n)]
       \/ ResetFails /\ Ends("OUT_OF_RESOURCES") /\ UNCHANGED bus
    /\ UNCHANGED <<emmc, clock, local, busy, fifo, bad, dirty>>

\* The DMA works through one descriptor.
Idmac ==
    /\ phase = "dma" /\ idmac # 0 /\ table[idmac].own
    /\ LET d == table[idmac]
           count == Least(d.size, bus.todo - bus.done)
       IN  /\ data' = [o \in Around |->
                         IF trb.Read /\ o \in d.address..(d.address + count - 1)
                         THEN bus.done + o - d.address + 1 ELSE data[o]]
           /\ sent' = IF trb.Read THEN sent
                      ELSE sent \o [k \in 1..count |-> data[d.address + k - 1]]
           /\ bus' = [bus EXCEPT !.done = @ + count]
           /\ idmac' = d.next
           /\ Raise(IF d.last THEN {"RI"} ELSE {})
    /\ table' = [table EXCEPT ![idmac].own = FALSE]
    /\ UNCHANGED <<emmc, clock, phase, trb, local, status, busy, fifo, dirty, bad, requests>>

\* DwMmcCheckTrbResult waits for the interrupt and clears it.
CheckDma ==
    /\ phase = "dma" /\ "RI" \in rint /\ rint' = rint \ {"RI"}
    /\ Ends("SUCCESS") /\ bus' = NoBus
    /\ UNCHANGED <<emmc, clock, trb, data, local, busy, fifo, sent, bad, dma, dirty, requests>>

-----------------------------------------------------------------------------
DwSdExecTrb ==
    \/ \E read, be \in BOOLEAN, n \in Lengths : Request(read, n, be)
    \/ WaitIdle \/ ClearInterrupts \/ FifoReset \/ Issue \/ CommandPoll
TransferFifo == Poll \/ MoveIn \/ MoveOut \/ PushWord \/ Reread
Fifo ==
    \/ CommandDone \/ CardSends \/ CardTakes \/ RequestData \/ DataOver \/ AutoStop
    \/ BusError \/ CardReady
Dma == (\E read \in BOOLEAN, n \in DmaLengths : BuildDmaDescTable(read, n)) \/ Idmac \/ CheckDma
Next == DwMmcHcClockSupply \/ DwSdExecTrb \/ TransferFifo \/ CheckFifo \/ Fifo \/ Dma

\* The driver runs its loops; the card and the controller owe it nothing.
Loop == \/ WaitIdle \/ ClearInterrupts \/ FifoReset \/ Issue \/ CommandPoll
        \/ TransferFifo \/ CheckFifo
Spec == Init /\ [][Next]_vars /\ WF_vars(Loop)

-----------------------------------------------------------------------------
TypeOK ==
    /\ phase \in {"idle", "wait", "clear", "reset", "issue", "command", "poll", "move",
                  "push", "reread", "check", "dma"}
    /\ timeout \in 0..(GenericTimeout + CommandPolls + CallerTimeout)
    /\ received \in 0..(2 * Longest + 2) /\ Len(fifo) <= Depth
    /\ rint \subseteq {"CMD_DONE", "RXDR", "TXDR", "DTO", "ACD", "RI"} \cup Errors
    /\ busy \in BOOLEAN

\* A request that is told it succeeded, on a bus without errors, has moved every
\* byte of it once, in order, and to where the order of bytes asked for puts it; and
\* no byte is written further behind the buffer than the rounding of its length
\* goes: up to three bytes for the FIFO, whose last word is stored whole
\* (DwMmcHci.c:889), and for the DMA to the end of a block.  It is not promised for
\* a command given while the one before was still moving data.
Unit == IF emmc THEN 1 ELSE 4
Extent == IF emmc THEN BytCnt(trb.DataLen) ELSE 4 * Up(trb.DataLen, 4)
DataExact ==
    ~dirty =>
        /\ \A o \in Around \ 0..(Extent - 1) : data[o] = 0
        /\ status = "SUCCESS" /\ ~bad =>
              IF trb.Read
              THEN \A k \in 0..(trb.DataLen - 1) : data[Mirror(k)] = k + 1
              ELSE /\ Len(sent) = Extent \div Unit
                   /\ \A k \in 1..Up(trb.DataLen, Unit) : sent[k] = Unit * (k - 1) + 1

\* CLKDIV divides the base clock by the least even number, or by one, for which
\* the card's clock is not above the one asked for.
Slow(div) == BaseClkFreq <= (IF div = 0 THEN 1 ELSE 2 * div) * clock.asked
ClockRight == Slow(clock.div) /\ \A div \in 0..(clock.div - 1) : ~Slow(div)

\* Of a transfer that is told it succeeded no error was reported: the comment in
\* DwMmcCheckTrbResult, "Each transfer is validated in TransferFifo(), which would
\* fail on any of the error states above and more" (DwMmcHci.c:1572).
ErrorsFound == status = "SUCCESS" => ~bad

\* A transfer over the FIFO ends, whatever the card does or does not do but for its
\* data line, which it has to leave free again and again: that wait has no count.
TransferEnds == []<>~busy => []<>(phase \in {"idle", "dma"})
=============================================================================
