---------------------------- MODULE CardTransfers ----------------------------
(***************************************************************************)
(* MmcTransfer for any controller, any lengths and any clocks, with what is *)
(* said of it.  The names of its state are not those of DwMmcHc, beside     *)
(* which it is checked and proved.                                          *)
(***************************************************************************)
EXTENDS Integers

CONSTANTS
    Lengths, DmaLengths,                \* of the requests
    Depth, Watermark,                   \* of the FIFO
    GenericTimeout, CommandPolls, CallerTimeout,
    BlockSize, DmaBufSize,
    BaseClkFreq, ClockFreqs,
    ResetFails,                         \* may a reset time out
    MaxRequests                         \* bound: requests made

VARIABLES
    emmc, clock, phase, request, bytes, received, timeout, intsts, full, status, bits,
    held, fifo, busAt, sent, table, idmac, dirty, bad, requests

moved == <<emmc, clock, phase, request, bytes, received, timeout, intsts, full, status,
           bits, held, fifo, busAt, sent, table, idmac, dirty, bad, requests>>

Transfer == INSTANCE MmcTransfer WITH
    trb <- request, data <- bytes, rint <- bits, busy <- held, bus <- busAt

ASSUME TransfersAssumption == Transfer!TransferAssumption

-----------------------------------------------------------------------------
\* MmcTransfer: a transfer that is told it succeeded moved its data, none wrote
\* further than its length is rounded up to, and the clock is the fastest that is not
\* above the one asked for.
DataExact == Transfer!TypeOK /\ Transfer!DataExact /\ Transfer!ClockRight

\* Its errors were found: the comment in DwMmcCheckTrbResult (DwMmcHci.c:1572).
ErrorsFound == Transfer!ErrorsFound
=============================================================================
