---------------------------- MODULE MCFixedSlots ----------------------------
(***************************************************************************)
(* Slots whose card stays in, for TLC, in three parts of which one moves:   *)
(* DwMmcHc with an SD card and finite timeouts, where every handler that    *)
(* can run does; DwMmcHc with a soldered eMMC and one client that transfers *)
(* data; and the transfers themselves, CardTransfers.                       *)
(***************************************************************************)
EXTENDS DwMmcHc, CardTransfers

CONSTANTS p1, p2, p3, id

VARIABLE part

Embedded == INSTANCE DwMmcHc WITH
    Cards <- {"Emmc"}, PlatformCard <- "Emmc", DataPackets <- {p1, id},
    Timeouts <- {0, 1}, StopFails <- TRUE

ASSUME PartsAssumption == Embedded!PacketAssumption /\ Embedded!PlatformAssumption

MCInit ==
    /\ part \in {"card", "embedded", "transfer"}
    /\ IF part = "embedded" THEN Embedded!Init ELSE Init
    /\ Transfer!Init /\ (part # "transfer" => ~emmc)
MCNext ==
    /\ UNCHANGED part
    /\ \/ part = "card" /\ Next /\ UNCHANGED moved
       \/ part = "embedded" /\ Embedded!Next /\ UNCHANGED moved
       \/ part = "transfer" /\ Transfer!Next /\ UNCHANGED vars
MCSpec ==
    /\ MCInit /\ [][MCNext]_<<part, vars, moved>>
    /\ WF_vars(part = "card" /\ TickStep)
    /\ WF_vars(part = "card" /\ EnumStep)
    /\ WF_vars(part = "card" /\ StopStep)
    /\ \A t \in Threads : WF_vars(part = "card" /\ PassThruStep(t))
    /\ WF_moved(part = "transfer" /\ Transfer!Loop)

-----------------------------------------------------------------------------
\* Where requests have timeouts, what DwMmcHcPassThru queued is answered for by
\* the timer, whatever the card does, as long as it leaves its data line free again
\* and again: the wait for that (DwMmcHci.c:1310) knows no timeout.
CardAnswers == part = "card" => ([]<>~busy => AsyncCompletes)

\* A blocking DwMmcHcPassThru, which waits for that queue, comes back from such a
\* card, and so does DwSdExecTrb from a transfer over the FIFO.
CallsReturn ==
    (part = "card" => ([]<>~busy => SyncReturns)) /\ Transfer!TransferEnds
=============================================================================
