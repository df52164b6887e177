------------------------- MODULE CardIdentification -------------------------
(***************************************************************************)
(* Drivers/DwMmcHcDxe/EmmcDevice.c and SdDevice.c: the commands that        *)
(* identify a card when one is inserted, and what they leave in the card    *)
(* and in the controller.  One action is one function that sends a command, *)
(* with its call of PassThru and what its caller makes of the status.  The  *)
(* card may go, a command or its response may be lost.  Voltages but for    *)
(* 1.8 V, currents, capacities and what is only printed are left out.       *)
(***************************************************************************)
EXTENDS Integers, FiniteSets

CONSTANTS
    Hosts,          \* capabilities: [width, ddr50, sdr50, sdr104, highSpeed, only18]
    Cards,          \* [kind, version1, widths, functions, types, high, stuck]
    PlatformCard,   \* CardType before the first card
    Tries,          \* attempts of EmmcIdentification with CMD1, 100 in the code
    Noise           \* commands and responses may be lost

AllFunctions == 0 .. 4      \* SDR12, SDR25, SDR50, SDR104, DDR50
AllTypes == {"HS26", "HS52", "DDR52", "HS200"}
HostCapabilities ==
    [width : {1, 4, 8}, ddr50 : BOOLEAN, sdr50 : BOOLEAN, sdr104 : BOOLEAN,
     highSpeed : BOOLEAN, only18 : BOOLEAN]
CardKinds ==
    [kind : {"Sd", "Emmc"}, version1 : BOOLEAN, widths : SUBSET {1, 4, 8},
     functions : SUBSET AllFunctions, types : SUBSET AllTypes,
     high : BOOLEAN, stuck : BOOLEAN]

\* Of the cards, what the two standards say: every eMMC knows the three widths,
\* no SD card knows eight bits, and every SD card knows SDR12.
ASSUME IdentificationAssumption ==
    /\ Hosts \subseteq HostCapabilities /\ Cards \subseteq CardKinds
    /\ \A c \in Cards : IF c.kind = "Emmc" THEN c.widths = {1, 4, 8}
                       ELSE c.widths \subseteq {1, 4} /\ 1 \in c.widths /\ 0 \in c.functions
    /\ PlatformCard \in {"Sd", "Emmc"} /\ Tries \in Nat \ {0, 1} /\ Noise \in BOOLEAN

NoCard == [kind |-> "None"]
InitClock == 0      \* 400 kHz; other clocks are in MHz

VARIABLES
    cap,        \* Capability[0]
    card,       \* the card in the slot: its kind and what it is told
    host,       \* CTYPE and UHSREG (width, ddr) and the clock
    slot,       \* Slot[0]: media, type
    pc,         \* the next command; "off" when nothing is being identified
    version1,   \* SdVersion1
    rca,        \* Rca, as the routine knows it
    switch,     \* SwitchResp: the functions supported and the one selected
    extCsd,     \* ExtCsd.DeviceType
    tries,      \* Timeout
    result,     \* what the last enumeration came to
    noisy       \* history: something was lost, or the card went, or was not
                \* ready in time, since it began

vars == <<cap, card, host, slot, pc, version1, rca, switch, extCsd, tries, result, noisy>>

SdPc == {"SdReset", "SdVoltageCheck", "SdInquire", "SdOpCond", "SdAllSendCid", "SdSetRca",
         "SdGetCsd", "SdSelect", "SdGetScr", "SdBusWidth", "SdStatus", "SdCheck", "SdSet"}
EmmcPc == {"EmmcReset", "EmmcGetOcr", "EmmcGetAllCid", "EmmcSetRca", "EmmcGetCsd",
           "EmmcSelect", "EmmcInTran", "EmmcOneBit", "EmmcOneBitStatus", "EmmcGetExtCsd",
           "EmmcTiming", "EmmcTimingStatus", "EmmcWidth", "EmmcWidthStatus", "EmmcExit"}
AnyResponse == [supported : SUBSET AllFunctions, selected : AllFunctions \cup {15}]

TypeOK ==
    /\ cap \in Hosts
    /\ card = NoCard \/ \E c \in Cards : card.is = c
    /\ host.width \in {1, 4, 8} /\ host.ddr \in BOOLEAN /\ host.clock \in Nat
    /\ slot.media \in BOOLEAN /\ slot.type \in {"Sd", "Emmc"}
    /\ pc \in SdPc \cup EmmcPc \cup {"off"}
    /\ version1 \in BOOLEAN /\ noisy \in BOOLEAN
    /\ rca \in {0, 1, 7} /\ tries \in 0 .. Tries
    /\ switch \in AnyResponse /\ extCsd \subseteq AllTypes
    /\ result \in {"none", "success", "failed"}

-----------------------------------------------------------------------------
(* The card.                                                               *)

Idle(c, ready) ==
    [kind |-> c.kind, is |-> c, state |-> "idle", ready |-> ready, told |-> FALSE,
     rca |-> 0, width |-> 1, ddr |-> FALSE, mode |-> 0, error |-> FALSE]

CanGetReady == ~card.is.stuck /\ (card.is.high => card.told)

\* Does the card answer, what is it afterwards, and with what?
Says(c, r) == [heard |-> TRUE, card |-> c, r |-> r]
Silent(c) == [heard |-> FALSE, card |-> c, r |-> 0]
If(answers, reply) == IF card # NoCard /\ answers THEN reply ELSE Silent(card)

In(kind, states) == card.kind = kind /\ card.state \in states

GoIdle == If(TRUE, Silent(Idle(card.is, FALSE)))
SendIfCond(pattern) ==
    If(In("Sd", {"idle"}) /\ ~card.is.version1, Says([card EXCEPT !.told = TRUE], pattern))
GetsReady == IF card.ready THEN [card EXCEPT !.state = "ready"] ELSE card
SdSendOpCond(voltage) ==
    If(In("Sd", {"idle"}), Says(IF voltage = 1 THEN GetsReady ELSE card, card.ready))
SendOpCond == If(In("Emmc", {"idle"}), Says(GetsReady, card.ready))
AllSendCid == If(card.state = "ready", Says([card EXCEPT !.state = "ident"], 0))
SetRelativeAddr(asked) ==
    LET to == IF card.kind = "Sd" THEN 7 ELSE asked
    IN  If(card.state = "ident", Says([card EXCEPT !.state = "stby", !.rca = to], to))
SendCsd(to) == If(card.state = "stby" /\ card.rca = to, Says(card, 0))
Select(to) ==
    If(card.state = "stby" /\ card.rca = to, Says([card EXCEPT !.state = "tran"], 0))
SendStatus(to) ==
    If(card.state \in {"stby", "tran"} /\ card.rca = to,
       Says([card EXCEPT !.error = FALSE], [tran |-> card.state = "tran", error |-> card.error]))

SendScr == If(In("Sd", {"tran"}), Says(card, card.is.widths \cap {1, 4}))
SetBusWidth(w) ==
    If(In("Sd", {"tran"}), Says(IF w \in card.is.widths THEN [card EXCEPT !.width = w]
                                ELSE [card EXCEPT !.error = TRUE], 0))
CheckFunc ==
    If(In("Sd", {"tran"}) /\ ~card.is.version1,
       Says(card, [supported |-> card.is.functions, selected |-> card.mode]))
SwitchFunc(mode) ==
    LET takes == mode \in card.is.functions
    IN  If(In("Sd", {"tran"}) /\ ~card.is.version1,
           Says(IF takes THEN [card EXCEPT !.mode = mode, !.ddr = (mode = 4)] ELSE card,
                [supported |-> card.is.functions, selected |-> IF takes THEN mode ELSE 15]))

SendExtCsd == If(In("Emmc", {"tran"}), Says(card, card.is.types))
SwitchTiming ==
    If(In("Emmc", {"tran"}), Says(IF card.is.types = {} THEN [card EXCEPT !.error = TRUE]
                                  ELSE [card EXCEPT !.mode = 1], 0))
SwitchWidth(w, ddr) ==
    If(In("Emmc", {"tran"}), Says(IF w \in card.is.widths THEN [card EXCEPT !.width = w, !.ddr = ddr]
                                  ELSE [card EXCEPT !.error = TRUE], 0))

\* The fastest clock the card may be given, in MHz.
MaxClock ==
    IF card.state \in {"idle", "ready", "ident"} THEN InitClock
    ELSE IF card.kind = "Sd" THEN <<25, 50, 100, 208, 50>>[card.mode + 1]
    ELSE IF card.mode = 1 /\ card.is.types \cap {"HS52", "DDR52"} # {} THEN 52 ELSE 26

-----------------------------------------------------------------------------
(* PassThru with one command, for the CardType the slot has at that time.  *)

\* Mutant of Awaited: neither kind of slot awaits R7.
AwaitedNoR7(type) == type \notin {"none", "R7"}

\* CMD0 has no response; DwEmmcExecTrb awaits none of type R6 or R7.
Awaited(type) == type \notin IF slot.type = "Emmc" THEN {"none", "R6", "R7"} ELSE {"none"}

\* What can come of a command: it is answered, or it or its answer is lost.
\* Without a response to wait for all is well.
LostWith(reply) == IF Noise THEN {card, reply.card} ELSE {}
Exchange(type, reply) ==
    IF Awaited(type)
    THEN {[ok |-> reply.heard, card |-> reply.card, r |-> reply.r, lost |-> FALSE]} \cup
         {[ok |-> FALSE, card |-> c, r |-> reply.r, lost |-> TRUE] : c \in LostWith(reply)}
    ELSE {[ok |-> TRUE, card |-> reply.card, r |-> 0, lost |-> FALSE]} \cup
         {[ok |-> TRUE, card |-> c, r |-> 0, lost |-> TRUE] : c \in LostWith(reply)}

\* The next routine of mCardTypeDetectRoutineTable, or the handler returns.
GivesUp ==
    /\ pc' = IF pc \in EmmcPc THEN "SdReset" ELSE "off"
    /\ result' = IF pc \in EmmcPc THEN result ELSE "failed"

Send(type, reply, Then(_), Else) ==
    /\ \E x \in Exchange(type, reply) :
         /\ card' = x.card
         /\ noisy' = (noisy \/ x.lost \/ (pc = "EmmcGetOcr" /\ tries = 1))
         /\ IF x.ok THEN Then(x.r)
            ELSE Else /\ UNCHANGED <<host, slot, version1, rca, switch, extCsd, tries>>
    /\ UNCHANGED cap

rest == <<host, slot, version1, rca, switch, extCsd, tries, result>>
GoOn(to) == pc' = to /\ UNCHANGED rest
Succeeds == pc' = "off" /\ result' = "success"

-----------------------------------------------------------------------------
(* EmmcIdentification and EmmcSetBusMode.                                  *)

EmmcReset ==
    /\ pc = "EmmcReset"
    /\ Send("none", GoIdle, LAMBDA r : pc' = "EmmcGetOcr" /\ tries' = Tries
            /\ UNCHANGED <<host, slot, version1, rca, switch, extCsd, result>>, GivesUp)

\* Mutant of Attempt: the count starts again when it runs out.
AttemptWraps(t) == IF t = 1 THEN Tries ELSE t - 1
Attempt(t) == t - 1

\* The attempts are counted before the answer is looked at.
EmmcGetOcr ==
    /\ pc = "EmmcGetOcr"
    /\ Send("R3", SendOpCond, LAMBDA ready :
            /\ tries' = Attempt(tries)
            /\ IF tries' = 0 THEN GivesUp
               ELSE pc' = (IF ready THEN "EmmcGetAllCid" ELSE pc) /\ UNCHANGED result
            /\ UNCHANGED <<host, slot, version1, rca, switch, extCsd>>, GivesUp)

EmmcGetAllCid ==
    pc = "EmmcGetAllCid" /\ Send("R2", AllSendCid, LAMBDA r : GoOn("EmmcSetRca"), GivesUp)

EmmcSetRca ==
    /\ pc = "EmmcSetRca"
    /\ Send("R1", SetRelativeAddr(1), LAMBDA r : pc' = "EmmcGetCsd" /\ rca' = 1
            /\ slot' = [slot EXCEPT !.type = "Emmc"]
            /\ UNCHANGED <<host, version1, switch, extCsd, tries, result>>, GivesUp)

EmmcGetCsd == pc = "EmmcGetCsd" /\ Send("R2", SendCsd(rca), LAMBDA r : GoOn("EmmcSelect"), GivesUp)
EmmcSelect == pc = "EmmcSelect" /\ Send("R1", Select(rca), LAMBDA r : GoOn("EmmcInTran"), GivesUp)

\* EmmcSendStatus: until the card is in its transfer state, after a switch of
\* the width, where the status is not looked at, and at the end.
SetWidth(w, ddr) == host' = [host EXCEPT !.width = w, !.ddr = ddr]
EmmcSendStatus ==
    \/ /\ pc = "EmmcInTran"
       /\ Send("R1", SendStatus(rca), LAMBDA s : GoOn(IF s.tran THEN "EmmcOneBit" ELSE pc), GivesUp)
    \/ /\ pc = "EmmcOneBitStatus"
       /\ Send("R1", SendStatus(rca), LAMBDA s : SetWidth(1, FALSE) /\ pc' = "EmmcGetExtCsd"
               /\ UNCHANGED <<slot, version1, rca, switch, extCsd, tries, result>>, GivesUp)
    \/ /\ pc = "EmmcExit"
       /\ Send("R1", SendStatus(rca), LAMBDA s : Succeeds
               /\ UNCHANGED <<host, slot, version1, rca, switch, extCsd, tries>>, GivesUp)

\* The timing, data rate and clock for the types both sides know.  HS200 comes
\* first, and is then not switched to: EmmcSwitchToHS200 does nothing.
Timing(types) ==
    LET hs == types \cap {"HS26", "HS52"}
    IN  IF "HS200" \in types /\ cap.sdr104 THEN [timing |-> 2, ddr |-> FALSE, clock |-> 200]
        ELSE IF "DDR52" \in types /\ cap.ddr50 THEN [timing |-> 1, ddr |-> TRUE, clock |-> 52]
        ELSE IF hs # {} /\ cap.highSpeed
        THEN [timing |-> 1, ddr |-> FALSE, clock |-> IF "HS52" \in hs THEN 52 ELSE 26]
        ELSE [timing |-> 0, ddr |-> FALSE, clock |-> 0]

EmmcGetExtCsd ==
    /\ pc = "EmmcGetExtCsd"
    /\ Send("R1", SendExtCsd, LAMBDA types :
            /\ pc' = IF Timing(types).timing = 1 THEN "EmmcTiming" ELSE "EmmcExit"
            /\ extCsd' = types
            /\ UNCHANGED <<host, slot, version1, rca, switch, tries, result>>, GivesUp)

\* DwMmcHcClockSupply with the clock asked for.
SetClock(mhz) == host' = [host EXCEPT !.clock = mhz]

EmmcSwitchClockFreq ==
    \/ /\ pc = "EmmcTiming"
       /\ Send("R1", SwitchTiming, LAMBDA r : GoOn("EmmcTimingStatus"), GivesUp)
    \/ /\ pc = "EmmcTimingStatus"
       /\ Send("R1", SendStatus(rca), LAMBDA s :
               /\ IF s.error THEN GivesUp /\ UNCHANGED host
                  ELSE SetClock(Timing(extCsd).clock) /\ pc' = "EmmcWidth" /\ UNCHANGED result
               /\ UNCHANGED <<slot, version1, rca, switch, extCsd, tries>>, GivesUp)

\* One bit is never told to be of double data rate.
EmmcSwitchBusWidth ==
    LET ddr == Timing(extCsd).ddr
    IN  \/ /\ pc = "EmmcOneBit"
           /\ Send("R1", SwitchWidth(1, FALSE),
                   LAMBDA r : GoOn("EmmcOneBitStatus"), GivesUp)
        \/ /\ pc = "EmmcWidth"
           /\ Send("R1", SwitchWidth(cap.width, cap.width # 1 /\ ddr),
                   LAMBDA r : GoOn("EmmcWidthStatus"), GivesUp)
        \/ /\ pc = "EmmcWidthStatus"
           /\ Send("R1", SendStatus(rca), LAMBDA s : SetWidth(cap.width, ddr) /\ pc' = "EmmcExit"
                   /\ UNCHANGED <<slot, version1, rca, switch, extCsd, tries, result>>, GivesUp)

-----------------------------------------------------------------------------
(* SdCardIdentification and SdCardSetBusMode.                              *)

SdCardReset ==
    /\ pc = "SdReset"
    /\ Send("none", GoIdle, LAMBDA r : pc' = "SdVoltageCheck" /\ version1' = FALSE
            /\ UNCHANGED <<host, slot, rca, switch, extCsd, tries, result>>, GivesUp)

\* A card that does not echo the pattern is taken for one of version 1.
SdCardVoltageCheck ==
    /\ pc = "SdVoltageCheck"
    /\ \E x \in Exchange("R7", SendIfCond(511)) :
         /\ card' = x.card /\ noisy' = (noisy \/ x.lost)
         /\ version1' = ~(x.ok /\ x.r = 511)
    /\ pc' = "SdInquire"
    /\ UNCHANGED <<cap, host, slot, rca, switch, extCsd, tries, result>>

\* CMD55 and ACMD41: once with no voltage, then until the card is ready, however
\* long that takes.
SdCardSendOpCond ==
    \/ pc = "SdInquire" /\ Send("R3", SdSendOpCond(0), LAMBDA r : GoOn("SdOpCond"), GivesUp)
    \/ /\ pc = "SdOpCond"
       /\ Send("R3", SdSendOpCond(1), LAMBDA ready : GoOn(IF ready THEN "SdAllSendCid" ELSE pc), GivesUp)

SdCardAllSendCid ==
    pc = "SdAllSendCid" /\ Send("R2", AllSendCid, LAMBDA r : GoOn("SdSetRca"), GivesUp)

SdCardSetRca ==
    /\ pc = "SdSetRca"
    /\ Send("R6", SetRelativeAddr(0), LAMBDA r : pc' = "SdGetCsd" /\ rca' = r
            /\ UNCHANGED <<host, slot, version1, switch, extCsd, tries, result>>, GivesUp)

SdCardGetCsd == pc = "SdGetCsd" /\ Send("R2", SendCsd(rca), LAMBDA r : GoOn("SdSelect"), GivesUp)
SdCardSelect == pc = "SdSelect" /\ Send("R1", Select(rca), LAMBDA r : GoOn("SdGetScr"), GivesUp)

\* The widths in SCR are a mask, 1 for one bit and 4 for four, and what is left
\* of it is used as a width.  SwitchResp is a local not yet written.
SdCardGetScr ==
    /\ pc = "SdGetScr"
    /\ Send("R1", SendScr, LAMBDA widths :
            /\ slot' = [slot EXCEPT !.type = "Sd"]
            /\ IF cap.width \in widths THEN pc' = "SdBusWidth" /\ UNCHANGED result ELSE GivesUp
            /\ switch' \in IF version1 THEN AnyResponse ELSE {switch}
            /\ UNCHANGED <<host, version1, rca, extCsd, tries>>, GivesUp)

SdCardSetBusWidth ==
    /\ pc = "SdBusWidth"
    /\ Send("R1", SetBusWidth(cap.width), LAMBDA r : GoOn("SdStatus"), GivesUp)

\* The access mode and clock for the functions the response names.
AccessMode(resp) ==
    LET s == resp.supported
    IN  IF cap.only18 /\ cap.sdr104 /\ 3 \in s THEN 3
        ELSE IF cap.only18 /\ cap.sdr50 /\ 2 \in s THEN 2
        ELSE IF cap.only18 /\ cap.ddr50 /\ 4 \in s THEN 4
        ELSE IF 1 \in s THEN 1 ELSE 0
ClockFreq(mode) == <<25, 50, 100, 208, 50>>[mode + 1]

\* The selected function is compared with the access mode asked for.
IfSelected(resp, mode) ==
    IF resp.selected = mode THEN SetClock(ClockFreq(mode)) /\ Succeeds
    ELSE GivesUp /\ UNCHANGED host

\* SdCardSwitchBusWidth once the card has the new width; the host samples at
\* double data rate if it can.  No SWITCH is sent to a card of version 1.
SdCardSwitchBusWidth ==
    /\ pc = "SdStatus"
    /\ Send("R1", SendStatus(rca), LAMBDA s :
            /\ IF s.error THEN GivesUp /\ UNCHANGED host
               ELSE IF ~version1 THEN SetWidth(cap.width, cap.ddr50) /\ pc' = "SdCheck" /\ UNCHANGED result
               ELSE LET mode == AccessMode(switch)
                    IN  IF switch.selected = mode
                        THEN host' = [width |-> cap.width, ddr |-> cap.ddr50,
                                      clock |-> ClockFreq(mode)] /\ Succeeds
                        ELSE SetWidth(cap.width, cap.ddr50) /\ GivesUp
            /\ UNCHANGED <<slot, version1, rca, switch, extCsd, tries>>, GivesUp)

SdCardSwitch ==
    \/ /\ pc = "SdCheck"
       /\ Send("R1", CheckFunc, LAMBDA r : pc' = "SdSet" /\ switch' = r
               /\ UNCHANGED <<host, slot, version1, rca, extCsd, tries, result>>, GivesUp)
    \/ /\ pc = "SdSet"
       /\ Send("R1", SwitchFunc(AccessMode(switch)), LAMBDA r :
               /\ switch' = r /\ IfSelected(r, AccessMode(switch))
               /\ UNCHANGED <<slot, version1, rca, extCsd, tries>>, GivesUp)

-----------------------------------------------------------------------------
(* DwMmcHcEnumerateDevice, and the card.                                   *)

\* Mutant of DwMmcHcReset: the clock stays what it was.
ResetUnclocked == [host EXCEPT !.width = 1, !.ddr = FALSE]

\* DwMmcHcReset: one bit, single data rate, 400 kHz.
DwMmcHcReset == [width |-> 1, ddr |-> FALSE, clock |-> InitClock]

DwMmcHcEnumerateDevice ==
    /\ pc = "off"
    /\ slot.media # (card # NoCard)
    /\ slot' = [slot EXCEPT !.media = (card # NoCard)]
    /\ IF card # NoCard
       THEN /\ host' = DwMmcHcReset
            /\ pc' = "EmmcReset" /\ result' = "none" /\ noisy' = FALSE
       ELSE pc' = pc /\ result' = "none" /\ UNCHANGED <<host, noisy>>
    /\ rca' = 0 /\ version1' = FALSE /\ tries' = 0
    /\ switch' = [supported |-> {}, selected |-> 0] /\ extCsd' = {}
    /\ UNCHANGED <<cap, card>>

InsertCard(c) ==
    /\ card = NoCard /\ pc = "off" /\ ~slot.media
    /\ card' = Idle(c, FALSE)
    /\ UNCHANGED <<cap, host, slot, pc, version1, rca, switch, extCsd, tries, result, noisy>>

PullCard ==
    /\ card # NoCard
    /\ card' = NoCard /\ noisy' = TRUE
    /\ UNCHANGED <<cap, host, slot, pc, version1, rca, switch, extCsd, tries, result>>

CardGetsReady ==
    /\ card # NoCard /\ card.state = "idle" /\ ~card.ready /\ CanGetReady
    /\ card' = [card EXCEPT !.ready = TRUE]
    /\ UNCHANGED <<cap, host, slot, pc, version1, rca, switch, extCsd, tries, result, noisy>>

-----------------------------------------------------------------------------
Init ==
    /\ cap \in Hosts /\ card = NoCard
    /\ host = [width |-> 1, ddr |-> FALSE, clock |-> InitClock]
    /\ slot = [media |-> FALSE, type |-> PlatformCard]
    /\ pc = "off" /\ version1 = FALSE /\ rca = 0 /\ tries = 0
    /\ switch = [supported |-> {}, selected |-> 0] /\ extCsd = {}
    /\ result = "none" /\ noisy = FALSE

EmmcIdentification ==
    \/ EmmcReset \/ EmmcGetOcr \/ EmmcGetAllCid \/ EmmcSetRca \/ EmmcGetCsd \/ EmmcSelect
    \/ EmmcSendStatus \/ EmmcGetExtCsd \/ EmmcSwitchClockFreq \/ EmmcSwitchBusWidth

SdCardIdentification ==
    \/ SdCardReset \/ SdCardVoltageCheck \/ SdCardSendOpCond \/ SdCardAllSendCid
    \/ SdCardSetRca \/ SdCardGetCsd \/ SdCardSelect \/ SdCardGetScr \/ SdCardSetBusWidth
    \/ SdCardSwitchBusWidth \/ SdCardSwitch

Next ==
    \/ EmmcIdentification \/ SdCardIdentification \/ DwMmcHcEnumerateDevice
    \/ \E c \in Cards : InsertCard(c)
    \/ PullCard \/ CardGetsReady

\* The handler runs on once it is called; a card that can become ready does.
Fairness ==
    /\ WF_vars(EmmcIdentification) /\ WF_vars(SdCardIdentification)
    /\ WF_vars(CardGetsReady)

Spec == Init /\ [][Next]_vars /\ Fairness

-----------------------------------------------------------------------------
(* Properties.                                                             *)

\* A card that has not been given an address is clocked at 400 kHz, unless
\* the eMMC routine has given up on it half way.
IdentifiedSlowly ==
    pc # "off" /\ card # NoCard /\ card.state \in {"idle", "ready", "ident"} /\ ~noisy =>
        host.clock = InitClock

\* When a card has been identified the controller drives it as the card was
\* told: the same width and data rate, and no faster than the card can go,
\* whatever was lost on the way.  Not promised for a card taken for one of version
\* 1, nor for double data rate with an SD card or on one bit.
DdrIsTold == cap.ddr50 => card.kind = "Emmc" /\ cap.width # 1
HostMatchesCard ==
    pc = "off" /\ result = "success" /\ card # NoCard /\ ~version1 /\ DdrIsTold =>
        /\ card.state = "tran" /\ card.rca = rca /\ slot.type = card.kind
        /\ host.width = card.width /\ host.ddr = card.ddr /\ host.clock <= MaxClock

\* The type invariant, and that the card is driven as it was told at any time.
DrivenAsTold == TypeOK /\ IdentifiedSlowly /\ HostMatchesCard

\* Every command reaches the card in a state in which it may be sent: while
\* nothing is lost and the card is ready in time, an enumeration fails only for an
\* SD card in a slot of the other type, of version 1, or without the host's width.
Identifiable ==
    /\ ~card.is.version1 /\ cap.width \in card.is.widths
    /\ card.kind = "Sd" => slot.type = "Sd"
CleanRunSucceeds ==
    ~(pc = "off" /\ result = "failed" /\ card # NoCard /\ ~noisy /\ Identifiable)

\* Identification ends, unless an SD card never becomes ready.
Stalled == pc = "SdOpCond" /\ card # NoCard /\ card.state = "idle" /\ ~card.ready /\ ~CanGetReady
EnumerationEnds == []<>(pc = "off" \/ Stalled)
=============================================================================
