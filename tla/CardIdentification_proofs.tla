---------------------- MODULE CardIdentification_proofs ----------------------
(***************************************************************************)
(* That identification leaves the controller driving the card as the card    *)
(* was told, and that it succeeds while nothing is lost.  Both follow from   *)
(* one inductive invariant: what each command of the two routines finds.     *)
(***************************************************************************)
EXTENDS CardIdentification, TLAPS

(* The inductive invariant: what the card and the controller are, at every  *)
(* command of the two routines.                                             *)

CardStates ==
    [kind : {"Sd", "Emmc"}, is : Cards, state : {"idle", "ready", "ident", "stby", "tran"},
     ready : BOOLEAN, told : BOOLEAN, rca : {0, 1, 7}, width : {1, 4, 8}, ddr : BOOLEAN,
     mode : 0 .. 4, error : BOOLEAN]
HostStates == [width : {1, 4, 8}, ddr : BOOLEAN, clock : Nat]
SlotStates == [media : BOOLEAN, type : {"Sd", "Emmc"}]

\* The types, of records too; only a card there is has a state.
Typed ==
    /\ cap \in Hosts /\ host \in HostStates /\ slot \in SlotStates
    /\ card = NoCard \/ (card \in CardStates /\ card.kind = card.is.kind)
    /\ pc \in SdPc \cup EmmcPc \cup {"off"}
    /\ version1 \in BOOLEAN /\ noisy \in BOOLEAN
    /\ rca \in {0, 1, 7} /\ tries \in 0 .. Tries
    /\ switch \in AnyResponse /\ extCsd \in SUBSET AllTypes
    /\ result \in {"none", "success", "failed"}

\* The routine knows the address the card has, and CardType its kind.
Addressed == card.rca = rca /\ slot.type = card.kind

\* The commands that go to a card in its transfer state.
EmmcTran == {"EmmcInTran", "EmmcOneBit", "EmmcOneBitStatus", "EmmcGetExtCsd", "EmmcTiming",
             "EmmcTimingStatus", "EmmcWidth", "EmmcWidthStatus", "EmmcExit"}
SdTran == {"SdGetScr", "SdBusWidth", "SdStatus", "SdCheck", "SdSet"}

\* The controller drives the card as it was told.
Matched ==
    DdrIsTold => host.width = card.width /\ host.ddr = card.ddr /\ host.clock <= MaxClock

\* How far each command of the eMMC routine finds the card and the controller:
\* once CMD1 was answered the card is an eMMC, and every later command finds it in
\* the state it needs.
EmmcStage ==
    /\ pc \in EmmcPc \ {"EmmcReset", "EmmcGetOcr"} => card.kind = "Emmc"
    /\ pc = "EmmcGetAllCid" => card.state = "ready"
    /\ pc = "EmmcSetRca" => card.state = "ident"
    /\ pc \in {"EmmcGetCsd", "EmmcSelect"} => card.state = "stby" /\ Addressed
    /\ pc \in EmmcTran => card.state = "tran" /\ Addressed
    /\ pc \in {"EmmcOneBitStatus", "EmmcGetExtCsd", "EmmcTiming", "EmmcTimingStatus"} =>
          card.width = 1 /\ ~card.ddr
    /\ pc \in {"EmmcGetExtCsd", "EmmcTiming", "EmmcTimingStatus"} =>
          host.width = 1 /\ ~host.ddr
    /\ pc \in {"EmmcTiming", "EmmcTimingStatus", "EmmcWidth", "EmmcWidthStatus"} =>
          extCsd = card.is.types /\ Timing(extCsd).timing = 1
    /\ pc \in {"EmmcTimingStatus", "EmmcWidth", "EmmcWidthStatus"} => card.mode = 1
    /\ pc \in {"EmmcWidth", "EmmcWidthStatus"} => host.clock = Timing(extCsd).clock
    /\ pc = "EmmcWidthStatus" => /\ card.width = cap.width
                                 /\ card.ddr = (cap.width # 1 /\ Timing(extCsd).ddr)
    /\ pc = "EmmcExit" => Matched

\* The same for the SD routine.  With an eMMC's slot type R6 is not awaited, and the
\* routine goes on with address 0.
SdStage ==
    /\ pc \in SdPc \ {"SdReset", "SdVoltageCheck", "SdInquire"} => card.kind = "Sd"
    /\ pc = "SdAllSendCid" => card.state = "ready"
    /\ pc = "SdSetRca" => card.state = "ident"
    /\ pc = "SdGetCsd" =>
          IF slot.type = "Sd" THEN card.state = "stby" /\ card.rca = rca
          ELSE rca = 0 /\ (card.state = "ident" \/ card.rca = 7)
    /\ pc = "SdSelect" => card.state = "stby" /\ Addressed
    /\ pc \in SdTran => card.state = "tran" /\ Addressed
    /\ pc = "SdStatus" => card.error \/ card.width = cap.width
    /\ pc \in {"SdCheck", "SdSet"} =>
          /\ card.width = cap.width /\ host.width = cap.width /\ host.ddr = cap.ddr50
          /\ ~version1

\* Only an SD card reports an error the routine can leave unread; between two
\* identifications a new card is as it was inserted.
KindInv ==
    /\ card.kind = "Emmc" => ~card.error
    /\ card.kind = "Sd" /\ pc # "off" => ~card.ddr /\ card.mode = 0
    /\ pc = "off" /\ ~slot.media => card.state = "idle" /\ ~card.error /\ ~card.ddr /\ card.mode = 0
\* The clock is 400 kHz until the eMMC routine raises it, and in the SD routine
\* unless the eMMC one lost something on the way to it.
Clocked ==
    /\ pc \in EmmcPc \ {"EmmcWidth", "EmmcWidthStatus", "EmmcExit"} => host.clock = InitClock
    /\ pc \in SdPc => host.clock = InitClock \/ noisy
\* A routine runs only for a card noticed, and the attempts with CMD1 are not
\* used up while it waits.
Counted ==
    /\ pc # "off" => slot.media /\ (card = NoCard => noisy)
    /\ pc = "EmmcGetOcr" => tries > 0
    /\ pc = "off" /\ ~slot.media => result = "none"

\* While nothing was lost: an eMMC never reaches the SD routine, and an SD card that
\* can be identified is not taken for one of version 1, nor found in error.
Clean ==
    ~noisy =>
        /\ card.kind = "Emmc" =>
             /\ pc \in EmmcPc \cup {"off"}
             /\ pc \in {"EmmcReset", "EmmcGetOcr"} => card.state = "idle"
             /\ pc = "off" => result # "failed"
        /\ card.kind = "Sd" =>
             /\ pc \in {"EmmcReset", "EmmcGetOcr", "SdReset", "SdVoltageCheck", "SdInquire",
                         "SdOpCond"} => card.state = "idle"
             /\ pc \in SdPc \ {"SdReset", "SdVoltageCheck"} /\ Identifiable => ~version1
             /\ pc # "off" /\ Identifiable => ~card.error
             /\ pc = "SdBusWidth" => cap.width \in card.is.widths
             /\ pc = "SdSet" /\ Identifiable => switch.supported = card.is.functions
             /\ pc = "off" /\ Identifiable => result # "failed"

IInv ==
    /\ Typed /\ Counted /\ Clocked /\ HostMatchesCard
    /\ card # NoCard => EmmcStage /\ SdStage /\ KindInv /\ Clean

-----------------------------------------------------------------------------
(* What a command comes to.                                                 *)

\* A command that is lost leaves the card as it was or as its reply has it.
LEMMA LostLeaves == ASSUME NEW reply PROVE LostWith(reply) \subseteq {card, reply.card}
BY DEF LostWith

\* When a response is awaited all is well only if the card gave it.
LEMMA ExchangeAwaited ==
    ASSUME NEW type, NEW reply, NEW x \in Exchange(type, reply), Awaited(type),
           reply.heard \in BOOLEAN
    PROVE  /\ x.ok \in BOOLEAN /\ x.lost \in BOOLEAN
           /\ x.card \in {card, reply.card}
           /\ x.ok => reply.heard /\ x.card = reply.card /\ x.r = reply.r /\ ~x.lost
           /\ ~x.ok /\ ~x.lost => ~reply.heard /\ x.card = reply.card
<1>1. \/ x = [ok |-> reply.heard, card |-> reply.card, r |-> reply.r, lost |-> FALSE]
      \/ \E c \in LostWith(reply) : x = [ok |-> FALSE, card |-> c, r |-> reply.r, lost |-> TRUE]
  BY Z3 DEF Exchange
<1>2. CASE x = [ok |-> reply.heard, card |-> reply.card, r |-> reply.r, lost |-> FALSE]
  BY <1>2, Z3
<1>3. ASSUME NEW c \in LostWith(reply),
             x = [ok |-> FALSE, card |-> c, r |-> reply.r, lost |-> TRUE]
      PROVE  x.ok = FALSE /\ x.lost = TRUE /\ x.card \in {card, reply.card}
  BY <1>3, LostLeaves, Z3
<1> QED BY <1>1, <1>2, <1>3

\* When none is awaited all is well, and nothing is learnt.
LEMMA ExchangeUnawaited ==
    ASSUME NEW type, NEW reply, NEW x \in Exchange(type, reply), ~Awaited(type)
    PROVE  /\ x.ok = TRUE /\ x.r = 0 /\ x.card \in {card, reply.card}
           /\ x.lost \in BOOLEAN /\ (~x.lost => x.card = reply.card)
<1>1. \/ x = [ok |-> TRUE, card |-> reply.card, r |-> 0, lost |-> FALSE]
      \/ \E c \in LostWith(reply) : x = [ok |-> TRUE, card |-> c, r |-> 0, lost |-> TRUE]
  BY Z3 DEF Exchange
<1>2. CASE x = [ok |-> TRUE, card |-> reply.card, r |-> 0, lost |-> FALSE]
  BY <1>2, Z3
<1>3. ASSUME NEW c \in LostWith(reply), x = [ok |-> TRUE, card |-> c, r |-> 0, lost |-> TRUE]
      PROVE  x.ok = TRUE /\ x.r = 0 /\ x.lost = TRUE /\ x.card \in {card, reply.card}
  BY <1>3, LostLeaves, Z3
<1> QED BY <1>1, <1>2, <1>3

-----------------------------------------------------------------------------
(* The card's replies: when it answers, and what it is then.  One that does *)
(* not answer stays as it is, except for CMD0.                              *)

\* CMD0 reaches every card, and is answered by none.
LEMMA GoIdleReply ==
    ASSUME Typed
    PROVE  /\ card = NoCard => GoIdle.card = card
           /\ card # NoCard => GoIdle.card = Idle(card.is, FALSE)
BY DEF GoIdle, If, Silent

\* A card just reset or inserted is one.
LEMMA IdleTyped ==
    ASSUME NEW c \in Cards, NEW ready \in BOOLEAN
    PROVE  Idle(c, ready) \in CardStates
BY IdentificationAssumption DEF Idle, CardStates, CardKinds

\* CMD8: an idle SD card of version 2 echoes the pattern.
LEMMA SendIfCondReply ==
    ASSUME NEW pattern
    PROVE  LET a == SendIfCond(pattern)
           IN  /\ a.heard \in BOOLEAN
               /\ a.heard <=> card # NoCard /\ card.kind = "Sd" /\ card.state = "idle"
                              /\ ~card.is.version1
               /\ a.heard => a.r = pattern /\ a.card = [card EXCEPT !.told = TRUE]
               /\ ~a.heard => a.card = card
BY DEF SendIfCond, If, In, Says, Silent

\* ACMD41: an idle SD card answers, and with a voltage becomes ready if it can.
LEMMA SdSendOpCondReply ==
    ASSUME NEW voltage
    PROVE  LET a == SdSendOpCond(voltage)
           IN  /\ a.heard \in BOOLEAN
               /\ a.heard <=> card # NoCard /\ card.kind = "Sd" /\ card.state = "idle"
               /\ a.heard =>
                     /\ a.r = card.ready
                     /\ a.card = IF voltage = 1 /\ card.ready
                                 THEN [card EXCEPT !.state = "ready"] ELSE card
               /\ ~a.heard => a.card = card
BY DEF SdSendOpCond, GetsReady, If, In, Says, Silent

\* CMD1: an idle eMMC answers, and becomes ready if it can.
LEMMA SendOpCondReply ==
    LET a == SendOpCond
    IN  /\ a.heard \in BOOLEAN
        /\ a.heard <=> card # NoCard /\ card.kind = "Emmc" /\ card.state = "idle"
        /\ a.heard =>
              /\ a.r = card.ready
              /\ a.card = IF card.ready THEN [card EXCEPT !.state = "ready"] ELSE card
        /\ ~a.heard => a.card = card
BY DEF SendOpCond, GetsReady, If, In, Says, Silent

\* CMD2: a card that is ready goes on to be identified.
LEMMA AllSendCidReply ==
    LET a == AllSendCid
    IN  /\ a.heard \in BOOLEAN
        /\ a.heard <=> card # NoCard /\ card.state = "ready"
        /\ a.heard => a.card = [card EXCEPT !.state = "ident"]
        /\ ~a.heard => a.card = card
BY DEF AllSendCid, If, Says, Silent

\* CMD3: an SD card names its address, an eMMC is given one.
LEMMA SetRelativeAddrReply ==
    ASSUME NEW asked
    PROVE  LET a == SetRelativeAddr(asked)
           IN  /\ a.heard \in BOOLEAN
               /\ a.heard <=> card # NoCard /\ card.state = "ident"
               /\ a.heard /\ card.kind = "Sd" =>
                     a.r = 7 /\ a.card = [card EXCEPT !.state = "stby", !.rca = 7]
               /\ a.heard /\ card.kind # "Sd" =>
                     a.r = asked /\ a.card = [card EXCEPT !.state = "stby", !.rca = asked]
               /\ ~a.heard => a.card = card
BY DEF SetRelativeAddr, If, Says, Silent

\* CMD9: a card in stand-by answers to its own address.
LEMMA SendCsdReply ==
    ASSUME NEW to
    PROVE  LET a == SendCsd(to)
           IN  /\ a.heard \in BOOLEAN
               /\ a.heard <=> card # NoCard /\ card.state = "stby" /\ card.rca = to
               /\ a.card = card
BY DEF SendCsd, If, Says, Silent

\* CMD7: and is selected by it.
LEMMA SelectReply ==
    ASSUME NEW to
    PROVE  LET a == Select(to)
           IN  /\ a.heard \in BOOLEAN
               /\ a.heard <=> card # NoCard /\ card.state = "stby" /\ card.rca = to
               /\ a.heard => a.card = [card EXCEPT !.state = "tran"]
               /\ ~a.heard => a.card = card
BY DEF Select, If, Says, Silent

\* CMD13: the state and the error, which is forgotten with that.
LEMMA SendStatusReply ==
    ASSUME NEW to
    PROVE  LET a == SendStatus(to)
           IN  /\ a.heard \in BOOLEAN
               /\ a.heard <=> card # NoCard /\ card.state \in {"stby", "tran"} /\ card.rca = to
               /\ a.heard => /\ a.r.tran <=> card.state = "tran"
                             /\ a.r.error = card.error
                             /\ a.card = [card EXCEPT !.error = FALSE]
               /\ ~a.heard => a.card = card
BY DEF SendStatus, If, Says, Silent

\* ACMD51: the widths an SD card knows.
LEMMA SendScrReply ==
    LET a == SendScr
    IN  /\ a.heard \in BOOLEAN
        /\ a.heard <=> card # NoCard /\ card.kind = "Sd" /\ card.state = "tran"
        /\ a.heard => a.r = card.is.widths \cap {1, 4}
        /\ a.card = card
BY DEF SendScr, If, In, Says, Silent

\* ACMD6: a width the SD card knows, or an error.
LEMMA SetBusWidthReply ==
    ASSUME NEW w
    PROVE  LET a == SetBusWidth(w)
           IN  /\ a.heard \in BOOLEAN
               /\ a.heard <=> card # NoCard /\ card.kind = "Sd" /\ card.state = "tran"
               /\ a.heard => a.card = IF w \in card.is.widths THEN [card EXCEPT !.width = w]
                                      ELSE [card EXCEPT !.error = TRUE]
               /\ ~a.heard => a.card = card
BY DEF SetBusWidth, If, In, Says, Silent

\* CMD6 to check: the functions an SD card of version 2 supports.
LEMMA CheckFuncReply ==
    LET a == CheckFunc
    IN  /\ a.heard \in BOOLEAN
        /\ a.heard <=> card # NoCard /\ card.kind = "Sd" /\ card.state = "tran" /\ ~card.is.version1
        /\ a.heard => a.r = [supported |-> card.is.functions, selected |-> card.mode]
        /\ a.card = card
BY DEF CheckFunc, If, In, Says, Silent

\* CMD6 to switch: the access mode, if the card supports it.
LEMMA SwitchFuncReply ==
    ASSUME NEW mode
    PROVE  LET a == SwitchFunc(mode)
               takes == mode \in card.is.functions
           IN  /\ a.heard \in BOOLEAN
               /\ a.heard <=> card # NoCard /\ card.kind = "Sd" /\ card.state = "tran"
                              /\ ~card.is.version1
               /\ a.heard =>
                     /\ a.r = [supported |-> card.is.functions,
                               selected |-> IF takes THEN mode ELSE 15]
                     /\ a.card = IF takes THEN [card EXCEPT !.mode = mode, !.ddr = (mode = 4)]
                                 ELSE card
               /\ ~a.heard => a.card = card
BY DEF SwitchFunc, If, In, Says, Silent

\* CMD8 of an eMMC: its types.
LEMMA SendExtCsdReply ==
    LET a == SendExtCsd
    IN  /\ a.heard \in BOOLEAN
        /\ a.heard <=> card # NoCard /\ card.kind = "Emmc" /\ card.state = "tran"
        /\ a.heard => a.r = card.is.types
        /\ a.card = card
BY DEF SendExtCsd, If, In, Says, Silent

\* CMD6 of an eMMC: high speed, if it has any type at all.
LEMMA SwitchTimingReply ==
    LET a == SwitchTiming
    IN  /\ a.heard \in BOOLEAN
        /\ a.heard <=> card # NoCard /\ card.kind = "Emmc" /\ card.state = "tran"
        /\ a.heard => a.card = IF card.is.types = {} THEN [card EXCEPT !.error = TRUE]
                               ELSE [card EXCEPT !.mode = 1]
        /\ ~a.heard => a.card = card
BY DEF SwitchTiming, If, In, Says, Silent

\* CMD6 of an eMMC: the width and data rate.
LEMMA SwitchWidthReply ==
    ASSUME NEW w, NEW ddr
    PROVE  LET a == SwitchWidth(w, ddr)
           IN  /\ a.heard \in BOOLEAN
               /\ a.heard <=> card # NoCard /\ card.kind = "Emmc" /\ card.state = "tran"
               /\ a.heard => a.card = IF w \in card.is.widths
                                      THEN [card EXCEPT !.width = w, !.ddr = ddr]
                                      ELSE [card EXCEPT !.error = TRUE]
               /\ ~a.heard => a.card = card
BY DEF SwitchWidth, If, In, Says, Silent

-----------------------------------------------------------------------------
(* A routine that gives up.                                                 *)

\* The eMMC routine hands over to that for SD cards; unless something was
\* lost, because it met an SD card that is still idle.
LEMMA EmmcGivesUp ==
    ASSUME IInv, pc \in EmmcPc \ {"EmmcReset"}, GivesUp,
           UNCHANGED <<cap, host, slot, version1, rca, switch, extCsd>>,
           tries' \in 0 .. Tries, noisy' \in BOOLEAN, noisy => noisy',
           \/ card' = NoCard /\ card = NoCard
           \/ /\ card # NoCard /\ card' # NoCard /\ card' \in CardStates
              /\ card'.kind = card.kind /\ card'.is = card.is
              /\ IF card.kind = "Emmc" THEN noisy' /\ ~card'.error
                 ELSE card' = card
    PROVE  IInv'
<1>1. pc' = "SdReset" /\ result' = result /\ (host.clock = InitClock \/ noisy')
  <2>1. pc \in {"EmmcWidth", "EmmcWidthStatus", "EmmcExit"} => noisy'
    BY DEF IInv, Counted, EmmcStage, EmmcPc
  <2> QED BY <2>1 DEF IInv, GivesUp, Clocked
<1>2. Typed' /\ Counted' /\ Clocked' /\ HostMatchesCard'
  BY <1>1 DEF IInv, Typed, Counted, Clocked, HostMatchesCard, SdPc, EmmcPc
<1>3. ASSUME card' # NoCard
      PROVE  EmmcStage' /\ SdStage' /\ KindInv'
  BY <1>1, <1>3 DEF IInv, Typed, EmmcStage, SdStage, KindInv, SdPc, EmmcPc, SdTran, EmmcTran
<1>4. ASSUME card' # NoCard
      PROVE  Clean'
  BY <1>1, <1>4 DEF IInv, Typed, EmmcStage, Clean, KindInv, SdPc, EmmcPc, Identifiable
<1> QED BY <1>2, <1>3, <1>4 DEF IInv

\* The SD routine fails, and with it the enumeration; unless something was lost,
\* because the card is not one that can be identified.
LEMMA SdGivesUp ==
    ASSUME IInv, pc \in SdPc, GivesUp,
           UNCHANGED <<cap, version1, rca, extCsd, tries>>,
           host' \in HostStates, slot' \in SlotStates, slot'.media, switch' \in AnyResponse,
           noisy' \in BOOLEAN, noisy => noisy',
           \/ card' = NoCard /\ card = NoCard
           \/ /\ card # NoCard /\ card' # NoCard /\ card' \in CardStates
              /\ card'.kind = card.kind /\ card'.is = card.is
              /\ IF card.kind = "Emmc" THEN ~card'.error
                 ELSE noisy' \/ ~Identifiable'
    PROVE  IInv'
<1>1. pc' = "off" /\ result' = "failed"
  BY DEF GivesUp, SdPc, EmmcPc
<1>2. Typed' /\ Counted' /\ Clocked' /\ HostMatchesCard'
  BY <1>1 DEF IInv, Typed, Counted, Clocked, HostMatchesCard, SdPc, EmmcPc
<1>3. ASSUME card' # NoCard
      PROVE  EmmcStage' /\ SdStage' /\ KindInv'
  BY <1>1, <1>3 DEF IInv, EmmcStage, SdStage, KindInv, SdPc, EmmcPc, SdTran, EmmcTran
<1>4. ASSUME card' # NoCard
      PROVE  Clean'
  BY <1>1, <1>4 DEF IInv, Clean, CardStates, SdPc, EmmcPc
<1> QED BY <1>2, <1>3, <1>4 DEF IInv

\* The slot's capability, and so the width asked for, is one there is.
LEMMA HostsTyped == ASSUME Typed PROVE cap \in HostCapabilities /\ cap.width \in {1, 4, 8}
BY IdentificationAssumption DEF Typed, HostCapabilities

\* What setting the width and the clock changes of the controller.
LEMMA HostWidthSet ==
    ASSUME NEW h \in HostStates, NEW w \in {1, 4, 8}, NEW d \in BOOLEAN
    PROVE  LET g == [h EXCEPT !.width = w, !.ddr = d]
           IN  g \in HostStates /\ g.width = w /\ g.ddr = d /\ g.clock = h.clock
BY DEF HostStates

\* And setting the clock.
LEMMA HostClockSet ==
    ASSUME NEW h \in HostStates, NEW mhz \in Nat
    PROVE  LET g == [h EXCEPT !.clock = mhz]
           IN  g \in HostStates /\ g.width = h.width /\ g.ddr = h.ddr /\ g.clock = mhz
BY DEF HostStates

\* The timing chosen: high speed only for a card of some type, at a clock it can
\* take, and double data rate only if the slot has it.
LEMMA TimingChosen ==
    ASSUME NEW types \in SUBSET AllTypes
    PROVE  LET t == Timing(types)
           IN  /\ t.ddr \in BOOLEAN /\ (t.ddr => cap.ddr50) /\ t.clock \in Nat
               /\ t.timing = 1 =>
                     /\ types # {}
                     /\ t.clock <= IF types \cap {"HS52", "DDR52"} # {} THEN 52 ELSE 26
BY DEF Timing, AllTypes

\* What reading the status changes of a card.
LEMMA StatusRead ==
    ASSUME NEW c \in CardStates, NEW d, d = [c EXCEPT !.error = FALSE]
    PROVE  /\ d \in CardStates /\ d # NoCard /\ d.error = FALSE
           /\ d.kind = c.kind /\ d.is = c.is /\ d.state = c.state /\ d.rca = c.rca
           /\ d.width = c.width /\ d.ddr = c.ddr /\ d.mode = c.mode
BY DEF CardStates, NoCard

\* While the eMMC routine is past CMD1 the card in the slot is an eMMC.
LEMMA EmmcHere ==
    ASSUME IInv, pc \in EmmcPc \ {"EmmcReset", "EmmcGetOcr"}, card # NoCard
    PROVE  /\ card \in CardStates /\ card.kind = "Emmc" /\ ~card.error
           /\ card.is \in CardKinds /\ card.is.kind = "Emmc" /\ card.is.widths = {1, 4, 8}
<1>1. card \in CardStates /\ card.kind = "Emmc" /\ ~card.error /\ card.is.kind = "Emmc"
  BY DEF IInv, Typed, EmmcStage, KindInv
<1>2. card.is \in Cards
  BY <1>1 DEF CardStates
<1> QED BY <1>1, <1>2, IdentificationAssumption

\* A command of the eMMC routine that its card, if still there, answers: it has
\* an answer only if the card is there, nothing was lost and the card is as the
\* reply has it, and without one the routine gives up.
LEMMA EmmcCommand ==
    ASSUME IInv, pc \in EmmcPc \ {"EmmcReset", "EmmcGetOcr"},
           NEW type, Awaited(type), NEW reply, NEW x \in Exchange(type, reply),
           card' = x.card, noisy' = (noisy \/ x.lost), reply.heard \in BOOLEAN,
           IF card = NoCard THEN ~reply.heard /\ reply.card = card
           ELSE /\ reply.heard /\ reply.card \in CardStates /\ reply.card # NoCard
                /\ reply.card.kind = card.kind /\ reply.card.is = card.is /\ ~reply.card.error
    PROVE  /\ x.ok => /\ card # NoCard /\ card' = reply.card /\ card' \in CardStates
                      /\ card' # NoCard /\ card'.kind = "Emmc" /\ card'.is = card.is
                      /\ ~card'.error /\ noisy' = noisy /\ x.r = reply.r
           /\ ~x.ok /\ GivesUp /\ UNCHANGED <<cap, host, slot, version1, rca, switch, extCsd, tries>>
                 => IInv'
<1>1. card # NoCard => card.kind = "Emmc" /\ ~card.error /\ card \in CardStates
  BY EmmcHere
<1>2. CASE x.ok
  BY <1>1, <1>2, ExchangeAwaited DEF IInv, Typed
<1>3. CASE ~x.ok
  <2>1. /\ card = NoCard => card' = NoCard /\ noisy' \in BOOLEAN /\ (noisy => noisy')
        /\ card # NoCard => noisy' /\ noisy' \in BOOLEAN /\ card' \in {card, reply.card}
    BY <1>3, ExchangeAwaited DEF IInv, Typed
  <2> SUFFICES ASSUME GivesUp,
                      UNCHANGED <<cap, host, slot, version1, rca, switch, extCsd, tries>>
               PROVE  IInv'
    BY <1>3
  <2>2. tries' \in 0 .. Tries
    BY DEF IInv, Typed
  <2> QED BY <1>1, <2>1, <2>2, EmmcGivesUp
<1> QED BY <1>2, <1>3

\* A response to CMD6 is one of the typed ones.
LEMMA ResponseTyped ==
    ASSUME NEW f \in SUBSET AllFunctions, NEW m \in AllFunctions \cup {15}
    PROVE  LET r == [supported |-> f, selected |-> m]
           IN  r \in AnyResponse /\ r.supported = f /\ r.selected = m
BY DEF AnyResponse

\* The width asked for, under the invariant.
LEMMA CapWidth == ASSUME IInv PROVE cap.width \in {1, 4, 8}
BY HostsTyped DEF IInv

\* While the SD routine is past CMD8 and ACMD41 was answered, the card is of SD.
LEMMA SdHere ==
    ASSUME IInv, pc \in SdPc, card # NoCard
    PROVE  /\ card \in CardStates /\ (card.kind = "Emmc" => ~card.error)
           /\ card.is \in CardKinds /\ card.is.kind = card.kind
           /\ card.kind = "Sd" => /\ ~card.ddr /\ card.mode = 0
                                  /\ card.is.widths \subseteq {1, 4} /\ 0 \in card.is.functions
<1>1. card \in CardStates /\ card.kind = card.is.kind
  BY DEF IInv, Typed
<1>2. card.is \in Cards /\ card.kind \in {"Sd", "Emmc"}
  BY <1>1 DEF CardStates
<1>3. pc # "off"
  BY DEF SdPc
<1> QED BY <1>1, <1>2, <1>3, IdentificationAssumption DEF IInv, KindInv

\* A command of the SD routine: without an answer the routine gives up, unless
\* something was lost because the card is not one that can be identified.
LEMMA SdCommand ==
    ASSUME IInv, pc \in SdPc,
           NEW type, Awaited(type), NEW reply, NEW x \in Exchange(type, reply),
           card' = x.card, noisy' = (noisy \/ x.lost), reply.heard \in BOOLEAN,
           IF card = NoCard THEN ~reply.heard /\ reply.card = card
           ELSE /\ reply.card \in CardStates /\ reply.card # NoCard
                /\ reply.card.kind = card.kind /\ reply.card.is = card.is
                /\ IF card.kind = "Emmc" THEN ~reply.card.error
                   ELSE reply.heard \/ ~Identifiable \/ noisy
    PROVE  /\ x.ok => /\ card # NoCard /\ reply.heard /\ card' = reply.card
                      /\ card' \in CardStates /\ card' # NoCard
                      /\ card'.kind = card.kind /\ card'.is = card.is
                      /\ noisy' = noisy /\ x.r = reply.r
           /\ ~x.ok /\ GivesUp /\ UNCHANGED <<cap, host, slot, version1, rca, switch, extCsd, tries>>
                 => IInv'
<1>1. card # NoCard => card \in CardStates /\ (card.kind = "Emmc" => ~card.error)
  BY SdHere
<1>2. CASE x.ok
  BY <1>1, <1>2, ExchangeAwaited DEF IInv, Typed
<1>3. CASE ~x.ok
  <2>1. /\ card = NoCard => card' = NoCard
        /\ card # NoCard => /\ card' \in {card, reply.card} /\ card' \in CardStates /\ card' # NoCard
                            /\ card'.kind = card.kind /\ card'.is = card.is
                            /\ card.kind = "Emmc" => ~card'.error
                            /\ card.kind # "Emmc" => noisy' \/ ~Identifiable
        /\ noisy' \in BOOLEAN /\ (noisy => noisy')
    BY <1>1, <1>3, ExchangeAwaited DEF IInv, Typed
  <2> SUFFICES ASSUME GivesUp,
                      UNCHANGED <<cap, host, slot, version1, rca, switch, extCsd, tries>>
               PROVE  IInv'
    BY <1>3
  <2>2. card # NoCard => Identifiable' = Identifiable
    BY <2>1 DEF Identifiable
  <2>3. host' \in HostStates /\ slot' \in SlotStates /\ slot'.media /\ switch' \in AnyResponse
    BY DEF IInv, Typed, Counted, SdPc
  <2> QED BY <1>1, <2>1, <2>2, <2>3, SdGivesUp
<1> QED BY <1>2, <1>3

\* The eMMC routine, command by command.
LEMMA EmmcGetAllCidKeeps ==
    ASSUME IInv, EmmcGetAllCid
    PROVE  IInv'
<1> DEFINE a == AllSendCid
<1>1. PICK x \in Exchange("R2", a) :
        /\ card' = x.card /\ noisy' = (noisy \/ x.lost)
        /\ IF x.ok THEN pc' = "EmmcSetRca" /\ result' = result
           ELSE GivesUp
        /\ UNCHANGED <<cap, host, slot, version1, rca, switch, extCsd, tries>>
  BY DEF EmmcGetAllCid, Send, GoOn, rest
<1>2. pc = "EmmcGetAllCid" /\ Awaited("R2")
  BY DEF EmmcGetAllCid, Awaited
<1>3. card # NoCard => card \in CardStates /\ card.kind = "Emmc" /\ ~card.error
  BY <1>2, EmmcHere DEF EmmcPc
<1>4. /\ a.heard \in BOOLEAN
      /\ IF card = NoCard THEN ~a.heard /\ a.card = card
         ELSE /\ a.heard
              /\ a.card = [card EXCEPT !.state = "ident"]
  BY <1>2, <1>3, AllSendCidReply DEF IInv, EmmcStage, Addressed, EmmcTran
<1> HIDE DEF a
<1>5. card # NoCard =>
        LET c == a.card
        IN  c \in CardStates /\ c # NoCard /\ c.kind = card.kind /\ c.is = card.is /\ ~c.error
  BY <1>3, <1>4 DEF CardStates, NoCard
<1>6. CASE x.ok
  <2>1. /\ card # NoCard /\ card' = [card EXCEPT !.state = "ident"]
        /\ card' \in CardStates /\ card' # NoCard
        /\ card'.kind = "Emmc" /\ card'.is = card.is /\ ~card'.error
        /\ noisy' = noisy /\ x.r = a.r
    BY <1>1, <1>2, <1>4, <1>5, <1>6, EmmcCommand DEF EmmcPc
  <2> QED BY <1>1, <1>2, <1>4, <1>6, <2>1
      DEF IInv, Typed, Counted, Clocked, HostMatchesCard, EmmcStage, SdStage, KindInv, Clean,
         Addressed, SdPc, EmmcPc, SdTran, EmmcTran, Identifiable, CardStates
<1>7. CASE ~x.ok
  BY <1>1, <1>2, <1>4, <1>5, <1>7, EmmcCommand DEF EmmcPc
<1> QED BY <1>6, <1>7

\* CMD9, with the address the card was given.
LEMMA EmmcGetCsdKeeps ==
    ASSUME IInv, EmmcGetCsd
    PROVE  IInv'
<1> DEFINE a == SendCsd(rca)
<1>1. PICK x \in Exchange("R2", a) :
        /\ card' = x.card /\ noisy' = (noisy \/ x.lost)
        /\ IF x.ok THEN pc' = "EmmcSelect" /\ result' = result
           ELSE GivesUp
        /\ UNCHANGED <<cap, host, slot, version1, rca, switch, extCsd, tries>>
  BY DEF EmmcGetCsd, Send, GoOn, rest
<1>2. pc = "EmmcGetCsd" /\ Awaited("R2")
  BY DEF EmmcGetCsd, Awaited
<1>3. card # NoCard => card \in CardStates /\ card.kind = "Emmc" /\ ~card.error
  BY <1>2, EmmcHere DEF EmmcPc
<1>4. /\ a.heard \in BOOLEAN
      /\ IF card = NoCard THEN ~a.heard /\ a.card = card
         ELSE /\ a.heard
              /\ a.card = card
  BY <1>2, <1>3, SendCsdReply DEF IInv, EmmcStage, Addressed, EmmcTran
<1> HIDE DEF a
<1>5. card # NoCard =>
        LET c == a.card
        IN  c \in CardStates /\ c # NoCard /\ c.kind = card.kind /\ c.is = card.is /\ ~c.error
  BY <1>3, <1>4 DEF CardStates, NoCard
<1>6. CASE x.ok
  <2>1. /\ card # NoCard /\ card' = card
        /\ card' \in CardStates /\ card' # NoCard
        /\ card'.kind = "Emmc" /\ card'.is = card.is /\ ~card'.error
        /\ noisy' = noisy /\ x.r = a.r
    BY <1>1, <1>2, <1>4, <1>5, <1>6, EmmcCommand DEF EmmcPc
  <2> QED BY <1>1, <1>2, <1>4, <1>6, <2>1
      DEF IInv, Typed, Counted, Clocked, HostMatchesCard, EmmcStage, SdStage, KindInv, Clean,
         Addressed, SdPc, EmmcPc, SdTran, EmmcTran, Identifiable, CardStates
<1>7. CASE ~x.ok
  BY <1>1, <1>2, <1>4, <1>5, <1>7, EmmcCommand DEF EmmcPc
<1> QED BY <1>6, <1>7

\* CMD7, which brings it to the transfer state.
LEMMA EmmcSelectKeeps ==
    ASSUME IInv, EmmcSelect
    PROVE  IInv'
<1> DEFINE a == Select(rca)
<1>1. PICK x \in Exchange("R1", a) :
        /\ card' = x.card /\ noisy' = (noisy \/ x.lost)
        /\ IF x.ok THEN pc' = "EmmcInTran" /\ result' = result
           ELSE GivesUp
        /\ UNCHANGED <<cap, host, slot, version1, rca, switch, extCsd, tries>>
  BY DEF EmmcSelect, Send, GoOn, rest
<1>2. pc = "EmmcSelect" /\ Awaited("R1")
  BY DEF EmmcSelect, Awaited
<1>3. card # NoCard => card \in CardStates /\ card.kind = "Emmc" /\ ~card.error
  BY <1>2, EmmcHere DEF EmmcPc
<1>4. /\ a.heard \in BOOLEAN
      /\ IF card = NoCard THEN ~a.heard /\ a.card = card
         ELSE /\ a.heard
              /\ a.card = [card EXCEPT !.state = "tran"]
  BY <1>2, <1>3, SelectReply DEF IInv, EmmcStage, Addressed, EmmcTran
<1> HIDE DEF a
<1>5. card # NoCard =>
        LET c == a.card
        IN  c \in CardStates /\ c # NoCard /\ c.kind = card.kind /\ c.is = card.is /\ ~c.error
  BY <1>3, <1>4 DEF CardStates, NoCard
<1>6. CASE x.ok
  <2>1. /\ card # NoCard /\ card' = [card EXCEPT !.state = "tran"]
        /\ card' \in CardStates /\ card' # NoCard
        /\ card'.kind = "Emmc" /\ card'.is = card.is /\ ~card'.error
        /\ noisy' = noisy /\ x.r = a.r
    BY <1>1, <1>2, <1>4, <1>5, <1>6, EmmcCommand DEF EmmcPc
  <2> QED BY <1>1, <1>2, <1>4, <1>6, <2>1
      DEF IInv, Typed, Counted, Clocked, HostMatchesCard, EmmcStage, SdStage, KindInv, Clean,
         Addressed, SdPc, EmmcPc, SdTran, EmmcTran, Identifiable, CardStates
<1>7. CASE ~x.ok
  BY <1>1, <1>2, <1>4, <1>5, <1>7, EmmcCommand DEF EmmcPc
<1> QED BY <1>6, <1>7

\* CMD3 gives the card its address and the slot its type.
LEMMA EmmcSetRcaKeeps ==
    ASSUME IInv, EmmcSetRca
    PROVE  IInv'
<1> DEFINE a == SetRelativeAddr(1)
<1>1. PICK x \in Exchange("R1", a) :
        /\ card' = x.card /\ noisy' = (noisy \/ x.lost)
        /\ IF x.ok THEN /\ pc' = "EmmcGetCsd" /\ result' = result
                        /\ rca' = 1 /\ slot' = [slot EXCEPT !.type = "Emmc"]
           ELSE GivesUp /\ UNCHANGED <<slot, rca>>
        /\ UNCHANGED <<cap, host, version1, switch, extCsd, tries>>
  BY DEF EmmcSetRca, Send
<1>2. pc = "EmmcSetRca" /\ Awaited("R1")
  BY DEF EmmcSetRca, Awaited
<1>3. card # NoCard => card \in CardStates /\ card.kind = "Emmc" /\ ~card.error
  BY <1>2, EmmcHere DEF EmmcPc
<1>4. /\ a.heard \in BOOLEAN
      /\ IF card = NoCard THEN ~a.heard /\ a.card = card
         ELSE /\ a.heard
              /\ a.card = [card EXCEPT !.state = "stby", !.rca = 1]
  BY <1>2, <1>3, SetRelativeAddrReply DEF IInv, EmmcStage, Addressed, EmmcTran
<1> HIDE DEF a
<1>5. card # NoCard =>
        LET c == a.card
        IN  c \in CardStates /\ c # NoCard /\ c.kind = card.kind /\ c.is = card.is /\ ~c.error
  BY <1>3, <1>4, ZenonT(60) DEF CardStates, NoCard
<1>6. CASE x.ok
  <2>1. /\ card # NoCard /\ card' = [card EXCEPT !.state = "stby", !.rca = 1]
        /\ card' \in CardStates /\ card' # NoCard
        /\ card'.kind = "Emmc" /\ card'.is = card.is /\ ~card'.error
        /\ noisy' = noisy /\ x.r = a.r
    BY <1>1, <1>2, <1>4, <1>5, <1>6, EmmcCommand DEF EmmcPc
  <2> QED BY <1>1, <1>2, <1>4, <1>6, <2>1
      DEF IInv, Typed, Counted, Clocked, HostMatchesCard, EmmcStage, SdStage, KindInv, Clean,
         Addressed, SdPc, EmmcPc, SdTran, EmmcTran, Identifiable, CardStates, SlotStates
<1>7. CASE ~x.ok
  BY <1>1, <1>2, <1>4, <1>5, <1>7, EmmcCommand DEF EmmcPc
<1> QED BY <1>6, <1>7

\* CMD13 until the transfer state is reached.
LEMMA EmmcInTranKeeps ==
    ASSUME IInv, EmmcSendStatus, pc = "EmmcInTran"
    PROVE  IInv'
<1> DEFINE a == SendStatus(rca)
<1>1. PICK x \in Exchange("R1", a) :
        /\ card' = x.card /\ noisy' = (noisy \/ x.lost)
        /\ IF x.ok THEN pc' = (IF x.r.tran THEN "EmmcOneBit" ELSE pc) /\ result' = result
           ELSE GivesUp
        /\ UNCHANGED <<cap, host, slot, version1, rca, switch, extCsd, tries>>
  BY DEF EmmcSendStatus, Send, GoOn, rest
<1>2. pc = "EmmcInTran" /\ Awaited("R1")
  BY DEF EmmcSendStatus, Awaited
<1>3. card # NoCard => card \in CardStates /\ card.kind = "Emmc" /\ ~card.error
  BY <1>2, EmmcHere DEF EmmcPc
<1>4. /\ a.heard \in BOOLEAN
      /\ IF card = NoCard THEN ~a.heard /\ a.card = card
         ELSE /\ a.heard /\ a.r.tran
              /\ a.card = [card EXCEPT !.error = FALSE]
  BY <1>2, <1>3, SendStatusReply DEF IInv, EmmcStage, Addressed, EmmcTran
<1> HIDE DEF a
<1>5. card # NoCard =>
        LET c == a.card
        IN  c \in CardStates /\ c # NoCard /\ c.kind = card.kind /\ c.is = card.is /\ ~c.error
  BY ZenonT(60), <1>3, <1>4, StatusRead DEF CardStates, NoCard
<1>6. CASE x.ok
  <2>1. /\ card # NoCard /\ card' = [card EXCEPT !.error = FALSE]
        /\ card' \in CardStates /\ card' # NoCard
        /\ card'.kind = "Emmc" /\ card'.is = card.is /\ ~card'.error
        /\ noisy' = noisy /\ x.r = a.r
    BY <1>1, <1>2, <1>4, <1>5, <1>6, EmmcCommand DEF EmmcPc
  <2> QED BY <1>1, <1>2, <1>4, <1>6, <2>1, <1>3, StatusRead
      DEF IInv, Typed, Counted, Clocked, HostMatchesCard, EmmcStage, SdStage, KindInv, Clean,
         Addressed, SdPc, EmmcPc, SdTran, EmmcTran, Identifiable, CardStates
<1>7. CASE ~x.ok
  BY <1>1, <1>2, <1>4, <1>5, <1>7, EmmcCommand DEF EmmcPc
<1> QED BY <1>6, <1>7

\* CMD13, and the controller goes back to one bit.
LEMMA EmmcOneBitStatusKeeps ==
    ASSUME IInv, EmmcSendStatus, pc = "EmmcOneBitStatus"
    PROVE  IInv'
<1> DEFINE a == SendStatus(rca)
<1>1. PICK x \in Exchange("R1", a) :
        /\ card' = x.card /\ noisy' = (noisy \/ x.lost)
        /\ IF x.ok THEN /\ pc' = "EmmcGetExtCsd" /\ result' = result
                        /\ host' = [host EXCEPT !.width = 1, !.ddr = FALSE]
           ELSE GivesUp /\ UNCHANGED host
        /\ UNCHANGED <<cap, slot, version1, rca, switch, extCsd, tries>>
  BY DEF EmmcSendStatus, Send, SetWidth
<1>2. pc = "EmmcOneBitStatus" /\ Awaited("R1")
  BY DEF EmmcSendStatus, Awaited
<1>3. card # NoCard => card \in CardStates /\ card.kind = "Emmc" /\ ~card.error
  BY <1>2, EmmcHere DEF EmmcPc
<1>4. /\ a.heard \in BOOLEAN
      /\ IF card = NoCard THEN ~a.heard /\ a.card = card
         ELSE /\ a.heard
              /\ a.card = [card EXCEPT !.error = FALSE]
  BY <1>2, <1>3, SendStatusReply DEF IInv, EmmcStage, Addressed, EmmcTran
<1> HIDE DEF a
<1>5. card # NoCard =>
        LET c == a.card
        IN  c \in CardStates /\ c # NoCard /\ c.kind = card.kind /\ c.is = card.is /\ ~c.error
  BY <1>3, <1>4, StatusRead DEF CardStates, NoCard
<1>6. CASE x.ok
  <2>1. /\ card # NoCard /\ card' = [card EXCEPT !.error = FALSE]
        /\ card' \in CardStates /\ card' # NoCard
        /\ card'.kind = "Emmc" /\ card'.is = card.is /\ ~card'.error
        /\ noisy' = noisy /\ x.r = a.r
    BY <1>1, <1>2, <1>4, <1>5, <1>6, EmmcCommand DEF EmmcPc
  <2>2. /\ host' \in HostStates /\ host'.width = 1 /\ host'.ddr = FALSE
        /\ host'.clock = host.clock
    BY <1>1, <1>6, HostWidthSet, ZenonT(60) DEF IInv, Typed
  <2> QED BY <1>1, <1>2, <1>4, <1>6, <2>1, <2>2, <1>3, StatusRead
      DEF IInv, Typed, Counted, Clocked, HostMatchesCard, EmmcStage, SdStage, KindInv, Clean,
         Addressed, SdPc, EmmcPc, SdTran, EmmcTran, Identifiable, CardStates
<1>7. CASE ~x.ok
  BY <1>1, <1>2, <1>4, <1>5, <1>7, EmmcCommand DEF EmmcPc
<1> QED BY <1>6, <1>7

\* CMD13 once more, and the identification succeeds.
LEMMA EmmcExitKeeps ==
    ASSUME IInv, EmmcSendStatus, pc = "EmmcExit"
    PROVE  IInv'
<1> DEFINE a == SendStatus(rca)
<1>1. PICK x \in Exchange("R1", a) :
        /\ card' = x.card /\ noisy' = (noisy \/ x.lost)
        /\ IF x.ok THEN pc' = "off" /\ result' = "success"
           ELSE GivesUp
        /\ UNCHANGED <<cap, host, slot, version1, rca, switch, extCsd, tries>>
  BY DEF EmmcSendStatus, Send, Succeeds
<1>2. pc = "EmmcExit" /\ Awaited("R1")
  BY DEF EmmcSendStatus, Awaited
<1>3. card # NoCard => card \in CardStates /\ card.kind = "Emmc" /\ ~card.error
  BY <1>2, EmmcHere DEF EmmcPc
<1>4. /\ a.heard \in BOOLEAN
      /\ IF card = NoCard THEN ~a.heard /\ a.card = card
         ELSE /\ a.heard
              /\ a.card = [card EXCEPT !.error = FALSE]
  BY <1>2, <1>3, SendStatusReply DEF IInv, EmmcStage, Addressed, EmmcTran
<1> HIDE DEF a
<1>5. card # NoCard =>
        LET c == a.card
        IN  c \in CardStates /\ c # NoCard /\ c.kind = card.kind /\ c.is = card.is /\ ~c.error
  BY <1>3, <1>4, StatusRead DEF CardStates, NoCard
<1>6. CASE x.ok
  <2>1. /\ card # NoCard /\ card' = [card EXCEPT !.error = FALSE]
        /\ card' \in CardStates /\ card' # NoCard
        /\ card'.kind = "Emmc" /\ card'.is = card.is /\ ~card'.error
        /\ noisy' = noisy /\ x.r = a.r
    BY <1>1, <1>2, <1>4, <1>5, <1>6, EmmcCommand DEF EmmcPc
  <2> QED BY <1>1, <1>2, <1>4, <1>6, <2>1, <1>3, StatusRead
      DEF IInv, Typed, Counted, Clocked, HostMatchesCard, EmmcStage, SdStage, KindInv, Clean,
         Addressed, SdPc, EmmcPc, SdTran, EmmcTran, Identifiable, CardStates, Matched, MaxClock,
         DdrIsTold
<1>7. CASE ~x.ok
  BY <1>1, <1>2, <1>4, <1>5, <1>7, EmmcCommand DEF EmmcPc
<1> QED BY <1>6, <1>7

\* CMD6: one bit.
LEMMA EmmcOneBitKeeps ==
    ASSUME IInv, EmmcSwitchBusWidth, pc = "EmmcOneBit"
    PROVE  IInv'
<1> DEFINE a == SwitchWidth(1, FALSE)
<1>1. PICK x \in Exchange("R1", a) :
        /\ card' = x.card /\ noisy' = (noisy \/ x.lost)
        /\ IF x.ok THEN pc' = "EmmcOneBitStatus" /\ result' = result
           ELSE GivesUp
        /\ UNCHANGED <<cap, host, slot, version1, rca, switch, extCsd, tries>>
  BY DEF EmmcSwitchBusWidth, Send, GoOn, rest
<1>2. pc = "EmmcOneBit" /\ Awaited("R1")
  BY DEF EmmcSwitchBusWidth, Awaited
<1>3. card # NoCard => card \in CardStates /\ card.kind = "Emmc" /\ ~card.error
                       /\ 1 \in card.is.widths
  BY <1>2, EmmcHere DEF EmmcPc
<1>4. /\ a.heard \in BOOLEAN
      /\ IF card = NoCard THEN ~a.heard /\ a.card = card
         ELSE /\ a.heard
              /\ a.card = [card EXCEPT !.width = 1, !.ddr = FALSE]
  BY <1>2, <1>3, SwitchWidthReply DEF IInv, EmmcStage, Addressed, EmmcTran
<1> HIDE DEF a
<1>5. card # NoCard =>
        LET c == a.card
        IN  c \in CardStates /\ c # NoCard /\ c.kind = card.kind /\ c.is = card.is /\ ~c.error
  BY <1>3, <1>4, ZenonT(60) DEF CardStates, NoCard
<1>6. CASE x.ok
  <2>1. /\ card # NoCard /\ card' = [card EXCEPT !.width = 1, !.ddr = FALSE]
        /\ card' \in CardStates /\ card' # NoCard
        /\ card'.kind = "Emmc" /\ card'.is = card.is /\ ~card'.error
        /\ noisy' = noisy /\ x.r = a.r
    BY <1>1, <1>2, <1>4, <1>5, <1>6, EmmcCommand DEF EmmcPc
  <2> QED BY <1>1, <1>2, <1>4, <1>6, <2>1
      DEF IInv, Typed, Counted, Clocked, HostMatchesCard, EmmcStage, SdStage, KindInv, Clean,
         Addressed, SdPc, EmmcPc, SdTran, EmmcTran, Identifiable, CardStates
<1>7. CASE ~x.ok
  BY <1>1, <1>2, <1>4, <1>5, <1>7, EmmcCommand DEF EmmcPc
<1> QED BY <1>6, <1>7

\* CMD8: the types decide whether the timing is switched.
LEMMA EmmcGetExtCsdKeeps ==
    ASSUME IInv, EmmcGetExtCsd
    PROVE  IInv'
<1> DEFINE a == SendExtCsd
<1>1. PICK x \in Exchange("R1", a) :
        /\ card' = x.card /\ noisy' = (noisy \/ x.lost)
        /\ IF x.ok THEN /\ pc' = IF Timing(x.r).timing = 1 THEN "EmmcTiming" ELSE "EmmcExit"
                        /\ extCsd' = x.r /\ result' = result
           ELSE GivesUp /\ UNCHANGED extCsd
        /\ UNCHANGED <<cap, host, slot, version1, rca, switch, tries>>
  BY DEF EmmcGetExtCsd, Send
<1>2. pc = "EmmcGetExtCsd" /\ Awaited("R1")
  BY DEF EmmcGetExtCsd, Awaited
<1>3. card # NoCard => card \in CardStates /\ card.kind = "Emmc" /\ ~card.error
                       /\ card.is.types \in SUBSET AllTypes
  BY <1>2, EmmcHere DEF EmmcPc, CardKinds
<1>4. /\ a.heard \in BOOLEAN
      /\ IF card = NoCard THEN ~a.heard /\ a.card = card
         ELSE /\ a.heard /\ a.r = card.is.types
              /\ a.card = card
  BY <1>2, <1>3, SendExtCsdReply DEF IInv, EmmcStage, Addressed, EmmcTran, CardKinds
<1> HIDE DEF a
<1>5. card # NoCard =>
        LET c == a.card
        IN  c \in CardStates /\ c # NoCard /\ c.kind = card.kind /\ c.is = card.is /\ ~c.error
  BY <1>3, <1>4 DEF CardStates, NoCard
<1>6. CASE x.ok
  <2>1. /\ card # NoCard /\ card' = card
        /\ card' \in CardStates /\ card' # NoCard
        /\ card'.kind = "Emmc" /\ card'.is = card.is /\ ~card'.error
        /\ noisy' = noisy /\ x.r = a.r
    BY <1>1, <1>2, <1>4, <1>5, <1>6, EmmcCommand DEF EmmcPc
  <2>2. extCsd' = card'.is.types /\ extCsd' \in SUBSET AllTypes /\ Timing(extCsd)' = Timing(x.r)
    BY <1>1, <1>3, <1>4, <1>6, <2>1, ZenonT(60) DEF Timing
  <2>3. /\ host.clock = InitClock /\ host.width = card.width /\ host.ddr = card.ddr
        /\ card.mode \in 0 .. 4
    BY <1>2, <1>3, <2>1 DEF IInv, Typed, Clocked, EmmcStage, EmmcPc, CardStates, HostStates
  <2> QED BY <1>1, <1>2, <1>4, <1>6, <2>1, <1>3, <2>2, <2>3
      DEF IInv, Typed, Counted, Clocked, HostMatchesCard, EmmcStage, SdStage, KindInv, Clean,
         Addressed, SdPc, EmmcPc, SdTran, EmmcTran, Identifiable, CardStates, Matched, MaxClock,
         InitClock
<1>7. CASE ~x.ok
  BY <1>1, <1>2, <1>4, <1>5, <1>7, EmmcCommand DEF EmmcPc
<1> QED BY <1>6, <1>7

\* CMD6: high speed, which a card of some type takes.
LEMMA EmmcTimingKeeps ==
    ASSUME IInv, EmmcSwitchClockFreq, pc = "EmmcTiming"
    PROVE  IInv'
<1> DEFINE a == SwitchTiming
<1>1. PICK x \in Exchange("R1", a) :
        /\ card' = x.card /\ noisy' = (noisy \/ x.lost)
        /\ IF x.ok THEN pc' = "EmmcTimingStatus" /\ result' = result
           ELSE GivesUp
        /\ UNCHANGED <<cap, host, slot, version1, rca, switch, extCsd, tries>>
  BY DEF EmmcSwitchClockFreq, Send, GoOn, rest
<1>2. pc = "EmmcTiming" /\ Awaited("R1")
  BY DEF EmmcSwitchClockFreq, Awaited
<1>3. card # NoCard => card \in CardStates /\ card.kind = "Emmc" /\ ~card.error
                       /\ card.is.types # {}
  BY <1>2, EmmcHere, TimingChosen DEF EmmcPc, IInv, Typed, EmmcStage
<1>4. /\ a.heard \in BOOLEAN
      /\ IF card = NoCard THEN ~a.heard /\ a.card = card
         ELSE /\ a.heard
              /\ a.card = [card EXCEPT !.mode = 1]
  BY <1>2, <1>3, SwitchTimingReply DEF IInv, EmmcStage, Addressed, EmmcTran
<1> HIDE DEF a
<1>5. card # NoCard =>
        LET c == a.card
        IN  c \in CardStates /\ c # NoCard /\ c.kind = card.kind /\ c.is = card.is /\ ~c.error
  BY <1>3, <1>4 DEF CardStates, NoCard
<1>6. CASE x.ok
  <2>1. /\ card # NoCard /\ card' = [card EXCEPT !.mode = 1]
        /\ card' \in CardStates /\ card' # NoCard
        /\ card'.kind = "Emmc" /\ card'.is = card.is /\ ~card'.error
        /\ noisy' = noisy /\ x.r = a.r
    BY <1>1, <1>2, <1>4, <1>5, <1>6, EmmcCommand DEF EmmcPc
  <2>2. Timing(extCsd)' = Timing(extCsd)
    BY <1>1, <1>6 DEF Timing
  <2> QED BY <1>1, <1>2, <1>4, <1>6, <2>1, <2>2
      DEF IInv, Typed, Counted, Clocked, HostMatchesCard, EmmcStage, SdStage, KindInv, Clean,
         Addressed, SdPc, EmmcPc, SdTran, EmmcTran, Identifiable, CardStates
<1>7. CASE ~x.ok
  BY <1>1, <1>2, <1>4, <1>5, <1>7, EmmcCommand DEF EmmcPc
<1> QED BY <1>6, <1>7

\* CMD13, and the controller's clock is raised.
LEMMA EmmcTimingStatusKeeps ==
    ASSUME IInv, EmmcSwitchClockFreq, pc = "EmmcTimingStatus"
    PROVE  IInv'
<1> DEFINE a == SendStatus(rca)
<1>1. PICK x \in Exchange("R1", a) :
        /\ card' = x.card /\ noisy' = (noisy \/ x.lost)
        /\ IF x.ok THEN /\ IF x.r.error THEN GivesUp /\ UNCHANGED host
                           ELSE /\ host' = [host EXCEPT !.clock = Timing(extCsd).clock]
                                /\ pc' = "EmmcWidth" /\ result' = result
           ELSE GivesUp /\ UNCHANGED host
        /\ UNCHANGED <<cap, slot, version1, rca, switch, extCsd, tries>>
  BY DEF EmmcSwitchClockFreq, Send, SetClock
<1>2. pc = "EmmcTimingStatus" /\ Awaited("R1")
  BY DEF EmmcSwitchClockFreq, Awaited
<1>3. card # NoCard => card \in CardStates /\ card.kind = "Emmc" /\ ~card.error
  BY <1>2, EmmcHere DEF EmmcPc
<1>4. /\ a.heard \in BOOLEAN
      /\ IF card = NoCard THEN ~a.heard /\ a.card = card
         ELSE /\ a.heard /\ ~a.r.error
              /\ a.card = [card EXCEPT !.error = FALSE]
  BY <1>2, <1>3, SendStatusReply DEF IInv, EmmcStage, Addressed, EmmcTran
<1> HIDE DEF a
<1>5. card # NoCard =>
        LET c == a.card
        IN  c \in CardStates /\ c # NoCard /\ c.kind = card.kind /\ c.is = card.is /\ ~c.error
  BY <1>3, <1>4, StatusRead, ZenonT(60) DEF CardStates, NoCard
<1>6. CASE x.ok
  <2>1. /\ card # NoCard /\ card' = [card EXCEPT !.error = FALSE]
        /\ card' \in CardStates /\ card' # NoCard
        /\ card'.kind = "Emmc" /\ card'.is = card.is /\ ~card'.error
        /\ noisy' = noisy /\ x.r = a.r
    BY <1>1, <1>2, <1>4, <1>5, <1>6, EmmcCommand DEF EmmcPc
  <2>2. Timing(extCsd)' = Timing(extCsd) /\ Timing(extCsd).clock \in Nat
    BY <1>1, <1>6, TimingChosen DEF Timing, IInv, Typed
  <2>3. host' = [host EXCEPT !.clock = Timing(extCsd).clock] /\ pc' = "EmmcWidth" /\ result' = result
    BY <1>1, <1>4, <1>6, <2>1
  <2>4. /\ host' \in HostStates /\ host'.width = host.width /\ host'.ddr = host.ddr
        /\ host'.clock = Timing(extCsd).clock
    BY <2>2, <2>3, HostClockSet DEF IInv, Typed
  <2> QED BY <1>1, <1>2, <1>4, <1>6, <2>1, <1>3, <2>2, <2>3, <2>4, StatusRead
      DEF IInv, Typed, Counted, Clocked, HostMatchesCard, EmmcStage, SdStage, KindInv, Clean,
         Addressed, SdPc, EmmcPc, SdTran, EmmcTran, Identifiable, CardStates
<1>7. CASE ~x.ok
  BY <1>1, <1>2, <1>4, <1>5, <1>7, EmmcCommand DEF EmmcPc
<1> QED BY <1>6, <1>7

\* CMD6: the slot's width, and double data rate unless on one bit.
LEMMA EmmcWidthKeeps ==
    ASSUME IInv, EmmcSwitchBusWidth, pc = "EmmcWidth"
    PROVE  IInv'
<1> DEFINE ddr == cap.width # 1 /\ Timing(extCsd).ddr
<1>0. ddr \in BOOLEAN /\ (ddr <=> cap.width # 1 /\ Timing(extCsd).ddr)
  OBVIOUS
<1> DEFINE a == SwitchWidth(cap.width, ddr)
<1>1. PICK x \in Exchange("R1", a) :
        /\ card' = x.card /\ noisy' = (noisy \/ x.lost)
        /\ IF x.ok THEN pc' = "EmmcWidthStatus" /\ result' = result
           ELSE GivesUp
        /\ UNCHANGED <<cap, host, slot, version1, rca, switch, extCsd, tries>>
  BY DEF EmmcSwitchBusWidth, Send, GoOn, rest
<1>2. pc = "EmmcWidth" /\ Awaited("R1")
  BY DEF EmmcSwitchBusWidth, Awaited
<1>3. card # NoCard => card \in CardStates /\ card.kind = "Emmc" /\ ~card.error
                       /\ cap.width \in {1, 4, 8} /\ cap.width \in card.is.widths
  BY <1>2, EmmcHere, HostsTyped DEF EmmcPc, IInv
<1>4. /\ a.heard \in BOOLEAN
      /\ IF card = NoCard THEN ~a.heard /\ a.card = card
         ELSE /\ a.heard
              /\ a.card = [card EXCEPT !.width = cap.width, !.ddr = ddr]
  BY <1>2, <1>3, SwitchWidthReply, ZenonT(60) DEF IInv, EmmcStage, Addressed, EmmcTran
<1> HIDE DEF a, ddr
<1>5. card # NoCard =>
        LET c == a.card
        IN  c \in CardStates /\ c # NoCard /\ c.kind = card.kind /\ c.is = card.is /\ ~c.error
  BY <1>3, <1>4, <1>0, ZenonT(60) DEF CardStates, NoCard
<1>6. CASE x.ok
  <2>1. /\ card # NoCard /\ card' = [card EXCEPT !.width = cap.width, !.ddr = ddr]
        /\ card' \in CardStates /\ card' # NoCard
        /\ card'.kind = "Emmc" /\ card'.is = card.is /\ ~card'.error
        /\ noisy' = noisy /\ x.r = a.r
    BY <1>1, <1>2, <1>4, <1>5, <1>6, EmmcCommand DEF EmmcPc
  <2>2. Timing(extCsd)' = Timing(extCsd)
    BY <1>1, <1>6 DEF Timing
  <2>3. /\ card'.width = cap.width /\ card'.ddr = ddr /\ card'.state = card.state
        /\ card'.rca = card.rca /\ card'.mode = card.mode
    BY <1>0, <1>3, <2>1 DEF CardStates
  <2> QED BY <1>1, <1>2, <1>4, <1>6, <2>1, <1>3, <1>0, <2>2, <2>3
      DEF IInv, Typed, Counted, Clocked, HostMatchesCard, EmmcStage, SdStage, KindInv, Clean,
         Addressed, SdPc, EmmcPc, SdTran, EmmcTran, Identifiable, CardStates
<1>7. CASE ~x.ok
  BY <1>1, <1>2, <1>4, <1>5, <1>7, EmmcCommand DEF EmmcPc
<1> QED BY <1>6, <1>7

\* CMD13, and the controller follows.
LEMMA EmmcWidthStatusKeeps ==
    ASSUME IInv, EmmcSwitchBusWidth, pc = "EmmcWidthStatus"
    PROVE  IInv'
<1> DEFINE a == SendStatus(rca)
<1>1. PICK x \in Exchange("R1", a) :
        /\ card' = x.card /\ noisy' = (noisy \/ x.lost)
        /\ IF x.ok THEN /\ host' = [host EXCEPT !.width = cap.width, !.ddr = Timing(extCsd).ddr]
                        /\ pc' = "EmmcExit" /\ result' = result
           ELSE GivesUp /\ UNCHANGED host
        /\ UNCHANGED <<cap, slot, version1, rca, switch, extCsd, tries>>
  BY DEF EmmcSwitchBusWidth, Send, SetWidth
<1>2. pc = "EmmcWidthStatus" /\ Awaited("R1")
  BY DEF EmmcSwitchBusWidth, Awaited
<1>3. card # NoCard => card \in CardStates /\ card.kind = "Emmc" /\ ~card.error
  BY <1>2, EmmcHere DEF EmmcPc
<1>4. /\ a.heard \in BOOLEAN
      /\ IF card = NoCard THEN ~a.heard /\ a.card = card
         ELSE /\ a.heard
              /\ a.card = [card EXCEPT !.error = FALSE]
  BY <1>2, <1>3, SendStatusReply DEF IInv, EmmcStage, Addressed, EmmcTran
<1> HIDE DEF a
<1>5. card # NoCard =>
        LET c == a.card
        IN  c \in CardStates /\ c # NoCard /\ c.kind = card.kind /\ c.is = card.is /\ ~c.error
  BY ZenonT(60), <1>3, <1>4, StatusRead DEF CardStates, NoCard
<1>6. CASE x.ok
  <2>1. /\ card # NoCard /\ card' = [card EXCEPT !.error = FALSE]
        /\ card' \in CardStates /\ card' # NoCard
        /\ card'.kind = "Emmc" /\ card'.is = card.is /\ ~card'.error
        /\ noisy' = noisy /\ x.r = a.r
    BY <1>1, <1>2, <1>4, <1>5, <1>6, EmmcCommand DEF EmmcPc
  <2>2. Timing(extCsd).ddr \in BOOLEAN
    BY TimingChosen DEF IInv, Typed
  <2>3. /\ host' \in HostStates /\ host'.width = cap.width /\ host'.ddr = Timing(extCsd).ddr
        /\ host'.clock = host.clock
    <3>1. host' = [host EXCEPT !.width = cap.width, !.ddr = Timing(extCsd).ddr]
      BY <1>1, <1>6
    <3>2. cap.width \in {1, 4, 8}
      BY HostsTyped DEF IInv
    <3> QED BY <2>2, <3>1, <3>2 DEF IInv, Typed, HostStates
  <2>4. Matched'
    BY <1>1, <1>2, <1>3, <1>6, <2>1, <2>2, <2>3, TimingChosen, StatusRead
       DEF IInv, Typed, EmmcStage, EmmcTran, Matched, MaxClock, DdrIsTold, HostStates
  <2> QED BY <1>1, <1>2, <1>4, <1>6, <2>1, <1>3, <2>2, <2>3, <2>4, StatusRead
      DEF IInv, Typed, Counted, Clocked, HostMatchesCard, EmmcStage, SdStage, KindInv, Clean,
         Addressed, SdPc, EmmcPc, SdTran, EmmcTran, Identifiable, CardStates
<1>7. CASE ~x.ok
  BY <1>1, <1>2, <1>4, <1>5, <1>7, EmmcCommand DEF EmmcPc
<1> QED BY <1>6, <1>7

\* The SD routine, command by command: ACMD41 without a voltage.
LEMMA SdInquireKeeps ==
    ASSUME IInv, SdCardSendOpCond, pc = "SdInquire"
    PROVE  IInv'
<1> DEFINE a == SdSendOpCond(0)
<1>1. PICK x \in Exchange("R3", a) :
        /\ card' = x.card /\ noisy' = (noisy \/ x.lost)
        /\ IF x.ok THEN pc' = "SdOpCond" /\ result' = result
           ELSE GivesUp
        /\ UNCHANGED <<cap, host, slot, version1, rca, switch, extCsd, tries>>
  BY DEF SdCardSendOpCond, Send, GoOn, rest
<1>2. pc = "SdInquire" /\ Awaited("R3")
  BY DEF SdCardSendOpCond, Awaited
<1>3. card # NoCard => /\ card \in CardStates /\ card.kind \in {"Sd", "Emmc"}
                       /\ card.kind = "Emmc" => ~card.error
  BY <1>2, SdHere DEF SdPc, CardStates
<1>4. /\ a.heard \in BOOLEAN
      /\ IF card = NoCard THEN ~a.heard /\ a.card = card
         ELSE /\ a.card = card
              /\ IF card.kind = "Emmc" THEN ~a.heard ELSE a.heard \/ ~Identifiable \/ noisy
  BY <1>2, <1>3, SdSendOpCondReply DEF IInv, SdStage, Clean, Identifiable, Addressed, SdPc, SdTran
<1> HIDE DEF a
<1>5. card # NoCard =>
        LET c == a.card
        IN  /\ c \in CardStates /\ c # NoCard /\ c.kind = card.kind /\ c.is = card.is
            /\ c.kind = "Emmc" => ~c.error
  BY <1>3, <1>4 DEF CardStates, NoCard
<1>6. CASE x.ok
  <2>1. /\ card # NoCard /\ a.heard
        /\ card' = card
        /\ card' \in CardStates /\ card' # NoCard
        /\ card'.kind = card.kind /\ card'.is = card.is
        /\ noisy' = noisy /\ x.r = a.r
    BY <1>1, <1>2, <1>4, <1>5, <1>6, SdCommand DEF SdPc
  <2> QED BY <1>1, <1>2, <1>3, <1>4, <1>6, <2>1
      DEF IInv, Typed, Counted, Clocked, HostMatchesCard, EmmcStage, SdStage, KindInv, Clean,
         Addressed, SdPc, EmmcPc, SdTran, EmmcTran, Identifiable, CardStates
<1>7. CASE ~x.ok
  BY <1>1, <1>2, <1>3, <1>4, <1>5, <1>7, SdCommand DEF SdPc
<1> QED BY <1>6, <1>7

\* CMD2.
LEMMA SdAllSendCidKeeps ==
    ASSUME IInv, SdCardAllSendCid, pc = "SdAllSendCid"
    PROVE  IInv'
<1> DEFINE a == AllSendCid
<1>1. PICK x \in Exchange("R2", a) :
        /\ card' = x.card /\ noisy' = (noisy \/ x.lost)
        /\ IF x.ok THEN pc' = "SdSetRca" /\ result' = result
           ELSE GivesUp
        /\ UNCHANGED <<cap, host, slot, version1, rca, switch, extCsd, tries>>
  BY DEF SdCardAllSendCid, Send, GoOn, rest
<1>2. pc = "SdAllSendCid" /\ Awaited("R2")
  BY DEF SdCardAllSendCid, Awaited
<1>3. card # NoCard => /\ card \in CardStates /\ card.kind \in {"Sd", "Emmc"}
                       /\ card.kind = "Emmc" => ~card.error
  BY <1>2, SdHere DEF SdPc, CardStates
<1>4. /\ a.heard \in BOOLEAN
      /\ IF card = NoCard THEN ~a.heard /\ a.card = card
         ELSE /\ a.card = IF a.heard THEN [card EXCEPT !.state = "ident"] ELSE card
              /\ a.heard /\ card.kind = "Sd"
  BY <1>2, <1>3, AllSendCidReply DEF IInv, SdStage, Clean, Identifiable, Addressed, SdPc, SdTran
<1> HIDE DEF a
<1>5. card # NoCard =>
        LET c == a.card
        IN  /\ c \in CardStates /\ c # NoCard /\ c.kind = card.kind /\ c.is = card.is
            /\ c.kind = "Emmc" => ~c.error
  BY <1>3, <1>4 DEF CardStates, NoCard
<1>6. CASE x.ok
  <2>1. /\ card # NoCard /\ a.heard
        /\ card' = [card EXCEPT !.state = "ident"]
        /\ card' \in CardStates /\ card' # NoCard
        /\ card'.kind = card.kind /\ card'.is = card.is
        /\ noisy' = noisy /\ x.r = a.r
    BY <1>1, <1>2, <1>4, <1>5, <1>6, SdCommand DEF SdPc
  <2> QED BY <1>1, <1>2, <1>3, <1>4, <1>6, <2>1
      DEF IInv, Typed, Counted, Clocked, HostMatchesCard, EmmcStage, SdStage, KindInv, Clean,
         Addressed, SdPc, EmmcPc, SdTran, EmmcTran, Identifiable, CardStates
<1>7. CASE ~x.ok
  BY <1>1, <1>2, <1>3, <1>4, <1>5, <1>7, SdCommand DEF SdPc
<1> QED BY <1>6, <1>7

\* CMD7, with the address the card named.
LEMMA SdSelectKeeps ==
    ASSUME IInv, SdCardSelect, pc = "SdSelect"
    PROVE  IInv'
<1> DEFINE a == Select(rca)
<1>1. PICK x \in Exchange("R1", a) :
        /\ card' = x.card /\ noisy' = (noisy \/ x.lost)
        /\ IF x.ok THEN pc' = "SdGetScr" /\ result' = result
           ELSE GivesUp
        /\ UNCHANGED <<cap, host, slot, version1, rca, switch, extCsd, tries>>
  BY DEF SdCardSelect, Send, GoOn, rest
<1>2. pc = "SdSelect" /\ Awaited("R1")
  BY DEF SdCardSelect, Awaited
<1>3. card # NoCard => /\ card \in CardStates /\ card.kind \in {"Sd", "Emmc"}
                       /\ card.kind = "Emmc" => ~card.error
  BY <1>2, SdHere DEF SdPc, CardStates
<1>4. /\ a.heard \in BOOLEAN
      /\ IF card = NoCard THEN ~a.heard /\ a.card = card
         ELSE /\ a.card = IF a.heard THEN [card EXCEPT !.state = "tran"] ELSE card
              /\ a.heard /\ card.kind = "Sd"
  BY <1>2, <1>3, SelectReply DEF IInv, SdStage, Clean, Identifiable, Addressed, SdPc, SdTran
<1> HIDE DEF a
<1>5. card # NoCard =>
        LET c == a.card
        IN  /\ c \in CardStates /\ c # NoCard /\ c.kind = card.kind /\ c.is = card.is
            /\ c.kind = "Emmc" => ~c.error
  BY <1>3, <1>4 DEF CardStates, NoCard
<1>6. CASE x.ok
  <2>1. /\ card # NoCard /\ a.heard
        /\ card' = [card EXCEPT !.state = "tran"]
        /\ card' \in CardStates /\ card' # NoCard
        /\ card'.kind = card.kind /\ card'.is = card.is
        /\ noisy' = noisy /\ x.r = a.r
    BY <1>1, <1>2, <1>4, <1>5, <1>6, SdCommand DEF SdPc
  <2> QED BY <1>1, <1>2, <1>3, <1>4, <1>6, <2>1
      DEF IInv, Typed, Counted, Clocked, HostMatchesCard, EmmcStage, SdStage, KindInv, Clean,
         Addressed, SdPc, EmmcPc, SdTran, EmmcTran, Identifiable, CardStates
<1>7. CASE ~x.ok
  BY <1>1, <1>2, <1>3, <1>4, <1>5, <1>7, SdCommand DEF SdPc
<1> QED BY <1>6, <1>7

\* CMD9, which a card that did not hear address 0 leaves unanswered.
LEMMA SdGetCsdKeeps ==
    ASSUME IInv, SdCardGetCsd, pc = "SdGetCsd"
    PROVE  IInv'
<1> DEFINE a == SendCsd(rca)
<1>1. PICK x \in Exchange("R2", a) :
        /\ card' = x.card /\ noisy' = (noisy \/ x.lost)
        /\ IF x.ok THEN pc' = "SdSelect" /\ result' = result
           ELSE GivesUp
        /\ UNCHANGED <<cap, host, slot, version1, rca, switch, extCsd, tries>>
  BY DEF SdCardGetCsd, Send, GoOn, rest
<1>2. pc = "SdGetCsd" /\ Awaited("R2")
  BY DEF SdCardGetCsd, Awaited
<1>3. card # NoCard => /\ card \in CardStates /\ card.kind \in {"Sd", "Emmc"}
                       /\ card.kind = "Emmc" => ~card.error
  BY <1>2, SdHere DEF SdPc, CardStates
<1>4. /\ a.heard \in BOOLEAN
      /\ IF card = NoCard THEN ~a.heard /\ a.card = card
         ELSE /\ a.card = card
              /\ IF slot.type = "Sd" THEN a.heard /\ card.kind = "Sd"
                 ELSE ~a.heard /\ ~Identifiable
  BY <1>2, <1>3, SendCsdReply
     DEF IInv, SdStage, Clean, Identifiable, Addressed, SdPc, SdTran, Typed, CardStates, SlotStates
<1> HIDE DEF a
<1>5. card # NoCard =>
        LET c == a.card
        IN  /\ c \in CardStates /\ c # NoCard /\ c.kind = card.kind /\ c.is = card.is
            /\ c.kind = "Emmc" => ~c.error
  BY <1>3, <1>4 DEF CardStates, NoCard
<1>6. CASE x.ok
  <2>1. /\ card # NoCard /\ a.heard
        /\ card' = card
        /\ card' \in CardStates /\ card' # NoCard
        /\ card'.kind = card.kind /\ card'.is = card.is
        /\ noisy' = noisy /\ x.r = a.r
    BY <1>1, <1>2, <1>4, <1>5, <1>6, SdCommand DEF SdPc
  <2> QED BY <1>1, <1>2, <1>3, <1>4, <1>6, <2>1
      DEF IInv, Typed, Counted, Clocked, HostMatchesCard, EmmcStage, SdStage, KindInv, Clean,
         Addressed, SdPc, EmmcPc, SdTran, EmmcTran, Identifiable, CardStates
<1>7. CASE ~x.ok
  BY <1>1, <1>2, <1>3, <1>4, <1>5, <1>7, SdCommand DEF SdPc
<1> QED BY <1>6, <1>7

\* ACMD41 until the card is ready.
LEMMA SdOpCondKeeps ==
    ASSUME IInv, SdCardSendOpCond, pc = "SdOpCond"
    PROVE  IInv'
<1> DEFINE a == SdSendOpCond(1)
<1>1. PICK x \in Exchange("R3", a) :
        /\ card' = x.card /\ noisy' = (noisy \/ x.lost)
        /\ IF x.ok THEN pc' = (IF x.r THEN "SdAllSendCid" ELSE pc) /\ result' = result
           ELSE GivesUp
        /\ UNCHANGED <<cap, host, slot, version1, rca, switch, extCsd, tries>>
  BY DEF SdCardSendOpCond, Send, GoOn, rest
<1>2. pc = "SdOpCond" /\ Awaited("R3")
  BY DEF SdCardSendOpCond, Awaited
<1>3. card # NoCard => /\ card \in CardStates /\ card.kind \in {"Sd", "Emmc"}
                       /\ card.kind = "Emmc" => ~card.error
                       /\ card.ready \in BOOLEAN
  BY <1>2, SdHere DEF SdPc, CardStates
<1>4. /\ a.heard \in BOOLEAN
      /\ IF card = NoCard THEN ~a.heard /\ a.card = card
         ELSE /\ a.card = IF a.heard
                          THEN IF card.ready THEN [card EXCEPT !.state = "ready"] ELSE card
                          ELSE card
              /\ card.kind = "Sd" /\ (a.heard => a.r = card.ready) /\ (a.heard \/ ~Identifiable \/ noisy)
  BY <1>2, <1>3, SdSendOpCondReply DEF IInv, SdStage, Clean, Identifiable, Addressed, SdPc, SdTran
<1> HIDE DEF a
<1>5. card # NoCard =>
        LET c == a.card
        IN  /\ c \in CardStates /\ c # NoCard /\ c.kind = card.kind /\ c.is = card.is
            /\ c.kind = "Emmc" => ~c.error
  BY <1>3, <1>4 DEF CardStates, NoCard
<1>6. CASE x.ok
  <2>1. /\ card # NoCard /\ a.heard
        /\ card' = IF card.ready THEN [card EXCEPT !.state = "ready"] ELSE card
        /\ card' \in CardStates /\ card' # NoCard
        /\ card'.kind = card.kind /\ card'.is = card.is
        /\ noisy' = noisy /\ x.r = a.r
    BY <1>1, <1>2, <1>4, <1>5, <1>6, SdCommand DEF SdPc
  <2> QED BY <1>1, <1>2, <1>3, <1>4, <1>6, <2>1
      DEF IInv, Typed, Counted, Clocked, HostMatchesCard, EmmcStage, SdStage, KindInv, Clean,
         Addressed, SdPc, EmmcPc, SdTran, EmmcTran, Identifiable, CardStates
<1>7. CASE ~x.ok
  BY <1>1, <1>2, <1>3, <1>4, <1>5, <1>7, SdCommand DEF SdPc
<1> QED BY <1>6, <1>7

\* ACMD6: the slot's width, or an error.
LEMMA SdBusWidthKeeps ==
    ASSUME IInv, SdCardSetBusWidth, pc = "SdBusWidth"
    PROVE  IInv'
<1> DEFINE a == SetBusWidth(cap.width)
<1>1. PICK x \in Exchange("R1", a) :
        /\ card' = x.card /\ noisy' = (noisy \/ x.lost)
        /\ IF x.ok THEN pc' = "SdStatus" /\ result' = result
           ELSE GivesUp
        /\ UNCHANGED <<cap, host, slot, version1, rca, switch, extCsd, tries>>
  BY DEF SdCardSetBusWidth, Send, GoOn, rest
<1>2. pc = "SdBusWidth" /\ Awaited("R1")
  BY DEF SdCardSetBusWidth, Awaited
<1>3. card # NoCard => /\ card \in CardStates /\ card.kind \in {"Sd", "Emmc"}
                       /\ card.kind = "Emmc" => ~card.error
  BY <1>2, SdHere DEF SdPc, CardStates
<1>4. /\ a.heard \in BOOLEAN
      /\ IF card = NoCard THEN ~a.heard /\ a.card = card
         ELSE /\ a.card = IF a.heard
                          THEN IF cap.width \in card.is.widths
                               THEN [card EXCEPT !.width = cap.width]
                               ELSE [card EXCEPT !.error = TRUE]
                          ELSE card
              /\ card.kind = "Sd" /\ a.heard
  BY <1>2, <1>3, SetBusWidthReply DEF IInv, SdStage, Clean, Identifiable, Addressed, SdPc, SdTran
<1> HIDE DEF a
<1>5. card # NoCard =>
        LET c == a.card
        IN  /\ c \in CardStates /\ c # NoCard /\ c.kind = card.kind /\ c.is = card.is
            /\ c.kind = "Emmc" => ~c.error
  BY <1>3, <1>4, CapWidth, ZenonT(60) DEF CardStates, NoCard
<1>6. CASE x.ok
  <2>1. /\ card # NoCard /\ a.heard
        /\ card' = IF cap.width \in card.is.widths THEN [card EXCEPT !.width = cap.width]
                           ELSE [card EXCEPT !.error = TRUE]
        /\ card' \in CardStates /\ card' # NoCard
        /\ card'.kind = card.kind /\ card'.is = card.is
        /\ noisy' = noisy /\ x.r = a.r
    BY <1>1, <1>2, <1>4, <1>5, <1>6, SdCommand DEF SdPc
  <2>2. /\ card'.state = card.state /\ card'.rca = card.rca /\ card'.ddr = card.ddr
        /\ card'.mode = card.mode
        /\ IF cap.width \in card.is.widths THEN card'.width = cap.width /\ card'.error = card.error
           ELSE card'.error
    BY <1>3, <2>1, CapWidth DEF CardStates
  <2> QED BY <1>1, <1>2, <1>3, <1>4, <1>6, <2>1, <2>2
      DEF IInv, Typed, Counted, Clocked, HostMatchesCard, EmmcStage, SdStage, KindInv, Clean,
         Addressed, SdPc, EmmcPc, SdTran, EmmcTran, Identifiable, CardStates
<1>7. CASE ~x.ok
  BY <1>1, <1>2, <1>3, <1>4, <1>5, <1>7, SdCommand DEF SdPc
<1> QED BY <1>6, <1>7

\* CMD6 to check: the functions.
LEMMA SdCheckKeeps ==
    ASSUME IInv, SdCardSwitch, pc = "SdCheck"
    PROVE  IInv'
<1> DEFINE a == CheckFunc
<1>1. PICK x \in Exchange("R1", a) :
        /\ card' = x.card /\ noisy' = (noisy \/ x.lost)
        /\ IF x.ok THEN /\ pc' = "SdSet" /\ result' = result
                        /\ switch' = x.r
           ELSE GivesUp /\ UNCHANGED switch
        /\ UNCHANGED <<cap, host, slot, version1, rca, extCsd, tries>>
  BY DEF SdCardSwitch, Send
<1>2. pc = "SdCheck" /\ Awaited("R1")
  BY DEF SdCardSwitch, Awaited
<1>3. card # NoCard => /\ card \in CardStates /\ card.kind \in {"Sd", "Emmc"}
                       /\ card.kind = "Emmc" => ~card.error
                       /\ card.is.functions \in SUBSET AllFunctions
  BY <1>2, SdHere DEF SdPc, CardStates, CardKinds
<1>4. /\ a.heard \in BOOLEAN
      /\ IF card = NoCard THEN ~a.heard /\ a.card = card
         ELSE /\ a.card = card
              /\ card.kind = "Sd" /\ (a.heard \/ ~Identifiable)
              /\ a.heard => a.r = [supported |-> card.is.functions, selected |-> card.mode]
  BY <1>2, <1>3, CheckFuncReply DEF IInv, SdStage, Clean, Identifiable, Addressed, SdPc, SdTran
<1> HIDE DEF a
<1>5. card # NoCard =>
        LET c == a.card
        IN  /\ c \in CardStates /\ c # NoCard /\ c.kind = card.kind /\ c.is = card.is
            /\ c.kind = "Emmc" => ~c.error
  BY <1>3, <1>4 DEF CardStates, NoCard
<1>6. CASE x.ok
  <2>1. /\ card # NoCard /\ a.heard
        /\ card' = card
        /\ card' \in CardStates /\ card' # NoCard
        /\ card'.kind = card.kind /\ card'.is = card.is
        /\ noisy' = noisy /\ x.r = a.r
    BY <1>1, <1>2, <1>4, <1>5, <1>6, SdCommand DEF SdPc
  <2>2. switch' \in AnyResponse /\ switch'.supported = card.is.functions
    <3>1. switch' = [supported |-> card.is.functions, selected |-> card.mode]
      BY <1>1, <1>4, <1>6, <2>1
    <3>2. card.mode \in AllFunctions
      BY <1>3, <2>1 DEF CardStates, AllFunctions
    <3> QED BY <1>3, <2>1, <3>1, <3>2, ResponseTyped
  <2> QED BY <1>1, <1>2, <1>3, <1>4, <1>6, <2>1, <2>2
      DEF IInv, Typed, Counted, Clocked, HostMatchesCard, EmmcStage, SdStage, KindInv, Clean,
         Addressed, SdPc, EmmcPc, SdTran, EmmcTran, Identifiable, CardStates
<1>7. CASE ~x.ok
  BY <1>1, <1>2, <1>3, <1>4, <1>5, <1>7, SdCommand DEF SdPc
<1> QED BY <1>6, <1>7

\* ACMD51: a card without the slot's width is given up.
LEMMA SdGetScrKeeps ==
    ASSUME IInv, SdCardGetScr, pc = "SdGetScr"
    PROVE  IInv'
<1> DEFINE a == SendScr
<1>1. PICK x \in Exchange("R1", a) :
        /\ card' = x.card /\ noisy' = (noisy \/ x.lost)
        /\ IF x.ok THEN /\ slot' = [slot EXCEPT !.type = "Sd"]
                        /\ IF cap.width \in x.r THEN pc' = "SdBusWidth" /\ result' = result
                           ELSE GivesUp
                        /\ switch' \in IF version1 THEN AnyResponse ELSE {switch}
           ELSE GivesUp /\ UNCHANGED <<slot, switch>>
        /\ UNCHANGED <<cap, host, version1, rca, extCsd, tries>>
  BY DEF SdCardGetScr, Send
<1>2. pc = "SdGetScr" /\ Awaited("R1")
  BY DEF SdCardGetScr, Awaited
<1>3. card # NoCard => /\ card \in CardStates /\ card.kind \in {"Sd", "Emmc"}
                       /\ card.kind = "Emmc" => ~card.error
                       /\ (card.kind = "Sd" => card.is.widths \subseteq {1, 4})
  BY <1>2, SdHere DEF SdPc, CardStates
<1>4. /\ a.heard \in BOOLEAN
      /\ IF card = NoCard THEN ~a.heard /\ a.card = card
         ELSE /\ a.card = card
              /\ card.kind = "Sd" /\ a.heard /\ a.r = card.is.widths \cap {1, 4}
  BY <1>2, <1>3, SendScrReply DEF IInv, SdStage, Clean, Identifiable, Addressed, SdPc, SdTran
<1> HIDE DEF a
<1>5. card # NoCard =>
        LET c == a.card
        IN  /\ c \in CardStates /\ c # NoCard /\ c.kind = card.kind /\ c.is = card.is
            /\ c.kind = "Emmc" => ~c.error
  BY <1>3, <1>4 DEF CardStates, NoCard
<1>6. CASE x.ok
  <2>1. /\ card # NoCard /\ a.heard
        /\ card' = card
        /\ card' \in CardStates /\ card' # NoCard
        /\ card'.kind = card.kind /\ card'.is = card.is
        /\ noisy' = noisy /\ x.r = a.r
    BY <1>1, <1>2, <1>4, <1>5, <1>6, SdCommand DEF SdPc
  <2>2. /\ slot' \in SlotStates /\ slot'.media /\ slot'.type = "Sd" /\ switch' \in AnyResponse
        /\ pc # "off"
    BY <1>1, <1>2, <1>6 DEF IInv, Typed, Counted, SlotStates
  <2>3. x.r = card.is.widths \cap {1, 4}
    BY <1>4, <2>1
  <2>4. CASE cap.width \in x.r
    BY <1>1, <1>2, <1>3, <1>4, <1>6, <2>1, <2>2, <2>3, <2>4
       DEF IInv, Typed, Counted, Clocked, HostMatchesCard, EmmcStage, SdStage, KindInv, Clean,
         Addressed, SdPc, EmmcPc, SdTran, EmmcTran, Identifiable, CardStates
  <2>5. CASE cap.width \notin x.r
    <3>1. ~Identifiable'
      BY <1>1, <1>3, <1>4, <2>1, <2>3, <2>5, CapWidth DEF Identifiable
    <3>2. host' \in HostStates /\ pc \in SdPc /\ noisy' \in BOOLEAN /\ GivesUp
      BY <1>1, <1>2, <1>6, <2>1, <2>5 DEF IInv, Typed, SdPc
    <3> QED BY <1>1, <1>3, <1>4, <2>1, <2>2, <3>1, <3>2, SdGivesUp
  <2> QED BY <2>4, <2>5
<1>7. CASE ~x.ok
  BY <1>1, <1>2, <1>3, <1>4, <1>5, <1>7, SdCommand DEF SdPc
<1> QED BY <1>6, <1>7

\* CMD13: an error ends the routine; a card taken for version 1 has no more to be told.
LEMMA SdStatusKeeps ==
    ASSUME IInv, SdCardSwitchBusWidth, pc = "SdStatus"
    PROVE  IInv'
<1> DEFINE a == SendStatus(rca)
<1>1. PICK x \in Exchange("R1", a) :
        /\ card' = x.card /\ noisy' = (noisy \/ x.lost)
        /\ IF x.ok THEN IF x.r.error THEN GivesUp /\ UNCHANGED host
                        ELSE IF ~version1
                        THEN /\ host' = [host EXCEPT !.width = cap.width, !.ddr = cap.ddr50]
                             /\ pc' = "SdCheck" /\ result' = result
                        ELSE IF switch.selected = AccessMode(switch)
                        THEN /\ host' = [width |-> cap.width, ddr |-> cap.ddr50,
                                         clock |-> ClockFreq(AccessMode(switch))]
                             /\ pc' = "off" /\ result' = "success"
                        ELSE /\ host' = [host EXCEPT !.width = cap.width, !.ddr = cap.ddr50]
                             /\ GivesUp
           ELSE GivesUp /\ UNCHANGED host
        /\ UNCHANGED <<cap, slot, version1, rca, switch, extCsd, tries>>
  BY DEF SdCardSwitchBusWidth, Send, SetWidth, Succeeds
<1>2. pc = "SdStatus" /\ Awaited("R1")
  BY DEF SdCardSwitchBusWidth, Awaited
<1>3. card # NoCard => /\ card \in CardStates /\ card.kind \in {"Sd", "Emmc"}
                       /\ card.kind = "Emmc" => ~card.error
                       /\ card.error \in BOOLEAN
  BY <1>2, SdHere DEF SdPc, CardStates
<1>4. /\ a.heard \in BOOLEAN
      /\ IF card = NoCard THEN ~a.heard /\ a.card = card
         ELSE /\ a.card = IF a.heard THEN [card EXCEPT !.error = FALSE] ELSE card
              /\ card.kind = "Sd" /\ a.heard /\ a.r.error = card.error
  BY <1>2, <1>3, SendStatusReply DEF IInv, SdStage, Clean, Identifiable, Addressed, SdPc, SdTran
<1> HIDE DEF a
<1>5. card # NoCard =>
        LET c == a.card
        IN  /\ c \in CardStates /\ c # NoCard /\ c.kind = card.kind /\ c.is = card.is
            /\ c.kind = "Emmc" => ~c.error
  BY ZenonT(60), <1>3, <1>4, StatusRead DEF CardStates, NoCard
<1>6. CASE x.ok
  <2>1. /\ card # NoCard /\ a.heard
        /\ card' = [card EXCEPT !.error = FALSE]
        /\ card' \in CardStates /\ card' # NoCard
        /\ card'.kind = card.kind /\ card'.is = card.is
        /\ noisy' = noisy /\ x.r = a.r
    BY <1>1, <1>2, <1>4, <1>5, <1>6, SdCommand DEF SdPc
  <2>2. /\ slot' \in SlotStates /\ slot'.media /\ switch' \in AnyResponse /\ pc \in SdPc
        /\ pc # "off" /\ noisy' \in BOOLEAN
    BY <1>1, <1>2, <1>6, <2>1 DEF IInv, Typed, Counted, SdPc
  <2>3. /\ cap.width \in {1, 4, 8} /\ cap.ddr50 \in BOOLEAN
        /\ ClockFreq(AccessMode(switch)) \in Nat
    BY HostsTyped DEF IInv, HostCapabilities, ClockFreq, AccessMode
  <2>4. x.r.error = card.error
    BY <1>4, <2>1
  <2>5. ~noisy /\ Identifiable => ~card.error /\ ~version1
    BY <1>2, <1>4, <2>1 DEF IInv, Clean, SdPc
  <2>6. Identifiable' = Identifiable
    BY <1>1, <1>6, <2>1 DEF Identifiable
  <2>7. CASE card.error
    <3>1. GivesUp /\ UNCHANGED host
      BY <1>1, <1>6, <2>4, <2>7
    <3> QED BY <1>1, <1>3, <1>4, <2>1, <2>2, <2>5, <2>6, <2>7, <3>1, SdGivesUp DEF IInv, Typed
  <2>8. CASE ~card.error /\ ~version1
    <3>1. /\ host' = [host EXCEPT !.width = cap.width, !.ddr = cap.ddr50]
          /\ pc' = "SdCheck" /\ result' = result
      BY <1>1, <1>6, <2>4, <2>8
    <3>2. /\ host' \in HostStates /\ host'.width = cap.width /\ host'.ddr = cap.ddr50
          /\ host'.clock = host.clock
      BY <2>3, <3>1 DEF IInv, Typed, HostStates
    <3> QED BY <1>1, <1>2, <1>3, <1>4, <2>1, <2>8, <3>1, <3>2, StatusRead
        DEF IInv, Typed, Counted, Clocked, HostMatchesCard, EmmcStage, SdStage, KindInv, Clean,
         Addressed, SdPc, EmmcPc, SdTran, EmmcTran, Identifiable
  <2>9. CASE ~card.error /\ version1 /\ switch.selected = AccessMode(switch)
    <3>1. /\ host' = [width |-> cap.width, ddr |-> cap.ddr50,
                      clock |-> ClockFreq(AccessMode(switch))]
          /\ pc' = "off" /\ result' = "success"
      BY <1>1, <1>6, <2>4, <2>9
    <3>2. host' \in HostStates
      BY <2>3, <3>1 DEF HostStates
    <3> QED BY <1>1, <1>2, <1>3, <1>4, <2>1, <2>9, <3>1, <3>2, StatusRead
        DEF IInv, Typed, Counted, Clocked, HostMatchesCard, EmmcStage, SdStage, KindInv, Clean,
         Addressed, SdPc, EmmcPc, SdTran, EmmcTran, Identifiable
  <2>10. CASE ~card.error /\ version1 /\ switch.selected # AccessMode(switch)
    <3>1. host' = [host EXCEPT !.width = cap.width, !.ddr = cap.ddr50] /\ GivesUp
      BY <1>1, <1>6, <2>4, <2>10
    <3>2. host' \in HostStates
      BY <2>3, <3>1 DEF IInv, Typed, HostStates
    <3> QED BY <1>1, <1>3, <1>4, <2>1, <2>2, <2>5, <2>6, <2>10, <3>1, <3>2, SdGivesUp
  <2> QED BY <1>3, <2>1, <2>7, <2>8, <2>9, <2>10 DEF IInv, Typed
<1>7. CASE ~x.ok
  BY <1>1, <1>2, <1>3, <1>4, <1>5, <1>7, SdCommand DEF SdPc
<1> QED BY <1>6, <1>7

\* CMD6 to switch: the mode chosen of those the card named.
LEMMA SdSetKeeps ==
    ASSUME IInv, SdCardSwitch, pc = "SdSet"
    PROVE  IInv'
<1> DEFINE mode == AccessMode(switch)
<1>0. /\ mode \in 0 .. 4 /\ mode \in AllFunctions /\ ClockFreq(mode) \in Nat
      /\ (mode = 4 => cap.ddr50)
      /\ mode = 0 \/ mode \in switch.supported
  BY DEF AccessMode, ClockFreq, AllFunctions
<1> DEFINE a == SwitchFunc(AccessMode(switch))
<1>1. PICK x \in Exchange("R1", a) :
        /\ card' = x.card /\ noisy' = (noisy \/ x.lost)
        /\ IF x.ok THEN /\ switch' = x.r
                        /\ IF x.r.selected = mode
                           THEN /\ host' = [host EXCEPT !.clock = ClockFreq(mode)]
                                /\ pc' = "off" /\ result' = "success"
                           ELSE GivesUp /\ UNCHANGED host
           ELSE GivesUp /\ UNCHANGED <<host, switch>>
        /\ UNCHANGED <<cap, slot, version1, rca, extCsd, tries>>
  BY DEF SdCardSwitch, Send, IfSelected, SetClock, Succeeds
<1>2. pc = "SdSet" /\ Awaited("R1")
  BY DEF SdCardSwitch, Awaited
<1>3. card # NoCard => /\ card \in CardStates /\ card.kind \in {"Sd", "Emmc"}
                       /\ card.kind = "Emmc" => ~card.error
                       /\ card.kind = "Sd" => 0 \in card.is.functions /\ ~card.ddr
                       /\ card.is.functions \in SUBSET AllFunctions
  BY <1>2, SdHere DEF SdPc, CardStates, CardKinds
<1>4. /\ a.heard \in BOOLEAN
      /\ IF card = NoCard THEN ~a.heard /\ a.card = card
         ELSE /\ a.card = IF a.heard
                          THEN IF mode \in card.is.functions
                               THEN [card EXCEPT !.mode = mode, !.ddr = (mode = 4)]
                               ELSE card
                          ELSE card
              /\ card.kind = "Sd" /\ (a.heard \/ ~Identifiable)
              /\ a.heard => a.r = [supported |-> card.is.functions,
                                   selected |-> IF mode \in card.is.functions THEN mode ELSE 15]
  BY <1>2, <1>3, SwitchFuncReply DEF IInv, SdStage, Clean, Identifiable, Addressed, SdPc, SdTran
<1> HIDE DEF a, mode
<1>5. card # NoCard =>
        LET c == a.card
        IN  /\ c \in CardStates /\ c # NoCard /\ c.kind = card.kind /\ c.is = card.is
            /\ c.kind = "Emmc" => ~c.error
  BY <1>3, <1>4, <1>0, ZenonT(60) DEF CardStates, NoCard
<1>6. CASE x.ok
  <2>1. /\ card # NoCard /\ a.heard
        /\ card' = IF mode \in card.is.functions
                             THEN [card EXCEPT !.mode = mode, !.ddr = (mode = 4)] ELSE card
        /\ card' \in CardStates /\ card' # NoCard
        /\ card'.kind = card.kind /\ card'.is = card.is
        /\ noisy' = noisy /\ x.r = a.r
    BY <1>1, <1>2, <1>4, <1>5, <1>6, SdCommand DEF SdPc
  <2>2. ~noisy /\ Identifiable => switch.supported = card.is.functions
    BY <1>2, <1>4, <2>1 DEF IInv, Clean, Identifiable
  <2>3. /\ slot' \in SlotStates /\ slot'.media /\ pc \in SdPc /\ pc # "off" /\ noisy' \in BOOLEAN
        /\ host \in HostStates
    BY <1>1, <1>2, <1>6, <2>1 DEF IInv, Typed, Counted, SdPc
  <2>4. Identifiable' = Identifiable
    BY <1>1, <1>6, <2>1 DEF Identifiable
  <2>5. CASE mode \in card.is.functions
    <3>1. switch' = [supported |-> card.is.functions, selected |-> mode]
      BY <1>1, <1>4, <1>6, <2>1, <2>5
    <3>2. switch' \in AnyResponse /\ x.r.selected = mode
      BY <1>0, <1>1, <1>3, <1>6, <2>1, <3>1, ResponseTyped
    <3>3. /\ host' = [host EXCEPT !.clock = ClockFreq(mode)]
          /\ pc' = "off" /\ result' = "success"
      BY <1>1, <1>6, <3>2
    <3>4. /\ host' \in HostStates /\ host'.width = host.width /\ host'.ddr = host.ddr
          /\ host'.clock = ClockFreq(mode)
      BY <1>0, <2>3, <3>3, HostClockSet
    <3>5. /\ card'.state = "tran" /\ card'.rca = card.rca /\ card'.width = card.width
          /\ card'.mode = mode /\ card'.kind = "Sd" /\ card'.ddr \in BOOLEAN
          /\ (card'.ddr <=> mode = 4)
      <4>1. card' = [card EXCEPT !.mode = mode, !.ddr = (mode = 4)]
        BY <2>1, <2>5
      <4>2. card.state = "tran" /\ card.kind = "Sd" /\ card \in CardStates
        BY <1>2, <1>3, <1>4, <2>1 DEF IInv, SdStage, SdTran
      <4>3. /\ card'.state = card.state /\ card'.rca = card.rca /\ card'.width = card.width
            /\ card'.mode = mode /\ card'.kind = card.kind
        BY <1>0, <4>1, <4>2 DEF CardStates
      <4>4. card'.ddr \in BOOLEAN /\ (card'.ddr <=> mode = 4)
        BY <1>0, <4>1, <4>2 DEF CardStates
      <4> QED BY <4>2, <4>3, <4>4
    <3>6. HostMatchesCard'
      <4>1. card'.state \notin {"idle", "ready", "ident"}
        BY <3>5
      <4>2. MaxClock' = ClockFreq(mode)
        BY <3>5, <4>1 DEF MaxClock, ClockFreq
      <4>3. card'.rca = rca' /\ slot'.type = card'.kind /\ host.width = card.width
            /\ ~card.ddr /\ host.ddr = cap.ddr50
        <5>1. card.rca = rca /\ slot.type = card.kind /\ host.width = card.width /\ host.ddr = cap.ddr50
          BY <1>2, <2>1 DEF IInv, SdStage, SdTran, Addressed
        <5>2. rca' = rca /\ slot' = slot
          BY <1>1
        <5>3. ~card.ddr
          BY <1>3, <2>1, <3>5
        <5>4. card'.rca = rca' /\ slot'.type = card'.kind
          BY <2>1, <3>5, <5>1, <5>2
        <5> QED BY <5>1, <5>3, <5>4
      <4>4. DdrIsTold' => host'.ddr = card'.ddr
        <5>1. cap.ddr50 \in BOOLEAN
          BY HostsTyped DEF IInv, HostCapabilities
        <5> QED BY <1>0, <1>1, <1>6, <3>4, <3>5, <4>3, <5>1 DEF DdrIsTold
      <4>5. host'.width = card'.width /\ host'.clock <= MaxClock' /\ card'.state = "tran"
        BY <1>0, <3>4, <3>5, <4>2, <4>3
      <4> QED BY <4>3, <4>4, <4>5 DEF HostMatchesCard
    <3>7. Typed' /\ Counted' /\ Clocked'
      BY <1>1, <1>6, <2>1, <2>3, <3>2, <3>3, <3>4, <1>3
         DEF IInv, Typed, Counted, Clocked, SdPc, EmmcPc
    <3>8. EmmcStage' /\ SdStage' /\ KindInv' /\ Clean'
      BY <1>1, <1>6, <2>1, <2>3, <3>3, <3>5
         DEF EmmcStage, SdStage, KindInv, Clean, EmmcPc, SdPc, EmmcTran, SdTran
    <3> QED BY <3>6, <3>7, <3>8 DEF IInv
  <2>6. CASE mode \notin card.is.functions
    <3>1. switch' = [supported |-> card.is.functions, selected |-> 15]
      BY <1>1, <1>4, <1>6, <2>1, <2>6
    <3>2. switch' \in AnyResponse /\ x.r.selected = 15
      BY <1>1, <1>3, <1>6, <2>1, <3>1, ResponseTyped
    <3>3. GivesUp /\ UNCHANGED host
      BY <1>0, <1>1, <1>6, <3>2
    <3>4. noisy \/ ~Identifiable
      BY <1>0, <1>3, <1>4, <2>1, <2>2, <2>6
    <3> QED BY <1>1, <1>3, <1>4, <1>6, <2>1, <2>3, <2>4, <2>6, <3>2, <3>3, <3>4, SdGivesUp
       DEF IInv, Typed
  <2> QED BY <2>5, <2>6
<1>7. CASE ~x.ok
  BY <1>1, <1>2, <1>3, <1>4, <1>5, <1>7, SdCommand DEF SdPc
<1> QED BY <1>6, <1>7

\* CMD0, which every card takes and none answers.
LEMMA CardReset ==
    ASSUME IInv, NEW x \in Exchange("none", GoIdle), card' = x.card
    PROVE  /\ x.ok = TRUE /\ x.lost \in BOOLEAN
           /\ card = NoCard => card' = NoCard
           /\ card # NoCard =>
                 /\ card' \in CardStates /\ card' # NoCard
                 /\ card'.kind = card.kind /\ card'.is = card.is
                 /\ \/ card' = card /\ x.lost
                    \/ card'.state = "idle" /\ ~card'.error /\ ~card'.ddr /\ card'.mode = 0
<1>1. /\ x.ok = TRUE /\ x.lost \in BOOLEAN /\ card' \in {card, GoIdle.card}
      /\ ~x.lost => card' = GoIdle.card
  BY ExchangeUnawaited DEF Awaited
<1>2. CASE card = NoCard
  BY <1>1, <1>2, GoIdleReply DEF IInv
<1>3. CASE card # NoCard
  <2> DEFINE c == Idle(card.is, FALSE)
  <2>1. card \in CardStates /\ card.kind = card.is.kind /\ card.is \in Cards /\ GoIdle.card = c
    BY <1>3, GoIdleReply DEF IInv, Typed, CardStates
  <2>2. c \in CardStates /\ c # NoCard
    BY <2>1, IdleTyped DEF Idle, NoCard
  <2>3. /\ c.kind = card.is.kind /\ c.is = card.is /\ c.state = "idle" /\ ~c.error
        /\ ~c.ddr /\ c.mode = 0
    BY DEF Idle
  <2> HIDE DEF c
  <2> QED BY <1>1, <1>3, <2>1, <2>2, <2>3
<1> QED BY <1>2, <1>3

\* CMD0 starts the eMMC routine and its count of attempts.
LEMMA EmmcResetKeeps ==
    ASSUME IInv, EmmcReset
    PROVE  IInv'
<1>1. PICK x \in Exchange("none", GoIdle) :
        /\ card' = x.card /\ noisy' = (noisy \/ x.lost)
        /\ x.ok => pc' = "EmmcGetOcr" /\ tries' = Tries /\ result' = result
        /\ x.ok => UNCHANGED <<cap, host, slot, version1, rca, switch, extCsd>>
  BY DEF EmmcReset, Send
<1>2. pc = "EmmcReset"
  BY DEF EmmcReset
<1>3. /\ pc' = "EmmcGetOcr" /\ tries' = Tries /\ result' = result
      /\ UNCHANGED <<cap, host, slot, version1, rca, switch, extCsd>>
      /\ noisy' \in BOOLEAN /\ (noisy => noisy') /\ (x.lost => noisy')
      /\ tries' > 0 /\ tries' \in 0 .. Tries
  <2>1. x.ok = TRUE /\ x.lost \in BOOLEAN /\ noisy \in BOOLEAN
    BY <1>1, CardReset DEF IInv, Typed
  <2>2. Tries \in Nat \ {0, 1}
    BY IdentificationAssumption
  <2> QED BY <1>1, <2>1, <2>2
<1> QED BY <1>1, <1>2, <1>3, CardReset, ZenonT(60)
    DEF IInv, Typed, Counted, Clocked, HostMatchesCard, EmmcStage, SdStage, KindInv, Clean,
         Addressed, SdPc, EmmcPc, SdTran, EmmcTran, Identifiable

\* CMD0 starts the SD routine.
LEMMA SdResetKeeps ==
    ASSUME IInv, SdCardReset
    PROVE  IInv'
<1>1. PICK x \in Exchange("none", GoIdle) :
        /\ card' = x.card /\ noisy' = (noisy \/ x.lost)
        /\ x.ok => pc' = "SdVoltageCheck" /\ version1' = FALSE /\ result' = result
        /\ x.ok => UNCHANGED <<cap, host, slot, rca, switch, extCsd, tries>>
  BY DEF SdCardReset, Send
<1>2. pc = "SdReset"
  BY DEF SdCardReset
<1>3. /\ pc' = "SdVoltageCheck" /\ version1' = FALSE /\ result' = result
      /\ UNCHANGED <<cap, host, slot, rca, switch, extCsd, tries>>
      /\ noisy' \in BOOLEAN /\ (noisy => noisy') /\ (x.lost => noisy')
  BY <1>1, CardReset DEF IInv, Typed
<1> QED BY <1>1, <1>2, <1>3, CardReset, ZenonT(60)
    DEF IInv, Typed, Counted, Clocked, HostMatchesCard, EmmcStage, SdStage, KindInv, Clean,
         Addressed, SdPc, EmmcPc, SdTran, EmmcTran, Identifiable

\* CMD8: not awaited in an eMMC's slot, and then the card is taken for version 1.
LEMMA SdVoltageCheckKeeps ==
    ASSUME IInv, SdCardVoltageCheck
    PROVE  IInv'
<1> DEFINE a == SendIfCond(511)
<1>1. PICK x \in Exchange("R7", a) :
        /\ card' = x.card /\ noisy' = (noisy \/ x.lost)
        /\ version1' = ~(x.ok /\ x.r = 511)
  BY DEF SdCardVoltageCheck
<1>2. /\ pc = "SdVoltageCheck" /\ pc' = "SdInquire"
      /\ UNCHANGED <<cap, host, slot, rca, switch, extCsd, tries, result>>
  BY DEF SdCardVoltageCheck
<1>3. card # NoCard => /\ card \in CardStates /\ card.kind \in {"Sd", "Emmc"}
                       /\ card.kind = "Emmc" => ~card.error
  BY <1>2, SdHere DEF SdPc, CardStates
<1>4. /\ a.heard \in BOOLEAN
      /\ a.heard <=> card # NoCard /\ card.kind = "Sd" /\ card.state = "idle" /\ ~card.is.version1
      /\ a.heard => a.r = 511 /\ a.card = [card EXCEPT !.told = TRUE]
      /\ ~a.heard => a.card = card
  BY ZenonT(60), SendIfCondReply
<1>5. Awaited("R7") <=> slot.type # "Emmc"
  BY DEF Awaited
<1> HIDE DEF a
<1>6. a.card = card \/ /\ a.heard /\ card # NoCard /\ a.card \in CardStates /\ a.card # NoCard
                       /\ a.card.kind = card.kind /\ a.card.is = card.is
                       /\ a.card.state = card.state /\ a.card.error = card.error
                       /\ a.card.ddr = card.ddr /\ a.card.mode = card.mode
  <2>1. CASE ~a.heard
    BY <1>4, <2>1
  <2>2. CASE a.heard
    <3>1. card \in CardStates /\ a.card = [card EXCEPT !.told = TRUE]
      BY <1>3, <1>4, <2>2
    <3> QED BY <1>4, <2>2, <3>1, ZenonT(60) DEF CardStates, NoCard
  <2> QED BY <1>4, <2>1, <2>2
<1>7. /\ x.lost \in BOOLEAN /\ card' \in {card, a.card}
      /\ slot.type # "Emmc" /\ a.heard /\ ~x.lost => x.ok = TRUE /\ x.r = 511
  BY <1>1, <1>4, <1>5, ExchangeAwaited, ExchangeUnawaited, ZenonT(60)
<1>8. /\ noisy' \in BOOLEAN /\ (noisy => noisy') /\ (x.lost => noisy') /\ version1' \in BOOLEAN
      /\ slot.type # "Emmc" /\ a.heard /\ ~noisy' => ~version1'
  BY <1>1, <1>7 DEF IInv, Typed
<1>9. card = NoCard => card' = NoCard
  BY <1>6, <1>7
<1>10. card # NoCard =>
         /\ card' \in CardStates /\ card' # NoCard /\ card'.kind = card.kind /\ card'.is = card.is
         /\ card'.state = card.state /\ card'.error = card.error
         /\ card'.ddr = card.ddr /\ card'.mode = card.mode
  BY <1>3, <1>6, <1>7
<1>11. card # NoCard => Clean'
  BY <1>2, <1>4, <1>8, <1>10 DEF IInv, Typed, Counted, Clean, Identifiable, SdPc, EmmcPc
<1> QED BY <1>2, <1>8, <1>9, <1>10, <1>11
    DEF IInv, Typed, Counted, Clocked, HostMatchesCard, EmmcStage, SdStage, KindInv, Clean,
         Addressed, SdPc, EmmcPc, SdTran, EmmcTran, Identifiable

\* CMD3: not awaited in an eMMC's slot, and then the address is 0.
LEMMA SdSetRcaKeeps ==
    ASSUME IInv, SdCardSetRca
    PROVE  IInv'
<1> DEFINE a == SetRelativeAddr(0)
<1>1. PICK x \in Exchange("R6", a) :
        /\ card' = x.card /\ noisy' = (noisy \/ x.lost)
        /\ IF x.ok THEN pc' = "SdGetCsd" /\ rca' = x.r /\ result' = result
           ELSE GivesUp /\ UNCHANGED rca
        /\ UNCHANGED <<cap, host, slot, version1, switch, extCsd, tries>>
  BY DEF SdCardSetRca, Send
<1>2. pc = "SdSetRca" /\ (Awaited("R6") <=> slot.type # "Emmc")
  BY DEF SdCardSetRca, Awaited
<1>3. card # NoCard => card \in CardStates /\ card.kind = "Sd" /\ card.state = "ident"
  BY <1>2, SdHere DEF IInv, SdStage, SdPc
<1>4. /\ a.heard \in BOOLEAN
      /\ IF card = NoCard THEN ~a.heard /\ a.card = card
         ELSE a.heard /\ a.card = [card EXCEPT !.state = "stby", !.rca = 7] /\ a.r = 7
  BY <1>2, <1>3, SetRelativeAddrReply
<1> HIDE DEF a
<1>5. card # NoCard =>
        LET c == a.card
        IN  /\ c \in CardStates /\ c # NoCard /\ c.kind = card.kind /\ c.is = card.is
            /\ c.state = "stby" /\ c.rca = 7 /\ c.error = card.error
            /\ c.ddr = card.ddr /\ c.mode = card.mode
  BY <1>3, <1>4, ZenonT(60) DEF CardStates, NoCard
<1>6. CASE Awaited("R6") /\ x.ok
  <2>1. /\ card # NoCard /\ card' = a.card /\ noisy' = noisy /\ x.r = a.r
    BY <1>1, <1>2, <1>3, <1>4, <1>5, <1>6, SdCommand DEF SdPc
  <2>2. rca' = 7 /\ pc' = "SdGetCsd" /\ result' = result /\ slot.type = "Sd"
    BY <1>1, <1>2, <1>4, <1>6, <2>1 DEF IInv, Typed, SlotStates
  <2> QED BY <1>1, <1>2, <1>3, <1>5, <2>1, <2>2
      DEF IInv, Typed, Counted, Clocked, HostMatchesCard, EmmcStage, SdStage, KindInv, Clean,
         Addressed, SdPc, EmmcPc, SdTran, EmmcTran, Identifiable, CardStates
<1>7. CASE Awaited("R6") /\ ~x.ok
  BY <1>1, <1>2, <1>3, <1>4, <1>5, <1>7, SdCommand DEF SdPc
<1>8. CASE ~Awaited("R6")
  <2>1. /\ x.ok = TRUE /\ x.r = 0 /\ card' \in {card, a.card} /\ x.lost \in BOOLEAN
    BY <1>1, <1>8, ExchangeUnawaited
  <2>2. slot.type = "Emmc" /\ noisy' \in BOOLEAN /\ (noisy => noisy')
    BY <1>1, <1>2, <1>8, <2>1 DEF IInv, Typed
  <2> QED BY <1>1, <1>2, <1>3, <1>4, <1>5, <2>1, <2>2
      DEF IInv, Typed, Counted, Clocked, HostMatchesCard, EmmcStage, SdStage, KindInv, Clean,
         Addressed, SdPc, EmmcPc, SdTran, EmmcTran, Identifiable, CardStates
<1> QED BY <1>6, <1>7, <1>8

\* CMD1 is attempted more than once.
LEMMA TriesTyped == Tries \in Nat /\ Tries > 1
BY IdentificationAssumption

\* CMD1: answered and ready, answered and not yet, out of attempts, or no answer.
LEMMA EmmcGetOcrKeeps ==
    ASSUME IInv, EmmcGetOcr
    PROVE  IInv'
<1> DEFINE a == SendOpCond
<1>1. PICK x \in Exchange("R3", a) :
        /\ card' = x.card /\ noisy' = (noisy \/ x.lost \/ tries = 1)
        /\ IF x.ok
           THEN /\ tries' = tries - 1
                /\ IF tries' = 0 THEN GivesUp
                   ELSE pc' = (IF x.r THEN "EmmcGetAllCid" ELSE pc) /\ result' = result
           ELSE GivesUp /\ tries' = tries
        /\ UNCHANGED <<cap, host, slot, version1, rca, switch, extCsd>>
  BY DEF EmmcGetOcr, Send, Attempt
<1>2. pc = "EmmcGetOcr" /\ Awaited("R3") /\ tries \in 1 .. Tries
  BY DEF EmmcGetOcr, Awaited, IInv, Typed, Counted
<1>3. card # NoCard => /\ card \in CardStates /\ card.kind \in {"Sd", "Emmc"}
                       /\ card.ready \in BOOLEAN
                       /\ card.kind = "Emmc" => ~card.error
  BY DEF IInv, Typed, KindInv, CardStates
<1>4. /\ a.heard \in BOOLEAN
      /\ a.heard <=> card # NoCard /\ card.kind = "Emmc" /\ card.state = "idle"
      /\ a.heard =>
            /\ a.r = card.ready
            /\ a.card = IF card.ready THEN [card EXCEPT !.state = "ready"] ELSE card
      /\ ~a.heard => a.card = card
  BY SendOpCondReply
<1> HIDE DEF a
<1>5. card # NoCard =>
        LET c == a.card
        IN  /\ c \in CardStates /\ c # NoCard /\ c.kind = card.kind /\ c.is = card.is
            /\ c.error = card.error /\ c.ddr = card.ddr /\ c.mode = card.mode
            /\ a.heard => c.state = IF card.ready THEN "ready" ELSE "idle"
  BY <1>3, <1>4 DEF CardStates, NoCard
<1>6. /\ x.ok \in BOOLEAN /\ x.lost \in BOOLEAN /\ card' \in {card, a.card}
      /\ x.ok => a.heard /\ card' = a.card /\ x.r = a.r /\ ~x.lost
      /\ ~x.ok /\ ~x.lost => ~a.heard
  BY <1>1, <1>2, <1>4, ExchangeAwaited
<1>7. noisy' \in BOOLEAN /\ (noisy => noisy') /\ (x.lost => noisy') /\ (tries = 1 => noisy')
  BY <1>1, <1>6 DEF IInv, Typed
<1>8. CASE x.ok /\ tries # 1
  <2>1. /\ tries' = tries - 1 /\ tries' > 0 /\ tries' \in 0 .. Tries /\ noisy' = noisy
        /\ pc' = (IF card.ready THEN "EmmcGetAllCid" ELSE pc) /\ result' = result
    <3>1. x.ok = TRUE /\ x.lost = FALSE /\ noisy \in BOOLEAN /\ tries # 1
      BY <1>6, <1>8 DEF IInv, Typed
    <3>2. tries' = tries - 1 /\ noisy' = noisy
      BY <1>1, <3>1
    <3>3. tries' > 0 /\ tries' \in 0 .. Tries
      BY <1>2, <3>1, <3>2, IdentificationAssumption
    <3>4. x.r = card.ready
      BY <1>4, <1>6, <3>1
    <3> QED BY <1>1, <3>1, <3>2, <3>3, <3>4
  <2>2. /\ card # NoCard /\ card.kind = "Emmc" /\ card.ready \in BOOLEAN
        /\ card' \in CardStates /\ card' # NoCard /\ card'.kind = card.kind /\ card'.is = card.is
        /\ card'.error = card.error /\ card'.ddr = card.ddr /\ card'.mode = card.mode
        /\ card'.state = IF card.ready THEN "ready" ELSE "idle"
    BY <1>3, <1>4, <1>5, <1>6, <1>8
  <2>3. UNCHANGED <<cap, host, slot, version1, rca, switch, extCsd>>
    BY <1>1
  <2>4. \/ pc' = "EmmcGetAllCid" /\ card'.state = "ready"
        \/ pc' = "EmmcGetOcr" /\ card'.state = "idle"
    BY <1>2, <2>1, <2>2
  <2>5. Typed' /\ Counted' /\ Clocked' /\ HostMatchesCard'
    BY <1>2, <2>1, <2>2, <2>3, <2>4
       DEF IInv, Typed, Counted, Clocked, HostMatchesCard, SdPc, EmmcPc
  <2>6. EmmcStage' /\ SdStage' /\ KindInv' /\ Clean'
    BY <1>2, <2>2, <2>3, <2>4
       DEF IInv, EmmcStage, SdStage, KindInv, Clean, SdPc, EmmcPc, SdTran, EmmcTran, Identifiable
  <2> QED BY <2>5, <2>6 DEF IInv
<1>9. CASE x.ok /\ tries = 1
  <2>1. tries' = 0 /\ GivesUp
    BY <1>1, <1>9
  <2>2. tries' \in 0 .. Tries /\ noisy'
    BY <1>7, <1>9, <2>1, TriesTyped
  <2> QED BY <1>1, <1>2, <1>3, <1>4, <1>5, <1>6, <1>7, <2>1, <2>2, EmmcGivesUp DEF EmmcPc
<1>10. CASE ~x.ok
  <2>1. GivesUp /\ tries' = tries
    BY <1>1, <1>10
  <2>2. card # NoCard /\ card.kind = "Emmc" => noisy'
    BY <1>2, <1>4, <1>6, <1>7, <1>10 DEF IInv, Clean
  <2>3. card = NoCard => card' = NoCard
    BY <1>4, <1>6
  <2>4. card # NoCard /\ card.kind = "Sd" => card' = card
    BY <1>4, <1>6
  <2> QED BY <1>1, <1>2, <1>3, <1>5, <1>6, <1>7, <2>1, <2>2, <2>3, <2>4, EmmcGivesUp DEF EmmcPc
<1> QED BY <1>6, <1>8, <1>9, <1>10

\* The enumeration resets the controller for a card that is new, and forgets one gone.
LEMMA EnumerateKeeps ==
    ASSUME IInv, DwMmcHcEnumerateDevice
    PROVE  IInv'
<1>1. /\ pc = "off" /\ card' = card /\ cap' = cap
      /\ rca' = 0 /\ version1' = FALSE /\ tries' = 0 /\ extCsd' = {} /\ result' = "none"
  BY DEF DwMmcHcEnumerateDevice
<1>2. switch' \in AnyResponse /\ tries' \in 0 .. Tries /\ extCsd' \in SUBSET AllTypes
  BY IdentificationAssumption DEF DwMmcHcEnumerateDevice, AnyResponse, AllFunctions
<1>3. slot' \in SlotStates /\ (slot'.media <=> card # NoCard)
  BY DEF DwMmcHcEnumerateDevice, IInv, Typed, SlotStates
<1>4. CASE card # NoCard
  <2>1. pc' = "EmmcReset" /\ noisy' = FALSE /\ host' = DwMmcHcReset
    BY <1>4 DEF DwMmcHcEnumerateDevice
  <2>3. host' \in HostStates /\ host'.clock = InitClock
    BY <2>1 DEF DwMmcHcReset, HostStates, InitClock
  <2>2. ~slot.media
    BY <1>4 DEF DwMmcHcEnumerateDevice, IInv, Typed, SlotStates
  <2> QED BY <1>1, <1>2, <1>3, <1>4, <2>1, <2>2, <2>3
      DEF IInv, Typed, Counted, Clocked, HostMatchesCard, EmmcStage, SdStage, KindInv, Clean,
         Addressed, SdPc, EmmcPc, SdTran, EmmcTran, Identifiable
<1>5. CASE card = NoCard
  <2>1. pc' = "off" /\ host' = host /\ noisy' = noisy
    BY <1>1, <1>5 DEF DwMmcHcEnumerateDevice
  <2> QED BY <1>1, <1>2, <1>3, <1>5, <2>1
     DEF IInv, Typed, Counted, Clocked, HostMatchesCard, EmmcPc, SdPc
<1> QED BY <1>4, <1>5

\* A card inserted is idle, and nothing knows of it yet.
LEMMA InsertKeeps ==
    ASSUME IInv, NEW c \in Cards, InsertCard(c)
    PROVE  IInv'
<1>1. /\ card = NoCard /\ pc = "off" /\ ~slot.media /\ card' = Idle(c, FALSE)
      /\ UNCHANGED <<cap, host, slot, pc, version1, rca, switch, extCsd, tries, result, noisy>>
  BY DEF InsertCard
<1>2. /\ Idle(c, FALSE).kind = c.kind /\ Idle(c, FALSE).is = c /\ Idle(c, FALSE).state = "idle"
      /\ ~Idle(c, FALSE).error /\ ~Idle(c, FALSE).ddr /\ Idle(c, FALSE).mode = 0
      /\ Idle(c, FALSE) # NoCard /\ Idle(c, FALSE) \in CardStates
  BY IdleTyped DEF Idle, NoCard
<1> QED BY <1>1, <1>2
    DEF IInv, Typed, Counted, Clocked, HostMatchesCard, EmmcStage, SdStage, KindInv, Clean,
         Addressed, SdPc, EmmcPc, SdTran, EmmcTran, Identifiable

\* A card pulled takes all that was said of it along.
LEMMA PullKeeps ==
    ASSUME IInv, PullCard
    PROVE  IInv'
BY DEF PullCard, IInv, Typed, Counted, Clocked, HostMatchesCard

\* A card that gets ready stays idle until it is asked.
LEMMA GetsReadyKeeps ==
    ASSUME IInv, CardGetsReady
    PROVE  IInv'
<1>1. /\ card # NoCard /\ card.state = "idle" /\ card \in CardStates
      /\ card' = [card EXCEPT !.ready = TRUE]
      /\ UNCHANGED <<cap, host, slot, pc, version1, rca, switch, extCsd, tries, result, noisy>>
  BY DEF CardGetsReady, IInv, Typed
<1>2. /\ card' \in CardStates /\ card' # NoCard /\ card'.kind = card.kind /\ card'.is = card.is
      /\ card'.state = card.state /\ card'.rca = card.rca /\ card'.width = card.width
      /\ card'.ddr = card.ddr /\ card'.mode = card.mode /\ card'.error = card.error
  BY <1>1 DEF CardStates, NoCard
<1>3. HostMatchesCard'
  BY <1>1, <1>2 DEF IInv, HostMatchesCard, DdrIsTold
<1>4. Typed' /\ Counted' /\ Clocked'
  BY <1>1, <1>2 DEF IInv, Typed, Counted, Clocked
<1>5. EmmcStage' /\ SdStage' /\ KindInv' /\ Clean'
  BY <1>1, <1>2 DEF IInv, EmmcStage, SdStage, KindInv, Clean, Identifiable, Addressed, Matched,
                    DdrIsTold, EmmcTran, SdTran, EmmcPc, SdPc
<1> QED BY <1>3, <1>4, <1>5 DEF IInv

\* A step of something else.
LEMMA StutterKeeps ==
    ASSUME IInv, UNCHANGED vars
    PROVE  IInv'
<1>1. UNCHANGED <<cap, card, host, slot, pc, version1, rca, switch, extCsd, tries, result, noisy>>
  BY DEF vars
<1>2. Typed' /\ Counted' /\ Clocked'
  BY <1>1 DEF IInv, Typed, Counted, Clocked
<1>3. HostMatchesCard' = HostMatchesCard /\ Matched' = Matched
  BY <1>1 DEF HostMatchesCard, Matched, DdrIsTold, MaxClock
<1>4. EmmcStage' = EmmcStage
  BY <1>1, <1>3 DEF EmmcStage, Addressed, EmmcTran, EmmcPc, Timing
<1>5. SdStage' = SdStage /\ KindInv' = KindInv
  BY <1>1 DEF SdStage, KindInv, Addressed
<1>6. Clean' = Clean
  BY <1>1 DEF Clean, Identifiable
<1> QED BY <1>1, <1>2, <1>3, <1>4, <1>5, <1>6 DEF IInv

-----------------------------------------------------------------------------
(* The theorems.                                                            *)

\* The invariant holds before the first card.
LEMMA InitIInv == Init => IInv
<1> SUFFICES ASSUME Init PROVE IInv
  OBVIOUS
<1>1. host \in HostStates /\ host.clock = InitClock
  BY DEF Init, HostStates, InitClock
<1>2. slot \in SlotStates /\ slot.media = FALSE
  BY IdentificationAssumption DEF Init, SlotStates
<1>3. switch \in AnyResponse /\ extCsd \in SUBSET AllTypes /\ tries \in 0 .. Tries
  BY IdentificationAssumption DEF Init, AnyResponse, AllFunctions
<1>4. cap \in Hosts /\ card = NoCard /\ pc = "off" /\ result = "none" /\ rca = 0
      /\ version1 = FALSE /\ noisy = FALSE
  BY DEF Init
<1> QED BY <1>1, <1>2, <1>3, <1>4
    DEF IInv, Typed, Counted, Clocked, HostMatchesCard, EmmcPc, SdPc

\* One case per function that sends a command, and per command where one sends several.
LEMMA NextIInv == IInv /\ [Next]_vars => IInv'
<1> SUFFICES ASSUME IInv, [Next]_vars PROVE IInv'
  OBVIOUS
<1>1. CASE EmmcIdentification
  <2>1. ASSUME EmmcSendStatus PROVE IInv'
    <3>1. pc \in {"EmmcInTran", "EmmcOneBitStatus", "EmmcExit"}
      BY <2>1 DEF EmmcSendStatus
    <3> QED BY <2>1, <3>1, EmmcInTranKeeps, EmmcOneBitStatusKeeps, EmmcExitKeeps
  <2>2. ASSUME EmmcSwitchClockFreq PROVE IInv'
    <3>1. pc \in {"EmmcTiming", "EmmcTimingStatus"}
      BY <2>2 DEF EmmcSwitchClockFreq
    <3> QED BY <2>2, <3>1, EmmcTimingKeeps, EmmcTimingStatusKeeps
  <2>3. ASSUME EmmcSwitchBusWidth PROVE IInv'
    <3>1. pc \in {"EmmcOneBit", "EmmcWidth", "EmmcWidthStatus"}
      BY <2>3 DEF EmmcSwitchBusWidth
    <3> QED BY <2>3, <3>1, EmmcOneBitKeeps, EmmcWidthKeeps, EmmcWidthStatusKeeps
  <2> QED BY <1>1, <2>1, <2>2, <2>3, EmmcResetKeeps, EmmcGetOcrKeeps, EmmcGetAllCidKeeps,
             EmmcSetRcaKeeps, EmmcGetCsdKeeps, EmmcSelectKeeps, EmmcGetExtCsdKeeps
          DEF EmmcIdentification
<1>2. CASE SdCardIdentification
  <2>1. ASSUME SdCardSendOpCond PROVE IInv'
    <3>1. pc \in {"SdInquire", "SdOpCond"}
      BY <2>1 DEF SdCardSendOpCond
    <3> QED BY <2>1, <3>1, SdInquireKeeps, SdOpCondKeeps
  <2>2. ASSUME SdCardSwitch PROVE IInv'
    <3>1. pc \in {"SdCheck", "SdSet"}
      BY <2>2 DEF SdCardSwitch
    <3> QED BY <2>2, <3>1, SdCheckKeeps, SdSetKeeps
  <2>3. ASSUME SdCardAllSendCid PROVE IInv'
    BY <2>3, SdAllSendCidKeeps DEF SdCardAllSendCid
  <2>4. ASSUME SdCardGetCsd PROVE IInv'
    BY <2>4, SdGetCsdKeeps DEF SdCardGetCsd
  <2>5. ASSUME SdCardSelect PROVE IInv'
    BY <2>5, SdSelectKeeps DEF SdCardSelect
  <2>6. ASSUME SdCardGetScr PROVE IInv'
    BY <2>6, SdGetScrKeeps DEF SdCardGetScr
  <2>7. ASSUME SdCardSetBusWidth PROVE IInv'
    BY <2>7, SdBusWidthKeeps DEF SdCardSetBusWidth
  <2>8. ASSUME SdCardSwitchBusWidth PROVE IInv'
    BY <2>8, SdStatusKeeps DEF SdCardSwitchBusWidth
  <2> QED BY <1>2, <2>1, <2>2, <2>3, <2>4, <2>5, <2>6, <2>7, <2>8,
             SdResetKeeps, SdVoltageCheckKeeps, SdSetRcaKeeps
          DEF SdCardIdentification
<1> QED BY <1>1, <1>2, EnumerateKeeps, InsertKeeps, PullKeeps, GetsReadyKeeps, StutterKeeps
        DEF Next

\* And so it always holds.
LEMMA IInvAlways == Spec => []IInv
BY InitIInv, NextIInv, PTL DEF Spec

\* While a card is being identified, however often commands or answers are lost
\* and whenever the card is pulled, it is clocked at 400 kHz until it has its
\* address, and once it is identified the controller drives it with the width and
\* data rate it was told and no faster than it can go.
THEOREM CardDrivenAsTold == Spec => []DrivenAsTold
<1>1. IInv => TypeOK
  <2> SUFFICES ASSUME IInv PROVE TypeOK
    OBVIOUS
  <2>1. /\ host.width \in {1, 4, 8} /\ host.ddr \in BOOLEAN /\ host.clock \in Nat
        /\ slot.media \in BOOLEAN /\ slot.type \in {"Sd", "Emmc"}
    BY DEF IInv, Typed, HostStates, SlotStates
  <2>2. card = NoCard \/ \E c \in Cards : card.is = c
    BY DEF IInv, Typed, CardStates
  <2> QED BY <2>1, <2>2 DEF IInv, Typed, TypeOK
<1>2. IInv => IdentifiedSlowly
  <2> SUFFICES ASSUME IInv, pc # "off", card # NoCard, ~noisy,
                      card.state \in {"idle", "ready", "ident"}
               PROVE  host.clock = InitClock
    BY DEF IdentifiedSlowly
  <2>1. pc \notin EmmcTran
    BY DEF IInv, EmmcStage
  <2> QED BY <2>1 DEF IInv, Typed, Clocked, EmmcTran
<1> QED BY <1>1, <1>2, IInvAlways, PTL DEF DrivenAsTold, IInv

\* While nothing is lost, the card stays and is ready in time, every command of
\* the routines reaches it in a state in which it may be sent, so that identifying
\* it succeeds whenever it is one that can be identified.
THEOREM IdentifiesTheIdentifiable == Spec => []CleanRunSucceeds
<1>1. IInv => CleanRunSucceeds
  <2> SUFFICES ASSUME IInv, pc = "off", result = "failed", card # NoCard, ~noisy, Identifiable
               PROVE  FALSE
    BY DEF CleanRunSucceeds
  <2>1. card.kind \in {"Sd", "Emmc"}
    BY DEF IInv, Typed, CardStates
  <2> QED BY <2>1 DEF IInv, Clean
<1> QED BY <1>1, IInvAlways, PTL
=============================================================================
