--------------------------- MODULE DwMmcHc_proofs ---------------------------
(* Theorems about DwMmcHc, for every set of packets and every platform, and *)
(* about its transfers, for every length, depth of the FIFO and clock.      *)
EXTENDS DwMmcHc, CardTransfers, SequenceTheorems, WellFoundedInduction, TLAPS

USE DEF Threads, CardTypes, NoCard

-----------------------------------------------------------------------------
(* Type correctness.                                                        *)

LEMMA TypeInit == ASSUME Init PROVE TypeOK
<1>1. busy \in BOOLEAN /\ overlap \in BOOLEAN
  BY Zenon DEF Init
<1>2. card \in CardTypes \cup {NoCard}
  BY PlatformAssumption DEF Init
<1>3. call \in [Threads -> Calls]
  BY DEF Init, IdleCall, Calls, OutsidePcs
<1>4. trb \in [AllPackets -> Trbs]
  BY DEF Init, NoTrb, Trbs
<1>5. /\ slot \in [enable : BOOLEAN, media : BOOLEAN, cardType : CardTypes]
      /\ bus \in [pkt : AllPackets \cup {None}, dma : BOOLEAN]
      /\ dma \in [desc : AllPackets \cup {None}, own : BOOLEAN]
      /\ drv \in [opened : BOOLEAN, installed : BOOLEAN, timers : BOOLEAN]
  BY PlatformAssumption DEF Init, NoSlot, NoBus
<1>6. /\ queue \in Seq(AllPackets)
      /\ event \in [AllPackets -> Events] /\ stat \in [AllPackets -> Statuses]
  BY DEF Init, Events, Statuses
<1>7. /\ enum \in {"idle", "removed", "inserted", "emmc", "emmcMode", "sd", "sdMode"}
      /\ tick \in {"idle", "exec", "issue", "check"}
      /\ rint \in AllPackets \cup {None} /\ idsts \in AllPackets \cup {None}
  BY DEF Init
<1> QED
  BY <1>1, <1>2, <1>3, <1>4, <1>5, <1>6, <1>7, Zenon DEF TypeOK

(* The helpers the actions are built from keep the types of what they       *)
(* change.                                                                  *)

LEMMA GotoType ==
  ASSUME TypeOK, NEW t \in Threads, NEW pc, Goto(t, pc),
         \/ call[t].pc \in InsidePcs /\ pc \in InsidePcs
         \/ call[t].pc \in OutsidePcs /\ pc \in OutsidePcs
  PROVE  call' \in [Threads -> Calls]
<1> DEFINE c == [call[t] EXCEPT !.pc = pc]
<1>0. call[t] \in Calls
  BY DEF TypeOK
<1>1. c \in Calls
  <2>1. CASE call[t].pc \in InsidePcs /\ pc \in InsidePcs
    BY <1>0, <2>1 DEF Calls, InsidePcs, OutsidePcs
  <2>2. CASE call[t].pc \in OutsidePcs /\ pc \in OutsidePcs
    BY <1>0, <2>2 DEF Calls, InsidePcs, OutsidePcs
  <2> QED BY <2>1, <2>2
<1>2. call' = [call EXCEPT ![t] = c]
  BY DEF Goto, TypeOK
<1> HIDE DEF c
<1> QED
  BY <1>1, <1>2 DEF TypeOK

LEMMA CallType ==
  ASSUME TypeOK, NEW t \in Threads
  PROVE  /\ call[t].pc \in InsidePcs \cup OutsidePcs
         /\ call[t].pc \in InsidePcs => call[t].pkt \in AllPackets
         /\ call[t].pc \in OutsidePcs =>
                call[t].pkt = None /\ call[t].async = FALSE
         /\ call[t].async \in BOOLEAN
  BY DEF TypeOK, Calls, InsidePcs, OutsidePcs

LEMMA IdleCallType == /\ IdleCall \in Calls
                      /\ [IdleCall EXCEPT !.pc = "returned"] \in Calls
  BY DEF IdleCall, Calls, OutsidePcs

LEMMA ReturnType ==
  ASSUME TypeOK, NEW t \in Threads, NEW s \in Statuses, Return(t, s)
  PROVE  /\ stat' \in [AllPackets -> Statuses]
         /\ call' \in [Threads -> Calls]
<1> DEFINE c == IF t = "Enum" THEN [IdleCall EXCEPT !.pc = "returned"]
                              ELSE IdleCall
<1>1. c \in Calls
  BY IdleCallType
<1>2. call' = [call EXCEPT ![t] = c] /\ stat' = [stat EXCEPT ![call[t].pkt] = s]
  BY DEF Return
<1> HIDE DEF c
<1> QED
  BY <1>1, <1>2 DEF TypeOK

LEMMA NoTrbType == NoTrb \in Trbs
  BY DEF NoTrb, Trbs

LEMMA SignalType == \A e : Signal(e) \in Events
  BY DEF Signal, Events

LEMMA CompleteHeadType ==
  ASSUME TypeOK, queue # <<>>, NEW s \in Statuses, CompleteHead(s)
  PROVE  /\ Head(queue) \in AllPackets
         /\ queue' \in Seq(AllPackets)
         /\ stat' \in [AllPackets -> Statuses]
         /\ event' \in [AllPackets -> Events]
         /\ trb' \in [AllPackets -> Trbs]
  BY NoTrbType, SignalType DEF CompleteHead, TypeOK

LEMMA DrainQueueType ==
  ASSUME TypeOK, NEW s \in Statuses, DrainQueue(s)
  PROVE  /\ queue' \in Seq(AllPackets)
         /\ stat' \in [AllPackets -> Statuses]
         /\ event' \in [AllPackets -> Events]
         /\ trb' \in [AllPackets -> Trbs]
  BY NoTrbType, SignalType DEF DrainQueue, TypeOK

LEMMA NewTrbType ==
  ASSUME NEW p, NEW data \in BOOLEAN, NEW tmo \in Nat
  PROVE  NewTrb(p, data, tmo) \in Trbs
  BY DEF NewTrb, Trbs

LEMMA DecrementType ==
  ASSUME NEW r \in Trbs, r.tmo > 0
  PROVE  [r EXCEPT !.tmo = @ - 1] \in Trbs
  BY DEF Trbs

LEMMA StartedType ==
  ASSUME NEW r \in Trbs
  PROVE  [r EXCEPT !.started = TRUE] \in Trbs
  BY DEF Trbs

LEMMA ProgramDmaType ==
  ASSUME TypeOK, NEW p \in AllPackets, ProgramDma(p) \/ UNCHANGED <<dma, idsts>>
  PROVE  /\ idsts' \in AllPackets \cup {None}
         /\ dma' \in [desc : AllPackets \cup {None}, own : BOOLEAN]
<1>1. CASE ProgramDma(p)
  BY <1>1 DEF ProgramDma
<1>2. CASE UNCHANGED <<dma, idsts>>
  BY <1>2 DEF TypeOK
<1> QED
  BY <1>1, <1>2

LEMMA CreateTrbType ==
  ASSUME TypeOK, NEW p \in AllPackets, NEW tmo \in Nat, DwMmcCreateTrb(p, tmo)
  PROVE  /\ trb' \in [AllPackets -> Trbs]
         /\ idsts' \in AllPackets \cup {None}
         /\ dma' \in [desc : AllPackets \cup {None}, own : BOOLEAN]
<1>1. trb' \in [AllPackets -> Trbs]
  <2> DEFINE d == p \in DataPackets
  <2>1. d \in BOOLEAN
    OBVIOUS
  <2>2. trb' = [trb EXCEPT ![p] = NewTrb(p, d, tmo)]
    BY DEF DwMmcCreateTrb
  <2> HIDE DEF d
  <2>3. NewTrb(p, d, tmo) \in Trbs
    BY <2>1, NewTrbType
  <2> QED
    BY <2>2, <2>3 DEF TypeOK
<1>2. ProgramDma(p) \/ UNCHANGED <<dma, idsts>>
  BY DEF DwMmcCreateTrb
<1> QED
  BY <1>1, <1>2, ProgramDmaType

LEMMA ExecTrbType ==
  ASSUME TypeOK, NEW p \in AllPackets, NEW s, DwMmcExecTrb(p, s)
  PROVE  /\ bus' \in [pkt : AllPackets \cup {None}, dma : BOOLEAN]
         /\ rint' \in AllPackets \cup {None}
         /\ busy' \in BOOLEAN /\ overlap' \in BOOLEAN
         /\ UNCHANGED <<dma, idsts>>
<1>1. trb[p].fifo \in BOOLEAN
  BY DEF TypeOK, Trbs
<1>2. /\ bus' \in [pkt : AllPackets \cup {None}, dma : BOOLEAN]
      /\ UNCHANGED <<rint, dma, idsts, overlap>>
  BY <1>1 DEF DwMmcExecTrb, NoBus
<1>3. busy' \in BOOLEAN
  BY DEF DwMmcExecTrb, MayHold, TypeOK
<1> QED
  BY <1>2, <1>3 DEF TypeOK

LEMMA ClearType ==
  ASSUME TypeOK, ClearInterrupts
  PROVE  /\ rint' \in AllPackets \cup {None}
         /\ busy' \in BOOLEAN /\ overlap' \in BOOLEAN
         /\ UNCHANGED <<bus, dma, idsts>>
  BY DEF ClearInterrupts, TypeOK

-----------------------------------------------------------------------------
LEMMA PassThruType ==
  ASSUME TypeOK, NEW t \in Threads, NEW p \in AllPackets,
         NEW async \in BOOLEAN, NEW valid \in BOOLEAN,
         PassThru(t, p, async, valid)
  PROVE  TypeOK'
<1>1. /\ stat' \in [AllPackets -> Statuses]
      /\ event' \in [AllPackets -> Events]
  BY ZenonT(60) DEF PassThru, PassThruEnter, PassThruRefused, TypeOK, Statuses, Events
<1>2. call' \in [Threads -> Calls]
  <2>1. CASE PassThruEnter(t, p, async, valid)
    BY ZenonT(60), <2>1 DEF PassThruEnter, TypeOK, Calls, InsidePcs
  <2>2. CASE PassThruRefused(t, p, valid)
    <3> DEFINE c == IF t = "Enum" THEN [IdleCall EXCEPT !.pc = "returned"]
                                  ELSE IdleCall
    <3>1. c \in Calls
      BY IdleCallType
    <3>2. call' = [call EXCEPT ![t] = c]
      BY <2>2 DEF PassThruRefused
    <3> HIDE DEF c
    <3> QED
      BY <3>1, <3>2 DEF TypeOK
  <2> QED
    BY <2>1, <2>2 DEF PassThru
<1>3. UNCHANGED <<drv, slot, queue, trb, enum, tick, card, hw>>
  BY DEF PassThru
<1> QED
  BY <1>1, <1>2, <1>3 DEF TypeOK, hw

LEMMA PassThruStepType ==
  ASSUME TypeOK, NEW t \in Threads, PassThruStep(t)
  PROVE  TypeOK'
<1> DEFINE p == call[t].pkt
<1>0. /\ call[t].pc \in InsidePcs \cup OutsidePcs
      /\ call[t].pc \in InsidePcs => p \in AllPackets
  BY CallType
<1> USE <1>0 DEF InsidePcs, OutsidePcs
<1>1. CASE CreateTrb(t)
  <2>0. p \in AllPackets
    BY <1>1 DEF CreateTrb
  <2>1. PICK tmo \in Nat : DwMmcCreateTrb(p, tmo)
    BY <1>1, PlatformAssumption DEF CreateTrb
  <2>2. call' \in [Threads -> Calls]
    BY <1>1, GotoType DEF CreateTrb
  <2> QED
    BY <1>1, <2>0, <2>1, <2>2, CreateTrbType DEF CreateTrb, TypeOK
<1>2. CASE CreateTrbError(t)
  <2>0. p \in AllPackets
    BY <1>2 DEF CreateTrbError
  <2>1. stat' \in [AllPackets -> Statuses] /\ call' \in [Threads -> Calls]
    BY <1>2, ReturnType DEF CreateTrbError, Statuses
  <2>2. /\ ProgramDma(p) \/ UNCHANGED <<dma, idsts>>
        /\ UNCHANGED trb
    BY <1>2 DEF CreateTrbError, CreateTrbFails
  <2> QED
    BY <1>2, <2>0, <2>1, <2>2, ProgramDmaType DEF CreateTrbError, TypeOK
<1>3. CASE InsertTrb(t)
  <2>0. p \in AllPackets
    BY <1>3 DEF InsertTrb
  <2>1. call' \in [Threads -> Calls]
    BY <1>3, IdleCallType DEF InsertTrb, TypeOK
  <2> QED
    BY <1>3, <2>0, <2>1 DEF InsertTrb, TypeOK, Events, hw
<1>4. CASE WaitQueueEmpty(t)
  <2>1. call' \in [Threads -> Calls]
    BY <1>4, GotoType DEF WaitQueueEmpty
  <2> QED
    BY <1>4, <2>1 DEF WaitQueueEmpty, TypeOK, hw
<1>5. CASE ExecSync(t)
  <2>0. p \in AllPackets
    BY <1>5 DEF ExecSync
  <2>1. PICK s \in Statuses :
           /\ DwMmcExecTrb(p, s)
           /\ IF s = "Success"
              THEN Goto(t, "result") /\ UNCHANGED <<trb, stat>>
              ELSE Return(t, s) /\ trb' = [trb EXCEPT ![p] = NoTrb]
    BY <1>5 DEF ExecSync
  <2>2. /\ trb' \in [AllPackets -> Trbs]
        /\ stat' \in [AllPackets -> Statuses]
        /\ call' \in [Threads -> Calls]
    <3>1. CASE s = "Success"
      <4>1. call[t].pc = "issue" /\ Goto(t, "result") /\ UNCHANGED <<trb, stat>>
        BY <1>5, <2>1, <3>1 DEF ExecSync
      <4>2. call' \in [Threads -> Calls]
        BY <4>1, GotoType DEF InsidePcs
      <4> QED
        BY <4>1, <4>2 DEF TypeOK
    <3>2. CASE s # "Success"
      BY <2>1, <3>2, ReturnType, NoTrbType DEF TypeOK
    <3> QED BY <3>1, <3>2
  <2> QED
    BY <1>5, <2>0, <2>1, <2>2, ExecTrbType DEF ExecSync, TypeOK
<1>6. CASE WaitTrbResult(t)
  <2>0. p \in AllPackets
    BY <1>6 DEF WaitTrbResult
  <2>1. idsts' \in AllPackets \cup {None}
    BY <1>6 DEF WaitTrbResult, ClearIdsts, TypeOK
  <2>2. /\ trb' \in [AllPackets -> Trbs]
        /\ stat' \in [AllPackets -> Statuses]
        /\ call' \in [Threads -> Calls]
    <3>1. CASE \E s \in Statuses : Return(t, s) /\ trb' = [trb EXCEPT ![p] = NoTrb]
      <4>1. PICK s \in Statuses : Return(t, s) /\ trb' = [trb EXCEPT ![p] = NoTrb]
        BY <3>1
      <4> QED
        BY <4>1, ReturnType, NoTrbType DEF TypeOK
    <3>2. CASE /\ trb[p].tmo > 1 /\ trb' = [trb EXCEPT ![p].tmo = @ - 1]
               /\ UNCHANGED <<stat, call>>
      <4> DEFINE r == [trb[p] EXCEPT !.tmo = @ - 1]
      <4>1. r \in Trbs
        <5>1. trb[p] \in Trbs /\ trb[p].tmo \in Nat
          BY <2>0 DEF TypeOK, Trbs
        <5> QED
          BY <5>1, <3>2, DecrementType
      <4>2. trb' = [trb EXCEPT ![p] = r] /\ UNCHANGED <<stat, call>>
        BY <3>2
      <4> HIDE DEF r
      <4> QED
        BY <4>1, <4>2 DEF TypeOK
    <3>3. trb[p].tmo \in Nat
      BY <2>0 DEF TypeOK, Trbs
    <3> QED
      BY <1>6, <3>1, <3>2, <3>3 DEF WaitTrbResult, Statuses
  <2> QED
    BY <1>6, <2>1, <2>2 DEF WaitTrbResult, TypeOK
<1>7. CASE ClearSync(t)
  <2>1. call' \in [Threads -> Calls]
    BY <1>7, GotoType DEF ClearSync
  <2> QED
    BY <1>7, <2>1, ClearType DEF ClearSync, TypeOK
<1> QED
  BY <1>1, <1>2, <1>3, <1>4, <1>5, <1>6, <1>7 DEF PassThruStep

LEMMA TypeStep == TypeOK /\ [Next]_vars => TypeOK'
<1> SUFFICES ASSUME TypeOK, [Next]_vars PROVE TypeOK'
    OBVIOUS
<1>1. CASE ClientPassThru
  BY <1>1, PassThruType DEF ClientPassThru, AllPackets
<1>2. CASE IdPassThru
  BY <1>2, PassThruType DEF IdPassThru, AllPackets
<1>3. ASSUME NEW t \in Threads, PassThruStep(t) PROVE TypeOK'
  BY <1>3, PassThruStepType
<1>4. ASSUME NEW p \in Packets, NotifySubmit(p) PROVE TypeOK'
  <2>1. PICK tmo \in Nat : DwMmcCreateTrb(p, tmo)
    BY <1>4, PlatformAssumption DEF NotifySubmit
  <2>2. p \in AllPackets
    BY DEF AllPackets
  <2>3. /\ queue' \in Seq(AllPackets)
        /\ event' \in [AllPackets -> Events]
        /\ stat' \in [AllPackets -> Statuses]
    BY <1>4, <2>2 DEF NotifySubmit, TypeOK, Events, Statuses
  <2> QED
    BY <1>4, <2>1, <2>2, <2>3, CreateTrbType DEF NotifySubmit, TypeOK
<1>5. CASE ResetDevice
  BY <1>5, DrainQueueType DEF ResetDevice, Statuses, TypeOK, hw
<1>6. CASE Tick
  <2>0. queue # <<>> /\ Head(queue) \in AllPackets
    BY <1>6 DEF Tick, TypeOK
  <2>1. CASE TickNoMedia
    BY <1>6, <2>0, <2>1, CompleteHeadType DEF Tick, TickNoMedia, Statuses, TypeOK, hw
  <2>2. CASE TickExec
    BY <1>6, <2>2 DEF Tick, TickExec, TypeOK, hw
  <2>3. CASE TickStarted
    BY <1>6, <2>3 DEF Tick, TickStarted, TypeOK, hw
  <2> QED
    BY <1>6, <2>1, <2>2, <2>3 DEF Tick
<1>7. CASE TickCheck
  <2> DEFINE p == Head(queue)
  <2>0. p \in AllPackets /\ trb[p] \in Trbs /\ trb[p].tmo \in Nat
    BY <1>7 DEF TickCheck, TypeOK, Trbs
  <2>1. idsts' \in AllPackets \cup {None}
    BY <1>7 DEF TickCheck, ClearIdsts, TypeOK
  <2>2. /\ queue' \in Seq(AllPackets)
        /\ stat' \in [AllPackets -> Statuses]
        /\ event' \in [AllPackets -> Events]
        /\ trb' \in [AllPackets -> Trbs]
    <3>1. CASE CompleteHead("Success") \/ CompleteHead("Timeout")
      BY <1>7, <3>1, CompleteHeadType DEF TickCheck, Statuses
    <3>2. CASE /\ trb[p].wait \/ trb[p].tmo > 0
               /\ trb' = [trb EXCEPT ![p].tmo = IF trb[p].wait THEN @ ELSE @ - 1]
               /\ UNCHANGED <<queue, stat, event>>
      <4> DEFINE r == [trb[p] EXCEPT !.tmo = IF trb[p].wait THEN @ ELSE @ - 1]
      <4>1. r \in Trbs
        BY <2>0, <3>2, DecrementType DEF Trbs
      <4>2. trb' = [trb EXCEPT ![p] = r] /\ UNCHANGED <<queue, stat, event>>
        BY <3>2
      <4> HIDE DEF r
      <4> QED
        BY <4>1, <4>2 DEF TypeOK
    <3> QED
      BY <1>7, <3>1, <3>2 DEF TickCheck
  <2> QED
    BY <1>7, <2>1, <2>2 DEF TickCheck, TypeOK
<1>8. CASE DetectCard
  <2>1. /\ slot' \in [enable : BOOLEAN, media : BOOLEAN, cardType : CardTypes]
        /\ enum' \in {"idle", "removed", "inserted",
                      "emmc", "emmcMode", "sd", "sdMode"}
    BY ZenonT(60), <1>8 DEF DetectCard, TypeOK
  <2>2. UNCHANGED <<drv, queue, trb, event, stat, call, tick, card, hw>>
    BY <1>8 DEF DetectCard
  <2> QED
    BY <2>1, <2>2 DEF hw, TypeOK
<1>9. CASE DrainRemoved
  BY <1>9, DrainQueueType DEF DrainRemoved, Statuses, TypeOK, hw
<1>10. CASE ResetInserted
  BY ZenonT(60), <1>10 DEF ResetInserted, NoBus, TypeOK
<1>11. CASE Identify
  <2>1. call' \in [Threads -> Calls]
    BY <1>11, IdleCallType DEF Identify, TypeOK
  <2>2. /\ slot' \in [enable : BOOLEAN, media : BOOLEAN, cardType : CardTypes]
        /\ enum' \in {"idle", "removed", "inserted",
                      "emmc", "emmcMode", "sd", "sdMode"}
    BY <1>11 DEF Identify, IdentifyStep, TypeOK
  <2> QED
    BY <1>11, <2>1, <2>2 DEF Identify, hw, TypeOK
<1>12. CASE Start
  <2>1. /\ bus' \in [pkt : AllPackets \cup {None}, dma : BOOLEAN]
        /\ rint' \in AllPackets \cup {None}
        /\ idsts' \in AllPackets \cup {None}
    <3>1. CASE UNCHANGED <<bus, rint, idsts>>
      BY <3>1 DEF TypeOK
    <3>2. CASE bus' = NoBus /\ rint' = None /\ idsts' = None
      BY <3>2 DEF NoBus
    <3> QED
      BY <1>12, <3>1, <3>2 DEF Start
  <2>2. slot' \in [enable : BOOLEAN, media : BOOLEAN, cardType : CardTypes]
    <3>1. CASE UNCHANGED slot
      BY <3>1 DEF TypeOK
    <3>2. CASE card # NoCard /\ \E ct \in {PlatformCard, card} :
                 slot' = [enable |-> TRUE, media |-> TRUE, cardType |-> ct]
      <4>1. {PlatformCard, card} \subseteq CardTypes
        BY <3>2, PlatformAssumption DEF TypeOK
      <4> QED
        BY <3>2, <4>1
    <3> QED
      BY <1>12, <3>1, <3>2 DEF Start
  <2>3. drv' \in [opened : BOOLEAN, installed : BOOLEAN, timers : BOOLEAN]
    <3>1. \/ drv' = [drv EXCEPT !.opened = TRUE]
          \/ drv' = [opened |-> TRUE, installed |-> TRUE, timers |-> TRUE]
      BY <1>12 DEF Start
    <3>2. CASE drv' = [drv EXCEPT !.opened = TRUE]
      BY <3>2 DEF TypeOK
    <3>3. CASE drv' = [opened |-> TRUE, installed |-> TRUE, timers |-> TRUE]
      BY <3>3
    <3> QED
      BY <3>1, <3>2, <3>3
  <2>4. UNCHANGED <<queue, trb, event, stat, call, enum, tick, card, dma, busy, overlap>>
    BY <1>12 DEF Start
  <2> QED
    BY <2>1, <2>2, <2>3, <2>4 DEF TypeOK
<1>13. CASE Stop
  <2>1. call' \in [Threads -> Calls]
    BY <1>13, GotoType DEF Stop, OutsidePcs
  <2> QED
    <3>1. drv' = [drv EXCEPT !.timers = FALSE]
      BY <1>13 DEF Stop
    <3>2. drv' \in [opened : BOOLEAN, installed : BOOLEAN, timers : BOOLEAN]
      BY <3>1 DEF TypeOK
    <3>3. UNCHANGED <<slot, queue, trb, event, stat, enum, tick, card, hw>>
      BY <1>13 DEF Stop
    <3> QED
      BY <2>1, <3>2, <3>3 DEF hw, TypeOK
<1>14. CASE StopDrain
  <2>1. call' \in [Threads -> Calls]
    BY <1>14, GotoType DEF StopDrain, OutsidePcs
  <2> QED
    BY <1>14, <2>1, CompleteHeadType DEF StopDrain, hw, Statuses, TypeOK
<1>15. CASE StopUninstall
  <2>1. call' \in [Threads -> Calls]
    BY <1>15, IdleCallType DEF StopUninstall, TypeOK
  <2> QED
    <3>1. drv' \in [opened : BOOLEAN, installed : BOOLEAN, timers : BOOLEAN]
      BY <1>15 DEF StopUninstall, TypeOK
    <3>2. /\ slot' \in [enable : BOOLEAN, media : BOOLEAN, cardType : CardTypes]
          /\ queue' \in Seq(AllPackets)
      <4>1. CASE slot' = NoSlot /\ queue' = <<>>
        BY <4>1, PlatformAssumption DEF NoSlot
      <4>2. CASE UNCHANGED <<slot, queue>>
        BY <4>2 DEF TypeOK
      <4> QED
        BY <1>15, <4>1, <4>2 DEF StopUninstall
    <3>3. UNCHANGED <<trb, event, stat, enum, tick, card, hw>>
      BY <1>15 DEF StopUninstall
    <3> QED
      BY <2>1, <3>1, <3>2, <3>3 DEF hw, TypeOK
<1>16. CASE MoveCard
  <2>1. card' \in CardTypes \cup {NoCard}
    BY <1>16, PlatformAssumption DEF MoveCard
  <2>2. UNCHANGED client /\ UNCHANGED <<bus, rint, idsts, dma, overlap>> /\ busy' = FALSE
    BY <1>16 DEF MoveCard
  <2>3. busy' \in BOOLEAN /\ overlap' \in BOOLEAN
    BY <2>2 DEF TypeOK
  <2> QED
    BY <2>1, <2>2, <2>3 DEF client, TypeOK
<1>17. CASE Hardware
  <2>0. busy' \in BOOLEAN /\ overlap' \in BOOLEAN
    BY <1>17 DEF Hardware, HwFifoDone, HwDmaDone, CardReady, MayHold, TypeOK
  <2>1. dma' \in [desc : AllPackets \cup {None}, own : BOOLEAN]
    BY <1>17 DEF Hardware, HwFifoDone, HwDmaDone, CardReady, TypeOK
  <2>2. /\ bus' \in [pkt : AllPackets \cup {None}, dma : BOOLEAN]
        /\ rint' \in AllPackets \cup {None}
        /\ idsts' \in AllPackets \cup {None}
    <3>1. CASE HwFifoDone
      BY <3>1 DEF HwFifoDone, NoBus, TypeOK
    <3>2. CASE HwDmaDone
      BY <3>2 DEF HwDmaDone, NoBus, TypeOK
    <3>3. CASE CardReady
      BY <3>3 DEF CardReady, TypeOK
    <3> QED
      BY <1>17, <3>1, <3>2, <3>3 DEF Hardware
  <2>3. UNCHANGED client /\ UNCHANGED card
    BY <1>17 DEF Hardware, HwFifoDone, HwDmaDone, CardReady
  <2> QED
    BY <2>0, <2>1, <2>2, <2>3 DEF client, TypeOK
<1>18. CASE UNCHANGED vars
  BY <1>18 DEF vars, client, hw, TypeOK
<1>19. CASE TickClear
  <2>1. tick' = "issue" /\ ClearInterrupts
        /\ UNCHANGED <<drv, slot, queue, trb, event, stat, call, enum, card>>
    BY <1>19 DEF TickClear
  <2>2. /\ rint' \in AllPackets \cup {None} /\ busy' \in BOOLEAN /\ overlap' \in BOOLEAN
        /\ UNCHANGED <<bus, dma, idsts>>
    BY <2>1, ClearType
  <2>3. tick' \in {"idle", "exec", "issue", "check"}
    BY <2>1
  <2>4. UNCHANGED <<drv, slot, queue, trb, event, stat, call, enum, card, bus, dma, idsts>>
    BY <2>1, <2>2
  <2>5. /\ drv' \in [opened : BOOLEAN, installed : BOOLEAN, timers : BOOLEAN]
        /\ slot' \in [enable : BOOLEAN, media : BOOLEAN, cardType : CardTypes]
        /\ queue' \in Seq(AllPackets)
        /\ trb' \in [AllPackets -> Trbs]
        /\ event' \in [AllPackets -> Events]
        /\ stat' \in [AllPackets -> Statuses]
        /\ call' \in [Threads -> Calls]
    BY <2>4 DEF TypeOK
  <2>6. /\ enum' \in {"idle", "removed", "inserted", "emmc", "emmcMode", "sd", "sdMode"}
        /\ card' \in CardTypes \cup {NoCard}
        /\ bus' \in [pkt : AllPackets \cup {None}, dma : BOOLEAN]
        /\ idsts' \in AllPackets \cup {None}
        /\ dma' \in [desc : AllPackets \cup {None}, own : BOOLEAN]
    BY <2>4 DEF TypeOK
  <2> QED
    BY <2>2, <2>3, <2>5, <2>6, ZenonT(60) DEF TypeOK
<1>20. CASE TickIssue
  <2> DEFINE p == Head(queue)
  <2>0. queue # <<>> /\ p \in AllPackets
    BY <1>20 DEF TickIssue, TypeOK
  <2>1. PICK s \in Statuses :
           /\ DwMmcExecTrb(p, s)
           /\ IF s = "Success"
              THEN /\ trb' = [trb EXCEPT ![p].started = TRUE]
                   /\ tick' = "check"
                   /\ UNCHANGED <<queue, stat, event>>
              ELSE CompleteHead(s) /\ tick' = "idle"
    BY <1>20 DEF TickIssue
  <2>2. /\ queue' \in Seq(AllPackets)
        /\ stat' \in [AllPackets -> Statuses]
        /\ event' \in [AllPackets -> Events]
        /\ trb' \in [AllPackets -> Trbs]
        /\ tick' \in {"idle", "check"}
    <3>1. CASE s = "Success"
      <4> DEFINE r == [trb[p] EXCEPT !.started = TRUE]
      <4>1. r \in Trbs
        <5>1. trb[p] \in Trbs
          BY <2>0 DEF TypeOK
        <5> QED
          BY <5>1, StartedType
      <4>2. trb' = [trb EXCEPT ![p] = r]
        BY <2>1, <3>1
      <4> HIDE DEF r
      <4> QED
        BY ZenonT(60), <2>1, <3>1, <4>1, <4>2 DEF TypeOK
    <3>2. CASE s # "Success"
      BY <2>1, <3>2, <2>0, CompleteHeadType DEF TypeOK
    <3> QED BY <3>1, <3>2
  <2> QED
    BY <1>20, <2>0, <2>1, <2>2, ExecTrbType DEF TickIssue, TypeOK
<1> QED
  BY <1>1, <1>2, <1>3, <1>4, <1>5, <1>6, <1>7, <1>8, <1>9, <1>10, <1>11,
     <1>12, <1>13, <1>14, <1>15, <1>16, <1>17, <1>18, <1>19, <1>20
     DEF Next, StopStep, TickStep, EnumStep

-----------------------------------------------------------------------------
(* Safety without resubmitting notifications.  The lemmas say what removing *)
(* the head, draining and appending do to the queue and to its requests.    *)

LEMMA CompleteHeadQueue ==
  ASSUME TypeOK, queue # <<>>, QueueWellFormed, SignalledOnce,
         NEW s, CompleteHead(s)
  PROVE  /\ \A p : InQueue(p)' <=> InQueue(p) /\ p # Head(queue)
         /\ \A i, j \in 1..Len(queue') : queue'[i] = queue'[j] => i = j
         /\ \A i \in 1..Len(queue') : trb'[queue'[i]].live /\ ~trb'[queue'[i]].started
         /\ SignalledOnce'
         /\ InQueue(Head(queue))
         /\ ~trb'[Head(queue)].live
         /\ \A p : p # Head(queue) => trb'[p] = trb[p]
<1> DEFINE h == Head(queue)
<1>1. /\ queue' = Tail(queue) /\ Len(queue) \in Nat /\ Len(queue) > 0
      /\ Len(queue') = Len(queue) - 1
      /\ \A i \in 1..Len(queue') : queue'[i] = queue[i + 1]
      /\ h = queue[1] /\ h \in AllPackets
  BY DEF CompleteHead, TypeOK
<1>2. \A p : InQueue(p)' <=> InQueue(p) /\ p # h
  <2>1. ASSUME NEW p, InQueue(p)' PROVE InQueue(p) /\ p # h
    BY <1>1, <2>1 DEF InQueue, QueueWellFormed
  <2>2. ASSUME NEW p, InQueue(p), p # h PROVE InQueue(p)'
    <3>1. PICK i \in 1..Len(queue) : queue[i] = p
      BY <2>2 DEF InQueue
    <3>2. i - 1 \in 1..Len(queue') /\ queue'[i - 1] = p
      BY <1>1, <2>2, <3>1
    <3> QED
      BY <3>2 DEF InQueue
  <2> QED
    BY <2>1, <2>2
<1>3. \A i, j \in 1..Len(queue') : queue'[i] = queue'[j] => i = j
  BY <1>1 DEF QueueWellFormed
<1>4. InQueue(h)
  BY <1>1 DEF InQueue
<1>5. /\ trb' = [trb EXCEPT ![h] = NoTrb]
      /\ event' = [event EXCEPT ![h] = Signal(@)]
  BY DEF CompleteHead
<1>6. /\ ~trb'[h].live
      /\ \A p : p # h => trb'[p] = trb[p]
  BY <1>1, <1>5 DEF NoTrb, TypeOK
<1>7. \A i \in 1..Len(queue') : trb'[queue'[i]].live /\ ~trb'[queue'[i]].started
  <2> SUFFICES ASSUME NEW i \in 1..Len(queue')
               PROVE  trb'[queue'[i]].live /\ ~trb'[queue'[i]].started
    OBVIOUS
  <2>1. queue'[i] = queue[i + 1] /\ i + 1 \in 1..Len(queue) /\ i + 1 # 1
    BY <1>1
  <2>2. queue[i + 1] # h
    BY <1>1, <2>1 DEF QueueWellFormed
  <2> QED
    BY <1>6, <2>1, <2>2 DEF QueueWellFormed
<1>8. SignalledOnce'
  <2>1. event[h] = "pending"
    BY <1>1, <1>4 DEF SignalledOnce
  <2>2. event'[h] = "signalled"
    BY <1>1, <1>5, <2>1 DEF Signal, TypeOK
  <2>3. \A p \in AllPackets : p # h => event'[p] = event[p]
    BY <1>1, <1>5 DEF TypeOK
  <2> QED
    BY <1>2, <2>2, <2>3 DEF SignalledOnce
<1> QED
  BY <1>2, <1>3, <1>4, <1>6, <1>7, <1>8

LEMMA DrainQueueQueue ==
  ASSUME TypeOK, SignalledOnce, NEW s, DrainQueue(s)
  PROVE  /\ queue' = <<>>
         /\ \A p : ~InQueue(p)'
         /\ SignalledOnce'
         /\ \A p \in AllPackets : InQueue(p) => ~trb'[p].live
         /\ \A p \in AllPackets : ~InQueue(p) => trb'[p] = trb[p]
<1>1. queue' = <<>> /\ \A p : ~InQueue(p)'
  BY DEF DrainQueue, InQueue
<1>2. \A p \in AllPackets :
         event'[p] = IF InQueue(p) THEN Signal(event[p]) ELSE event[p]
  BY DEF DrainQueue
<1>3. SignalledOnce'
  BY <1>1, <1>2 DEF SignalledOnce, Signal
<1>4. \A p \in AllPackets : trb'[p] = IF InQueue(p) THEN NoTrb ELSE trb[p]
  BY DEF DrainQueue
<1> QED
  BY <1>1, <1>3, <1>4 DEF NoTrb

LEMMA AppendQueue ==
  ASSUME TypeOK, NEW x \in AllPackets, ~InQueue(x), QueueWellFormed,
         queue' = Append(queue, x)
  PROVE  /\ \A p : InQueue(p)' <=> InQueue(p) \/ p = x
         /\ \A i, j \in 1..Len(queue') : queue'[i] = queue'[j] => i = j
         /\ queue' # <<>>
         /\ queue # <<>> => Head(queue') = Head(queue)
<1>1. /\ Len(queue) \in Nat /\ Len(queue') = Len(queue) + 1
      /\ \A i \in 1..Len(queue) : queue'[i] = queue[i]
      /\ queue'[Len(queue) + 1] = x
  BY DEF TypeOK
<1>2. \A p : InQueue(p)' <=> InQueue(p) \/ p = x
  <2>1. ASSUME NEW p, InQueue(p)' PROVE InQueue(p) \/ p = x
    BY <1>1, <2>1 DEF InQueue
  <2>2. ASSUME NEW p, InQueue(p) PROVE InQueue(p)'
    BY <1>1, <2>2 DEF InQueue
  <2>3. InQueue(x)'
    BY <1>1 DEF InQueue
  <2> QED
    BY <2>1, <2>2, <2>3
<1>3. \A i, j \in 1..Len(queue') : queue'[i] = queue'[j] => i = j
  BY <1>1 DEF InQueue, QueueWellFormed
<1>4. queue' # <<>> /\ (queue # <<>> => Head(queue') = Head(queue))
  <2>1. queue' \in Seq(AllPackets) /\ Len(queue') > 0
    BY <1>1 DEF TypeOK
  <2>2. Head(queue') = queue'[1] /\ queue' # <<>>
    BY <2>1
  <2>3. queue # <<>> => Head(queue) = queue[1] /\ 1 \in 1..Len(queue)
    BY DEF TypeOK
  <2> QED
    BY <1>1, <2>2, <2>3
<1> QED
  BY <1>2, <1>3, <1>4

LEMMA SafetyInit == Init => SafetyInv
<1> SUFFICES ASSUME Init PROVE SafetyInv
    OBVIOUS
<1>1. queue = <<>> /\ Len(queue) = 0 /\ \A p : ~InQueue(p)
  BY DEF Init, InQueue
<1>2. \A t \in Threads : call[t].pc = "idle" /\ call[t].pkt = None
                         /\ call[t].async = FALSE
  BY DEF Init, IdleCall
<1>3. \A p \in AllPackets : ~trb[p].live /\ event[p] = "idle"
  BY DEF Init, NoTrb
<1>4. QueueWellFormed /\ SignalledOnce
  BY <1>1, <1>3 DEF QueueWellFormed, SignalledOnce, Init
<1>5. TrbOwned /\ SyncExclusive /\ PacketsApart
  BY <1>1, <1>2, <1>3 DEF TrbOwned, HoldsTrb, SyncExclusive, PacketsApart
<1>6. CallsConsistent /\ StopQuiet
  BY <1>1, <1>2 DEF CallsConsistent, HoldsTrb, StopQuiet
<1> QED
  BY <1>4, <1>5, <1>6 DEF SafetyInv

LEMMA FrameQueue ==
  ASSUME SafetyInv, UNCHANGED <<queue, trb, event, call, tick>>
  PROVE  /\ QueueWellFormed' /\ SignalledOnce' /\ TrbOwned' /\ SyncExclusive'
         /\ PacketsApart'
<1>1. \A p : InQueue(p)' <=> InQueue(p)
  BY DEF InQueue
<1>2. \A t \in Threads : \A p : HoldsTrb(t, p)' <=> HoldsTrb(t, p)
  BY DEF HoldsTrb
<1>3. QueueWellFormed' /\ SignalledOnce'
  BY <1>1 DEF SafetyInv, QueueWellFormed, SignalledOnce
<1>4. TrbOwned'
  BY <1>1, <1>2 DEF SafetyInv, TrbOwned
<1> QED
  BY <1>1, <1>3, <1>4 DEF SafetyInv, SyncExclusive, PacketsApart

\* The actions that touch neither a request nor a call.
LEMMA QuietSteps ==
  ASSUME TypeOK, SafetyInv,
         DetectCard \/ ResetInserted \/ Start \/ MoveCard \/ Hardware
                    \/ UNCHANGED vars
  PROVE  SafetyInv'
<1>1. UNCHANGED <<queue, trb, event, call, tick>>
  BY DEF DetectCard, ResetInserted, Start, MoveCard, Hardware, HwFifoDone,
         HwDmaDone, CardReady, vars, client, hw
<1>2. \/ UNCHANGED <<drv, enum>>
      \/ /\ call["App"].pc \notin {"stopping", "uninstall"}
         /\ enum' = enum \/ call["Enum"].pc = "idle"
  <2>1. CASE DetectCard
    BY <2>1 DEF DetectCard, SafetyInv, CallsConsistent, StopQuiet
  <2>2. CASE ResetInserted
    BY <2>2 DEF ResetInserted, SafetyInv, CallsConsistent, StopQuiet
  <2>3. CASE Start
    BY <2>3 DEF Start
  <2>4. CASE MoveCard \/ Hardware \/ UNCHANGED vars
    BY <2>4 DEF MoveCard, Hardware, HwFifoDone, HwDmaDone, CardReady, vars, client
  <2> QED
    BY <2>1, <2>2, <2>3, <2>4
<1>3. CallsConsistent' /\ StopQuiet'
  BY <1>1, <1>2 DEF SafetyInv, CallsConsistent, HoldsTrb, StopQuiet
<1> QED
  BY <1>1, <1>3, FrameQueue DEF SafetyInv

\* Entering PassThru, or being refused by it.
LEMMA PassThruSafe ==
  ASSUME TypeOK, SafetyInv, NEW t \in Threads, NEW p \in AllPackets,
         NEW async \in BOOLEAN, NEW valid \in BOOLEAN,
         t = "App" => p \in Packets,
         t = "Enum" => /\ p = IdPacket /\ ~async
                       /\ enum \in {"emmc", "emmcMode", "sd", "sdMode"},
         PassThru(t, p, async, valid)
  PROVE  SafetyInv'
<1>1. /\ UNCHANGED <<queue, trb, tick, enum, drv>>
      /\ call[t].pc = "idle"
      /\ ~InQueue(p) /\ \A u \in Threads : call[u].pkt # p
  BY DEF PassThru, PassThruEnter, PassThruRefused, InFlight
<1>2. event' = [event EXCEPT ![p] = "idle"]
  BY DEF PassThru, PassThruEnter, PassThruRefused
<1>3. /\ \A u \in Threads : u # t => call'[u] = call[u]
      /\ \/ /\ call'[t].pc = "create" /\ call'[t].pkt = p
            /\ call'[t].async = async
         \/ /\ call'[t].pc = IF t = "Enum" THEN "returned" ELSE "idle"
            /\ call'[t].pkt = None /\ call'[t].async = FALSE
  <2>0. call \in [Threads -> Calls]
    BY DEF TypeOK
  <2>1. CASE PassThruEnter(t, p, async, valid)
    BY <2>0, <2>1 DEF PassThruEnter
  <2>2. CASE PassThruRefused(t, p, valid)
    <3> DEFINE c == IF t = "Enum" THEN [IdleCall EXCEPT !.pc = "returned"]
                                  ELSE IdleCall
    <3>1. /\ c.pc = (IF t = "Enum" THEN "returned" ELSE "idle")
          /\ c.pkt = None /\ c.async = FALSE
      BY DEF IdleCall
    <3>2. call' = [call EXCEPT ![t] = c]
      BY <2>2 DEF PassThruRefused
    <3> HIDE DEF c
    <3> QED
      BY <2>0, <3>1, <3>2
  <2> QED
    BY <2>1, <2>2 DEF PassThru
<1>4. \A q : InQueue(q)' <=> InQueue(q)
  BY <1>1 DEF InQueue
<1>5. \A u \in Threads, q \in AllPackets : HoldsTrb(u, q)' <=> HoldsTrb(u, q)
  BY <1>1, <1>3 DEF HoldsTrb
<1>6. QueueWellFormed'
  BY <1>1 DEF SafetyInv, QueueWellFormed
<1>7. SignalledOnce'
  BY <1>1, <1>2, <1>4 DEF SafetyInv, SignalledOnce, TypeOK
<1>8. TrbOwned'
  BY <1>1, <1>4, <1>5 DEF SafetyInv, TrbOwned
<1>9. SyncExclusive'
  BY <1>1, <1>3 DEF SafetyInv, SyncExclusive
<1>10. PacketsApart'
  BY <1>1, <1>3, <1>4 DEF SafetyInv, PacketsApart
<1>11. CallsConsistent'
  BY <1>1, <1>3 DEF SafetyInv, CallsConsistent, HoldsTrb
<1>12. StopQuiet'
  BY <1>1, <1>3 DEF SafetyInv, StopQuiet
<1> QED
  BY <1>6, <1>7, <1>8, <1>9, <1>10, <1>11, <1>12 DEF SafetyInv

LEMMA CreateSafe ==
  ASSUME TypeOK, SafetyInv, NEW t \in Threads, CreateTrb(t)
  PROVE  SafetyInv'
<1> DEFINE p == call[t].pkt
<1>1. /\ UNCHANGED <<queue, event, tick, enum, drv>>
      /\ call[t].pc = "create"
      /\ call' = [call EXCEPT ![t].pc = IF call[t].async THEN "insert" ELSE "waitq"]
  BY DEF CreateTrb, Goto
<1>2. p \in AllPackets /\ call[t].async \in BOOLEAN
  BY <1>1, CallType DEF InsidePcs
<1>3. /\ trb'[p].live /\ ~trb'[p].started
      /\ \A q \in AllPackets : q # p => trb'[q] = trb[q]
  <2>1. PICK tmo : trb' = [trb EXCEPT ![p] = NewTrb(p, p \in DataPackets, tmo)]
    BY DEF CreateTrb, DwMmcCreateTrb
  <2> QED
    BY <1>2, <2>1 DEF NewTrb, TypeOK
<1>4. /\ ~InQueue(p)
      /\ \A u \in Threads : u # t => call[u].pkt # p
  BY <1>2, PacketAssumption DEF SafetyInv, PacketsApart
<1>5. /\ \A u \in Threads : u # t => call'[u] = call[u]
      /\ call'[t].pc \in {"insert", "waitq"}
      /\ call'[t].pc = "insert" <=> call[t].async
      /\ call'[t].pkt = p /\ call'[t].async = call[t].async
  BY <1>1, <1>2 DEF TypeOK, Calls
<1>6. \A q : InQueue(q)' <=> InQueue(q)
  BY <1>1 DEF InQueue
<1>7. QueueWellFormed'
  <2>1. \A i \in 1..Len(queue) : queue[i] # p /\ queue[i] \in AllPackets
    BY <1>4 DEF InQueue, TypeOK
  <2>2. \A i \in 1..Len(queue) : trb'[queue[i]] = trb[queue[i]]
    BY <1>3, <2>1
  <2>3. queue # <<>> => 1 \in 1..Len(queue) /\ Head(queue) = queue[1]
    BY DEF TypeOK
  <2> QED
    BY <1>1, <2>2, <2>3 DEF SafetyInv, QueueWellFormed
<1>8. SignalledOnce'
  BY <1>1, <1>6 DEF SafetyInv, SignalledOnce
<1>9. TrbOwned'
  <2>1. \A u \in Threads, q \in AllPackets :
           HoldsTrb(u, q)' <=> HoldsTrb(u, q) \/ (u = t /\ q = p)
    BY <1>1, <1>4, <1>5 DEF HoldsTrb
  <2> QED
    BY <1>3, <1>4, <1>6, <2>1 DEF SafetyInv, TrbOwned
<1>10. SyncExclusive'
  BY <1>1, <1>5 DEF SafetyInv, SyncExclusive
<1>11. PacketsApart'
  BY <1>1, <1>5, <1>6 DEF SafetyInv, PacketsApart
<1>12. CallsConsistent'
  <2>1. \A u \in Threads : HoldsTrb(u, call[u].pkt)' => ~trb'[call'[u].pkt].started
    <3> SUFFICES ASSUME NEW u \in Threads, HoldsTrb(u, call[u].pkt)', u # t
                 PROVE  ~trb'[call'[u].pkt].started
      BY <1>3, <1>5
    <3>1. HoldsTrb(u, call[u].pkt) /\ call[u].pkt # p /\ call[u].pkt \in AllPackets
      BY <1>4, <1>5, CallType DEF HoldsTrb, InsidePcs
    <3> QED
      BY <1>3, <1>5, <3>1 DEF SafetyInv, CallsConsistent
  <2>2. /\ call'["App"].pc # "returned"
        /\ call'["Enum"].pc \notin {"insert", "stopping", "uninstall"}
        /\ ~call'["Enum"].async
        /\ call'["Enum"].pc # "idle" =>
             enum' \in {"emmc", "emmcMode", "sd", "sdMode"}
    BY <1>1, <1>5 DEF SafetyInv, CallsConsistent
  <2>3. \A u \in Threads :
           /\ call'[u].pc = "insert" => call'[u].async
           /\ call'[u].pc \in {"waitq", "exec", "issue", "result"} => ~call'[u].async
    BY <1>5 DEF SafetyInv, CallsConsistent
  <2> QED
    BY <2>1, <2>2, <2>3 DEF CallsConsistent
<1>13. StopQuiet'
  BY <1>1, <1>5 DEF SafetyInv, StopQuiet
<1> QED
  BY <1>7, <1>8, <1>9, <1>10, <1>11, <1>12, <1>13 DEF SafetyInv

\* A call that returns, having freed its TRB if it had one.
LEMMA ReleaseSafe ==
  ASSUME TypeOK, SafetyInv, NEW t \in Threads, NEW s, Return(t, s),
         call[t].pc \in InsidePcs,
         \/ call[t].pc = "create" /\ UNCHANGED trb
         \/ call[t].pc # "create" /\ trb' = [trb EXCEPT ![call[t].pkt] = NoTrb],
         UNCHANGED <<queue, event, tick, enum, drv>>
  PROVE  SafetyInv'
<1> DEFINE p == call[t].pkt
<1>1. p \in AllPackets /\ p # None
  BY CallType, PacketAssumption
<1>2. /\ ~InQueue(p)
      /\ \A u \in Threads : u # t => call[u].pkt # p
  BY <1>1, PacketAssumption DEF SafetyInv, PacketsApart
<1>3. /\ \A u \in Threads : u # t => call'[u] = call[u]
      /\ call'[t].pc = IF t = "Enum" THEN "returned" ELSE "idle"
      /\ call'[t].pkt = None /\ call'[t].async = FALSE
  BY DEF Return, IdleCall, TypeOK
<1>4. ~trb'[p].live /\ \A q \in AllPackets : q # p => trb'[q] = trb[q]
  <2>1. CASE call[t].pc = "create" /\ UNCHANGED trb
    <3>1. \A u \in Threads : ~HoldsTrb(u, p)
      BY <1>2, <2>1 DEF HoldsTrb
    <3> QED
      BY <1>1, <1>2, <2>1, <3>1 DEF SafetyInv, TrbOwned
  <2>2. CASE trb' = [trb EXCEPT ![call[t].pkt] = NoTrb]
    BY <1>1, <2>2 DEF NoTrb, TypeOK
  <2> QED
    BY <2>1, <2>2
<1>5. \A q : InQueue(q)' <=> InQueue(q)
  BY DEF InQueue
<1>6. QueueWellFormed'
  <2>1. \A i \in 1..Len(queue) : queue[i] # p /\ queue[i] \in AllPackets
    BY <1>2 DEF InQueue, TypeOK
  <2>2. \A i \in 1..Len(queue) : trb'[queue[i]] = trb[queue[i]]
    BY <1>4, <2>1
  <2>3. queue # <<>> => 1 \in 1..Len(queue) /\ Head(queue) = queue[1]
    BY DEF TypeOK
  <2> QED
    BY <2>2, <2>3 DEF SafetyInv, QueueWellFormed
<1>7. SignalledOnce'
  BY <1>5 DEF SafetyInv, SignalledOnce
<1>8. TrbOwned'
  <2>1. \A u \in Threads, q \in AllPackets :
           HoldsTrb(u, q)' <=> HoldsTrb(u, q) /\ q # p
    BY <1>1, <1>2, <1>3, PacketAssumption DEF HoldsTrb
  <2> QED
    BY <1>2, <1>4, <1>5, <2>1 DEF SafetyInv, TrbOwned
<1>9. SyncExclusive'
  BY <1>3 DEF SafetyInv, SyncExclusive
<1>10. PacketsApart'
  BY <1>3, <1>5 DEF SafetyInv, PacketsApart
<1>11. CallsConsistent'
  <2>1. \A u \in Threads : HoldsTrb(u, call[u].pkt)' => ~trb'[call'[u].pkt].started
    <3> SUFFICES ASSUME NEW u \in Threads, HoldsTrb(u, call[u].pkt)', u # t
                 PROVE  ~trb'[call'[u].pkt].started
      BY <1>3 DEF HoldsTrb
    <3>1. HoldsTrb(u, call[u].pkt) /\ call[u].pkt # p /\ call[u].pkt \in AllPackets
      BY <1>2, <1>3, CallType DEF HoldsTrb, InsidePcs
    <3> QED
      BY <1>3, <1>4, <3>1 DEF SafetyInv, CallsConsistent
  <2>2. t = "Enum" => enum \in {"emmc", "emmcMode", "sd", "sdMode"}
    BY DEF SafetyInv, CallsConsistent, InsidePcs
  <2> QED
    BY <1>3, <2>1, <2>2 DEF SafetyInv, CallsConsistent
<1>12. StopQuiet'
  BY <1>3 DEF SafetyInv, StopQuiet
<1> QED
  BY <1>6, <1>7, <1>8, <1>9, <1>10, <1>11, <1>12 DEF SafetyInv

\* Appending the request a call has created a TRB for.
LEMMA InsertSafe ==
  ASSUME TypeOK, SafetyInv, NEW t \in Threads, InsertTrb(t)
  PROVE  SafetyInv'
<1> DEFINE p == call[t].pkt
<1>1. /\ UNCHANGED <<trb, tick, enum, drv>>
      /\ call[t].pc = "insert"
      /\ call' = [call EXCEPT ![t] = IdleCall]
      /\ queue' = Append(queue, p)
      /\ event' = [event EXCEPT ![p] = "pending"]
      /\ CanRun(t)
  BY DEF InsertTrb
<1>2. p \in AllPackets /\ p # None
  BY <1>1, CallType, PacketAssumption DEF InsidePcs
<1>3. /\ ~InQueue(p) /\ QueueWellFormed
      /\ \A u \in Threads : u # t => call[u].pkt # p
      /\ t = "App" /\ enum = "idle" /\ call["Enum"].pc = "idle" /\ tick = "idle"
  BY <1>1, <1>2, PacketAssumption
     DEF SafetyInv, PacketsApart, CallsConsistent, CanRun
<1>4. /\ \A q : InQueue(q)' <=> InQueue(q) \/ q = p
      /\ \A i, j \in 1..Len(queue') : queue'[i] = queue'[j] => i = j
      /\ queue' # <<>>
  BY <1>1, <1>2, <1>3, AppendQueue
<1>5. /\ \A u \in Threads : u # t => call'[u] = call[u]
      /\ call'[t].pc = "idle" /\ call'[t].pkt = None /\ call'[t].async = FALSE
  BY <1>1 DEF IdleCall, TypeOK
<1>6. trb[p].live /\ ~trb[p].started
  BY <1>1, <1>2 DEF SafetyInv, TrbOwned, HoldsTrb, CallsConsistent
<1>7. QueueWellFormed'
  <2>1. /\ Len(queue) \in Nat /\ Len(queue') = Len(queue) + 1
        /\ \A i \in 1..Len(queue) : queue'[i] = queue[i]
        /\ queue'[Len(queue) + 1] = p
    BY <1>1, <1>2 DEF TypeOK
  <2>2. \A i \in 1..Len(queue') : /\ trb[queue'[i]].live
                                  /\ trb[queue'[i]].started => i = 1
    BY <1>3, <1>6, <2>1 DEF QueueWellFormed
  <2> QED
    BY <1>1, <1>3, <1>4, <2>2 DEF QueueWellFormed
<1>8. SignalledOnce'
  BY <1>1, <1>2, <1>4 DEF SafetyInv, SignalledOnce, TypeOK
<1>9. TrbOwned'
  <2>1. \A u \in Threads, q \in AllPackets :
           HoldsTrb(u, q)' <=> HoldsTrb(u, q) /\ q # p
    BY <1>2, <1>3, <1>5 DEF HoldsTrb
  <2> QED
    BY <1>1, <1>4, <1>6, <2>1 DEF SafetyInv, TrbOwned
<1>10. SyncExclusive'
  BY <1>3, <1>5 DEF SyncExclusive
<1>11. PacketsApart'
  BY <1>3, <1>4, <1>5 DEF SafetyInv, PacketsApart
<1>12. CallsConsistent'
  BY <1>1, <1>3, <1>5 DEF SafetyInv, CallsConsistent, HoldsTrb
<1>13. StopQuiet'
  BY <1>3, <1>5 DEF StopQuiet
<1> QED
  BY <1>7, <1>8, <1>9, <1>10, <1>11, <1>12, <1>13 DEF SafetyInv

\* Steps inside a blocking call that keep its TRB: it may change place, and
\* count its timeout down.
LEMMA BlockingSafe ==
  ASSUME TypeOK, SafetyInv, NEW t \in Threads,
         call[t].pc \in {"waitq", "exec", "issue", "result"},
         \/ UNCHANGED call
         \/ /\ queue = <<>>
            /\ \E pc \in {"exec", "issue", "result"} : Goto(t, pc),
         \/ UNCHANGED trb
         \/ trb' = [trb EXCEPT ![call[t].pkt].tmo = @ - 1],
         UNCHANGED <<queue, event, tick, enum, drv>>
  PROVE  SafetyInv'
<1> DEFINE p == call[t].pkt
<1>1. /\ \A u \in Threads : /\ u # t => call'[u] = call[u]
                            /\ call'[u].pkt = call[u].pkt
                            /\ call'[u].async = call[u].async
      /\ call'[t].pc = call[t].pc
         \/ (queue = <<>> /\ call'[t].pc \in {"exec", "issue", "result"})
  <2>1. CASE UNCHANGED call
    BY <2>1
  <2>2. CASE queue = <<>> /\ \E pc \in {"exec", "issue", "result"} : Goto(t, pc)
    BY <2>2 DEF Goto, TypeOK, Calls
  <2> QED
    BY <2>1, <2>2
<1>2. \A q \in AllPackets : trb'[q].live = trb[q].live
                            /\ trb'[q].started = trb[q].started
  <2>1. CASE UNCHANGED trb
    BY <2>1
  <2>2. CASE trb' = [trb EXCEPT ![p].tmo = @ - 1]
    BY <2>2 DEF TypeOK, Trbs
  <2> QED
    BY <2>1, <2>2
<1>3. \A q : InQueue(q)' <=> InQueue(q)
  BY DEF InQueue
<1>4. \A u \in Threads, q \in AllPackets : HoldsTrb(u, q)' <=> HoldsTrb(u, q)
  BY <1>1 DEF HoldsTrb
<1>5. QueueWellFormed'
  <2>1. \A i \in 1..Len(queue) : queue[i] \in AllPackets
    BY DEF TypeOK
  <2>2. queue # <<>> => 1 \in 1..Len(queue) /\ Head(queue) = queue[1]
    BY DEF TypeOK
  <2> QED
    BY <1>2, <2>1, <2>2 DEF SafetyInv, QueueWellFormed
<1>6. SignalledOnce'
  BY <1>3 DEF SafetyInv, SignalledOnce
<1>7. TrbOwned'
  BY <1>2, <1>3, <1>4 DEF SafetyInv, TrbOwned
<1>8. SyncExclusive'
  BY <1>1 DEF SafetyInv, SyncExclusive
<1>9. PacketsApart'
  BY <1>1, <1>3 DEF SafetyInv, PacketsApart
<1>10. CallsConsistent'
  <2>1. \A u \in Threads : HoldsTrb(u, call[u].pkt)' => ~trb'[call'[u].pkt].started
    <3> SUFFICES ASSUME NEW u \in Threads, HoldsTrb(u, call[u].pkt)'
                 PROVE  ~trb'[call'[u].pkt].started
      OBVIOUS
    <3>1. call[u].pkt \in AllPackets /\ HoldsTrb(u, call[u].pkt)
      BY <1>1, CallType DEF HoldsTrb, InsidePcs
    <3> QED
      BY <1>1, <1>2, <3>1 DEF SafetyInv, CallsConsistent
  <2>2. /\ call'["App"].pc # "returned"
        /\ call'["Enum"].pc \notin {"insert", "stopping", "uninstall"}
        /\ ~call'["Enum"].async
        /\ call'["Enum"].pc # "idle" =>
             enum' \in {"emmc", "emmcMode", "sd", "sdMode"}
    BY <1>1 DEF SafetyInv, CallsConsistent
  <2>3. \A u \in Threads :
           /\ call'[u].pc = "insert" => call'[u].async
           /\ call'[u].pc \in {"waitq", "exec", "issue", "result"} => ~call'[u].async
    BY <1>1 DEF SafetyInv, CallsConsistent
  <2> QED
    BY <2>1, <2>2, <2>3 DEF CallsConsistent
<1>11. StopQuiet'
  BY <1>1 DEF SafetyInv, StopQuiet
<1> QED
  BY <1>5, <1>6, <1>7, <1>8, <1>9, <1>10, <1>11 DEF SafetyInv

LEMMA PassThruStepSafe ==
  ASSUME TypeOK, SafetyInv, NEW t \in Threads, PassThruStep(t)
  PROVE  SafetyInv'
<1>1. CASE CreateTrb(t)
  BY <1>1, CreateSafe
<1>2. CASE CreateTrbError(t)
  BY <1>2, ReleaseSafe DEF CreateTrbError, CreateTrbFails, InsidePcs
<1>3. CASE InsertTrb(t)
  BY <1>3, InsertSafe
<1>4. CASE WaitQueueEmpty(t)
  BY <1>4, BlockingSafe DEF WaitQueueEmpty
<1>5. CASE ExecSync(t)
  <2>1. /\ call[t].pc = "issue" /\ UNCHANGED <<queue, event, tick, enum, drv>>
        /\ \/ Goto(t, "result") /\ UNCHANGED trb
           \/ \E s : Return(t, s) /\ trb' = [trb EXCEPT ![call[t].pkt] = NoTrb]
    BY <1>5 DEF ExecSync
  <2>2. CASE Goto(t, "result") /\ UNCHANGED trb
    BY <2>1, <2>2, BlockingSafe DEF SafetyInv, SyncExclusive
  <2>3. CASE \E s : Return(t, s) /\ trb' = [trb EXCEPT ![call[t].pkt] = NoTrb]
    BY <2>1, <2>3, ReleaseSafe DEF InsidePcs
  <2> QED
    BY <2>1, <2>2, <2>3
<1>6. CASE WaitTrbResult(t)
  <2>1. /\ call[t].pc = "result" /\ UNCHANGED <<queue, event, tick, enum, drv>>
        /\ \/ UNCHANGED call /\ trb' = [trb EXCEPT ![call[t].pkt].tmo = @ - 1]
           \/ \E s : Return(t, s) /\ trb' = [trb EXCEPT ![call[t].pkt] = NoTrb]
    BY <1>6 DEF WaitTrbResult
  <2>2. CASE UNCHANGED call /\ trb' = [trb EXCEPT ![call[t].pkt].tmo = @ - 1]
    BY <2>1, <2>2, BlockingSafe
  <2>3. CASE \E s : Return(t, s) /\ trb' = [trb EXCEPT ![call[t].pkt] = NoTrb]
    BY <2>1, <2>3, ReleaseSafe DEF InsidePcs
  <2> QED
    BY <2>1, <2>2, <2>3
<1>7. CASE ClearSync(t)
  <2>1. queue = <<>>
    BY <1>7 DEF ClearSync, SafetyInv, SyncExclusive
  <2> QED
    BY <1>7, <2>1, BlockingSafe DEF ClearSync
<1> QED
  BY <1>1, <1>2, <1>3, <1>4, <1>5, <1>6, <1>7 DEF PassThruStep

\* Completing the first request, whoever does it.
LEMMA HeadSafe ==
  ASSUME TypeOK, SafetyInv, queue # <<>>, NEW s, CompleteHead(s),
         UNCHANGED <<drv, enum>>, tick' = "idle",
         \/ UNCHANGED call
         \/ /\ call["App"].pc = "stopping"
            /\ Goto("App", IF Len(queue) = 1 THEN "uninstall" ELSE "stopping")
  PROVE  SafetyInv'
<1> DEFINE h == Head(queue)
<1>1. QueueWellFormed /\ SignalledOnce /\ PacketsApart /\ TrbOwned
      /\ SyncExclusive /\ CallsConsistent /\ StopQuiet
  BY DEF SafetyInv
<1>2. /\ \A p : InQueue(p)' <=> InQueue(p) /\ p # h
      /\ \A i, j \in 1..Len(queue') : queue'[i] = queue'[j] => i = j
      /\ \A i \in 1..Len(queue') : trb'[queue'[i]].live /\ ~trb'[queue'[i]].started
      /\ SignalledOnce' /\ InQueue(h) /\ ~trb'[h].live
      /\ \A p : p # h => trb'[p] = trb[p]
  BY <1>1, CompleteHeadQueue
<1>3. h \in AllPackets /\ h # None
  BY PacketAssumption DEF TypeOK
<1>4. /\ \A t \in Threads : /\ call'[t].pkt = call[t].pkt
                            /\ call'[t].async = call[t].async
                            /\ t # "App" => call'[t] = call[t]
      /\ \/ call'["App"].pc = call["App"].pc
         \/ /\ call["App"].pc = "stopping" /\ call'["App"].pc = "uninstall"
            /\ Len(queue) = 1
  <2>1. CASE UNCHANGED call
    BY <2>1
  <2>2. CASE /\ call["App"].pc = "stopping"
             /\ Goto("App", IF Len(queue) = 1 THEN "uninstall" ELSE "stopping")
    BY <2>2 DEF Goto, TypeOK, Calls
  <2> QED
    BY <2>1, <2>2
<1>5. \A t \in Threads : \A p : HoldsTrb(t, p)' <=> HoldsTrb(t, p)
  BY <1>4 DEF HoldsTrb
<1>6. \A t \in Threads : call[t].pkt # h
  BY <1>1, <1>2, <1>3 DEF PacketsApart
<1>7. QueueWellFormed'
  BY <1>2 DEF QueueWellFormed
<1>8. TrbOwned'
  <2> SUFFICES ASSUME NEW p \in AllPackets
               PROVE  trb'[p].live <=> InQueue(p)' \/ \E t \in Threads : HoldsTrb(t, p)'
    BY DEF TrbOwned
  <2>1. CASE p = h
    BY <1>2, <1>5, <1>6, <2>1 DEF HoldsTrb
  <2>2. CASE p # h
    BY <1>1, <1>2, <1>5, <2>2 DEF TrbOwned
  <2> QED
    BY <2>1, <2>2
<1>9. SyncExclusive'
  BY <1>1, <1>4 DEF SyncExclusive
<1>10. PacketsApart'
  BY <1>1, <1>2, <1>4 DEF PacketsApart
<1>11. CallsConsistent'
  <2>1. \A t \in Threads : HoldsTrb(t, call[t].pkt)' => ~trb'[call'[t].pkt].started
    BY <1>1, <1>2, <1>4, <1>6 DEF HoldsTrb, CallsConsistent
  <2>2. \A t \in Threads :
           /\ call'[t].pc = "insert" => call'[t].async
           /\ call'[t].pc \in {"waitq", "exec", "issue", "result"} => ~call'[t].async
    BY <1>1, <1>4 DEF CallsConsistent
  <2>3. /\ call'["App"].pc # "returned"
        /\ call'["Enum"].pc \notin {"insert", "stopping", "uninstall"}
        /\ ~call'["Enum"].async
        /\ call'["Enum"].pc # "idle" =>
             enum' \in {"emmc", "emmcMode", "sd", "sdMode"}
    BY <1>1, <1>4 DEF CallsConsistent
  <2> QED
    BY <2>1, <2>2, <2>3 DEF CallsConsistent
<1>12. StopQuiet'
  <2>1. Len(queue) = 1 => queue' = <<>>
    BY DEF CompleteHead, TypeOK
  <2>2. call["App"].pc # "uninstall"
    BY <1>1 DEF StopQuiet
  <2> QED
    BY <1>1, <1>4, <2>1, <2>2 DEF StopQuiet
<1> QED
  BY <1>2, <1>7, <1>8, <1>9, <1>10, <1>11, <1>12 DEF SafetyInv

\* Emptying the queue, from a thread that is not waiting for a request.
LEMMA DrainSafe ==
  ASSUME TypeOK, SafetyInv, NEW s, DrainQueue(s), tick = "idle",
         UNCHANGED <<drv, call, tick>>,
         enum' = enum \/ (call["Enum"].pc = "idle" /\ enum' = "idle")
  PROVE  SafetyInv'
<1>1. QueueWellFormed /\ SignalledOnce /\ PacketsApart /\ TrbOwned
      /\ SyncExclusive /\ CallsConsistent /\ StopQuiet
  BY DEF SafetyInv
<1>2. /\ queue' = <<>> /\ SignalledOnce'
      /\ \A p : ~InQueue(p)'
      /\ \A p \in AllPackets : InQueue(p) => ~trb'[p].live
      /\ \A p \in AllPackets : ~InQueue(p) => trb'[p] = trb[p]
  BY <1>1, DrainQueueQueue
<1>3. \A t \in Threads : \A p : HoldsTrb(t, p)' <=> HoldsTrb(t, p)
  BY DEF HoldsTrb
<1>4. \A t \in Threads, p \in AllPackets : HoldsTrb(t, p) => ~InQueue(p)
  BY <1>1, PacketAssumption DEF HoldsTrb, PacketsApart
<1>5. QueueWellFormed'
  BY <1>2 DEF QueueWellFormed
<1>6. TrbOwned'
  BY <1>1, <1>2, <1>3, <1>4 DEF TrbOwned
<1>7. SyncExclusive' /\ PacketsApart'
  BY <1>1, <1>2 DEF SyncExclusive, PacketsApart
<1>8. CallsConsistent'
  <2>1. \A t \in Threads : HoldsTrb(t, call[t].pkt)' => ~trb'[call'[t].pkt].started
    <3> SUFFICES ASSUME NEW t \in Threads, HoldsTrb(t, call[t].pkt)
                 PROVE  ~trb'[call[t].pkt].started
      BY <1>3
    <3>1. call[t].pkt \in AllPackets
      BY CallType DEF HoldsTrb, InsidePcs
    <3> QED
      BY <1>1, <1>2, <1>4, <3>1 DEF CallsConsistent
  <2> QED
    BY <1>1, <2>1 DEF CallsConsistent
<1>9. StopQuiet'
  BY <1>1, <1>2 DEF StopQuiet
<1> QED
  BY <1>2, <1>5, <1>6, <1>7, <1>8, <1>9 DEF SafetyInv

\* A tick that leaves the first request in the queue: it is about to send it,
\* sends it or counts its timeout down.
LEMMA ServeHeadSafe ==
  ASSUME TypeOK, SafetyInv, queue # <<>>,
         UNCHANGED <<queue, event, call, enum, drv>>,
         \A p \in AllPackets : trb'[p].live = trb[p].live,
         \A p \in AllPackets :
             p # Head(queue) => trb'[p].started = trb[p].started,
         \/ tick' = "idle"
         \/ /\ trb'[Head(queue)].started <=> tick' = "check"
            /\ drv.timers \/ tick # "idle"
  PROVE  SafetyInv'
<1>1. QueueWellFormed /\ SignalledOnce /\ PacketsApart /\ TrbOwned
      /\ SyncExclusive /\ CallsConsistent /\ StopQuiet
  BY DEF SafetyInv
<1>2. /\ Len(queue) \in Nat /\ 1 \in 1..Len(queue) /\ Head(queue) = queue[1]
      /\ \A i \in 1..Len(queue) : queue[i] \in AllPackets
  BY DEF TypeOK
<1>3. \A p : InQueue(p)' <=> InQueue(p)
  BY DEF InQueue
<1>4. \A t \in Threads : \A p : HoldsTrb(t, p)' <=> HoldsTrb(t, p)
  BY DEF HoldsTrb
<1>5. QueueWellFormed'
  BY <1>1, <1>2 DEF QueueWellFormed
<1>6. SignalledOnce' /\ PacketsApart' /\ SyncExclusive'
  BY <1>1, <1>3 DEF SignalledOnce, PacketsApart, SyncExclusive
<1>7. TrbOwned'
  BY <1>1, <1>3, <1>4 DEF TrbOwned
<1>8. CallsConsistent'
  <2>1. \A t \in Threads : HoldsTrb(t, call[t].pkt)' => ~trb'[call'[t].pkt].started
    <3> SUFFICES ASSUME NEW t \in Threads, HoldsTrb(t, call[t].pkt)
                 PROVE  ~trb'[call[t].pkt].started
      BY <1>4
    <3>1. call[t].pkt \in AllPackets
      BY CallType DEF HoldsTrb, InsidePcs
    <3>2. call[t].pkt # Head(queue)
      BY <1>1, <1>2, <3>1, PacketAssumption DEF PacketsApart, InQueue
    <3> QED
      BY <1>1, <3>1, <3>2 DEF CallsConsistent
  <2> QED
    BY <1>1, <2>1 DEF CallsConsistent
<1>9. StopQuiet'
  BY <1>1 DEF StopQuiet
<1> QED
  BY <1>5, <1>6, <1>7, <1>8, <1>9 DEF SafetyInv

LEMMA TickSafe ==
  ASSUME TypeOK, SafetyInv, TickStep
  PROVE  SafetyInv'
<1> DEFINE h == Head(queue)
<1>1. CASE Tick
  <2>0. /\ queue # <<>> /\ tick = "idle" /\ drv.timers
        /\ UNCHANGED <<drv, call, enum>>
    BY <1>1 DEF Tick
  <2>1. CASE TickNoMedia
    BY <2>0, <2>1, HeadSafe DEF TickNoMedia
  <2>2. CASE TickExec \/ TickStarted
    <3>1. /\ UNCHANGED <<queue, event, trb>>
          /\ trb[h].started <=> tick' = "check"
      BY <2>2 DEF TickExec, TickStarted
    <3> QED
      BY <2>0, <3>1, ServeHeadSafe
  <2> QED
    BY <1>1, <2>1, <2>2 DEF Tick
<1>3. CASE TickClear
  <2>1. /\ UNCHANGED <<drv, queue, trb, event, call, enum>>
        /\ tick = "exec" /\ tick' = "issue"
    BY <1>3 DEF TickClear
  <2>2. queue # <<>> /\ ~trb[h].started
    BY <2>1 DEF SafetyInv, QueueWellFormed
  <2> QED
    BY <2>1, <2>2, ServeHeadSafe
<1>4. CASE TickIssue
  <2>0. /\ queue # <<>> /\ tick = "issue"
        /\ UNCHANGED <<drv, call, enum>>
        /\ h \in AllPackets /\ trb \in [AllPackets -> Trbs]
    BY <1>4 DEF TickIssue, TypeOK
  <2>1. CASE \E s : CompleteHead(s) /\ tick' = "idle"
    BY <2>0, <2>1, HeadSafe
  <2>2. CASE /\ trb' = [trb EXCEPT ![h].started = TRUE] /\ tick' = "check"
             /\ UNCHANGED <<queue, stat, event>>
    <3>1. /\ \A p \in AllPackets : trb'[p].live = trb[p].live
          /\ \A p \in AllPackets : p # h => trb'[p].started = trb[p].started
          /\ trb'[h].started
      <4>1. trb[h] \in Trbs
        BY <2>0
      <4> DEFINE r == [trb[h] EXCEPT !.started = TRUE]
      <4>2. r.live = trb[h].live /\ r.started
        BY <4>1 DEF Trbs
      <4>3. trb' = [trb EXCEPT ![h] = r]
        BY <2>2
      <4> HIDE DEF r
      <4> QED
        BY <2>0, <4>2, <4>3
    <3> QED
      BY <2>0, <2>2, <3>1, ServeHeadSafe
  <2> QED
    BY <1>4, <2>1, <2>2 DEF TickIssue
<1>2. CASE TickCheck
  <2>0. /\ queue # <<>> /\ tick = "check" /\ tick' = "idle"
        /\ UNCHANGED <<drv, call, enum>>
        /\ h \in AllPackets /\ trb \in [AllPackets -> Trbs]
    BY <1>2 DEF TickCheck, TypeOK
  <2>1. CASE \E s : CompleteHead(s)
    BY <2>0, <2>1, HeadSafe
  <2>2. CASE /\ trb' = [trb EXCEPT ![h].tmo = IF trb[h].wait THEN @ ELSE @ - 1]
             /\ UNCHANGED <<queue, stat, event>>
    <3> DEFINE r == [trb[h] EXCEPT !.tmo = IF trb[h].wait THEN @ ELSE @ - 1]
    <3>1. r.live = trb[h].live /\ r.started = trb[h].started
      <4>1. trb[h] \in Trbs
        BY <2>0
      <4> QED
        BY <4>1 DEF Trbs
    <3>2. trb' = [trb EXCEPT ![h] = r]
      BY <2>2
    <3> HIDE DEF r
    <3>3. \A p \in AllPackets : /\ trb'[p].live = trb[p].live
                                /\ trb'[p].started = trb[p].started
      BY <2>0, <3>1, <3>2
    <3> QED
      BY <2>0, <2>2, <3>3, ServeHeadSafe
  <2> QED
    BY <1>2, <2>1, <2>2 DEF TickCheck
<1> QED
  BY <1>1, <1>2, <1>3, <1>4 DEF TickStep

LEMMA StopSafe ==
  ASSUME TypeOK, SafetyInv, Stop \/ StopDrain \/ StopUninstall
  PROVE  SafetyInv'
<1>0. CallsConsistent /\ StopQuiet /\ PacketsApart
  BY DEF SafetyInv
<1>1. CASE StopDrain
  <2>1. tick = "idle" /\ tick' = "idle"
    BY <1>0, <1>1 DEF StopDrain, StopQuiet
  <2> QED
    BY <1>1, <2>1, HeadSafe DEF StopDrain
<1>2. CASE Stop \/ StopUninstall
  <2>1. UNCHANGED <<queue, trb, event, tick, enum>>
    <3>1. CASE Stop
      BY <3>1 DEF Stop
    <3>2. CASE StopUninstall
      BY <1>0, <3>2 DEF StopUninstall, StopQuiet
    <3> QED
      BY <1>2, <3>1, <3>2
  <2>2. /\ call'["Enum"] = call["Enum"]
        /\ call["App"].pkt = None /\ call'["App"].pkt = None
        /\ call["App"].pc \in OutsidePcs
        /\ \/ /\ call'["App"].pc = "idle"
           \/ /\ call'["App"].pc = "uninstall" /\ queue = <<>>
              /\ ~drv'.timers /\ enum = "idle" /\ tick = "idle"
           \/ /\ call'["App"].pc = "stopping"
              /\ ~drv'.timers /\ enum = "idle" /\ tick = "idle"
    <3>1. CASE Stop
      <4>1. call["App"].pc = "idle" /\ call["App"].pkt = None
        BY <3>1, CallType DEF Stop, OutsidePcs
      <4> QED
        BY <3>1, <4>1 DEF Stop, Goto, CanRun, OutsidePcs, TypeOK
    <3>2. CASE StopUninstall
      <4>1. call["App"].pc = "uninstall" /\ call["App"].pkt = None
        BY <3>2, CallType DEF StopUninstall, OutsidePcs
      <4> QED
        BY <3>2, <4>1 DEF StopUninstall, IdleCall, OutsidePcs, TypeOK
    <3> QED
      BY <1>2, <3>1, <3>2
  <2>3. \A p : InQueue(p)' <=> InQueue(p)
    BY <2>1 DEF InQueue
  <2>4. \A t \in Threads, p \in AllPackets : HoldsTrb(t, p)' <=> HoldsTrb(t, p)
    BY <2>2, PacketAssumption DEF HoldsTrb
  <2>5. QueueWellFormed' /\ SignalledOnce' /\ TrbOwned'
    BY <2>1, <2>3, <2>4
       DEF SafetyInv, QueueWellFormed, SignalledOnce, TrbOwned
  <2>6. SyncExclusive' /\ PacketsApart'
    BY <2>1, <2>2, <2>3 DEF SafetyInv, SyncExclusive, PacketsApart
  <2>7. CallsConsistent' /\ StopQuiet'
    BY <1>0, <2>1, <2>2 DEF CallsConsistent, StopQuiet, HoldsTrb
  <2> QED
    BY <2>5, <2>6, <2>7 DEF SafetyInv
<1> QED
  BY <1>1, <1>2

LEMMA IdentifySafe ==
  ASSUME TypeOK, SafetyInv, Identify
  PROVE  SafetyInv'
<1>1. /\ UNCHANGED <<queue, trb, event, tick, drv>>
      /\ enum \in {"emmc", "emmcMode", "sd", "sdMode"}
      /\ tick = "idle"
      /\ call["Enum"].pc = "returned" /\ call["Enum"].pkt = None
      /\ call' = [call EXCEPT !["Enum"] = IdleCall]
  BY CallType DEF Identify, IdentifyStep, CanRun, OutsidePcs
<1>2. /\ call'["App"] = call["App"]
      /\ call'["Enum"].pc = "idle" /\ call'["Enum"].pkt = None
      /\ call'["Enum"].async = FALSE
  BY <1>1 DEF IdleCall, TypeOK
<1>3. \A p : InQueue(p)' <=> InQueue(p)
  BY <1>1 DEF InQueue
<1>4. \A t \in Threads : \A p : HoldsTrb(t, p)' <=> HoldsTrb(t, p)
  BY <1>1, <1>2 DEF HoldsTrb
<1>5. QueueWellFormed' /\ SignalledOnce' /\ TrbOwned'
  BY <1>1, <1>3, <1>4 DEF SafetyInv, QueueWellFormed, SignalledOnce, TrbOwned
<1>6. SyncExclusive' /\ PacketsApart'
  BY <1>1, <1>2, <1>3 DEF SafetyInv, SyncExclusive, PacketsApart
<1>7. CallsConsistent' /\ StopQuiet'
  BY <1>1, <1>2 DEF SafetyInv, CallsConsistent, StopQuiet, HoldsTrb
<1> QED
  BY <1>5, <1>6, <1>7 DEF SafetyInv

LEMMA SafetyStep ==
  ASSUME ~Resubmit, TypeOK, SafetyInv, [Next]_vars
  PROVE  SafetyInv'
<1>1. CASE ClientPassThru
  <2>1. PICK p \in Packets, async \in BOOLEAN, valid \in BOOLEAN :
           PassThru("App", p, async, valid)
    BY <1>1 DEF ClientPassThru
  <2> QED
    BY <2>1, PassThruSafe DEF AllPackets
<1>2. CASE IdPassThru
  BY <1>2, PassThruSafe DEF IdPassThru, AllPackets
<1>3. ASSUME NEW t \in Threads, PassThruStep(t) PROVE SafetyInv'
  BY <1>3, PassThruStepSafe
<1>4. CASE \E p \in Packets : NotifySubmit(p)
  BY <1>4 DEF NotifySubmit
<1>5. CASE ResetDevice
  BY <1>5, DrainSafe DEF ResetDevice, CanRun
<1>6. CASE DrainRemoved
  <2>1. call["Enum"].pc = "idle"
    BY <1>6 DEF DrainRemoved, SafetyInv, CallsConsistent
  <2> QED
    BY <1>6, <2>1, DrainSafe DEF DrainRemoved, CanRun
<1>7. CASE Identify
  BY <1>7, IdentifySafe
<1>8. CASE TickStep
  BY <1>8, TickSafe
<1>9. CASE Stop \/ StopStep
  BY <1>9, StopSafe DEF StopStep
<1>10. CASE DetectCard \/ ResetInserted \/ Start \/ MoveCard \/ Hardware
            \/ UNCHANGED vars
  BY <1>10, QuietSteps
<1> QED
  BY <1>1, <1>2, <1>3, <1>4, <1>5, <1>6, <1>7, <1>8, <1>9, <1>10
     DEF Next, EnumStep

-----------------------------------------------------------------------------
(* The theorems of the specification.                                       *)

\* Every variable keeps its type: in particular a TRB's timeout never passes
\* below zero, which "Trb->Timeout-- == 0" has to make sure of.
THEOREM TypeCorrect == Spec => []TypeOK
<1>1. Init => TypeOK
  BY TypeInit
<1>2. TypeOK /\ [Next]_vars => TypeOK'
  BY TypeStep
<1> QED
  BY <1>1, <1>2, PTL DEF Spec

\* The inductive invariant: as long as no notification submits requests, every
\* part of it holds in every reachable state.
THEOREM Safety == ASSUME ~Resubmit PROVE Spec => []SafetyInv
<1>1. Init => TypeOK /\ SafetyInv
  BY TypeInit, SafetyInit
<1>2. TypeOK /\ SafetyInv /\ [Next]_vars => TypeOK' /\ SafetyInv'
  BY TypeStep, SafetyStep
<1> QED
  BY <1>1, <1>2, PTL DEF Spec

\* Every accepted request is queued with its event not signalled, or was
\* signalled exactly once, whichever of the four completion paths (timer,
\* removal, Stop, ResetDevice) took it from the queue.
THEOREM EventsOnce == ASSUME ~Resubmit PROVE Spec => []SignalledOnce
<1>1. SafetyInv => SignalledOnce
  BY DEF SafetyInv
<1> QED
  BY <1>1, Safety, PTL

\* The queue of ProcessAsyncTaskList never holds a TRB twice or a freed one,
\* and only its first can be with the card.
THEOREM QueueSound == ASSUME ~Resubmit PROVE Spec => []QueueWellFormed
<1>1. SafetyInv => QueueWellFormed
  BY DEF SafetyInv
<1> QED
  BY <1>1, Safety, PTL

\* DwMmcCreateTrb and DwMmcFreeTrb pair up on every path: a TRB is allocated
\* exactly while it is queued or a PassThru call is using it.
THEOREM TrbLifetime == ASSUME ~Resubmit PROVE Spec => []TrbOwned
<1>1. SafetyInv => TrbOwned
  BY DEF SafetyInv
<1> QED
  BY <1>1, Safety, PTL

\* Once PassThru has seen the asynchronous list empty, it stays empty until
\* the blocking command is done, although the loop leaves TPL_NOTIFY first.
THEOREM SyncAlone == ASSUME ~Resubmit PROVE Spec => []SyncExclusive
<1>1. SafetyInv => SyncExclusive
  BY DEF SafetyInv
<1> QED
  BY <1>1, Safety, PTL

-----------------------------------------------------------------------------
(* The driver implements AsyncFifo.  Accepting, completing and draining map *)
(* to the steps of that name, a call of PassThru to the preparation of the  *)
(* request, and every other step to a stutter.                              *)

LEMMA CompleteRefines ==
  ASSUME TypeOK, SafetyInv, queue # <<>>, NEW s, CompleteHead(s)
  PROVE  Fifo!Complete
<1> DEFINE h == Head(queue)
<1>1. h \in AllPackets /\ h = queue[1] /\ 1 \in 1..Len(queue)
  BY DEF TypeOK
<1>2. event[h] = "pending"
  BY <1>1 DEF SafetyInv, SignalledOnce, InQueue
<1>3. event' = [event EXCEPT ![h] = "signalled"]
  BY <1>2 DEF CompleteHead, Signal
<1> QED
  BY <1>3 DEF CompleteHead, Fifo!Complete

LEMMA DrainRefines ==
  ASSUME TypeOK, SafetyInv, NEW s, DrainQueue(s)
  PROVE  Fifo!Flush
<1>1. \A p \in AllPackets : InQueue(p) <=> Fifo!Waiting(p)
  <2>1. DOMAIN queue = 1..Len(queue)
    BY DEF TypeOK
  <2> QED
    BY <2>1 DEF InQueue, Fifo!Waiting
<1>2. \A p \in AllPackets : InQueue(p) => Signal(event[p]) = "signalled"
  BY DEF SafetyInv, SignalledOnce, Signal
<1>3. event' = [p \in AllPackets |->
                  IF Fifo!Waiting(p) THEN "signalled" ELSE event[p]]
  BY <1>1, <1>2 DEF DrainQueue
<1> QED
  BY <1>3 DEF DrainQueue, Fifo!Flush

LEMMA PassThruRefines ==
  ASSUME TypeOK, SafetyInv, NEW t \in Threads, NEW p \in AllPackets,
         NEW async, NEW valid, PassThru(t, p, async, valid)
  PROVE  Fifo!Prepare(p)
<1>1. event[p] # "pending"
  BY DEF PassThru, InFlight, SafetyInv, SignalledOnce
<1>2. event' = [event EXCEPT ![p] = "idle"] /\ UNCHANGED queue
  BY DEF PassThru, PassThruEnter, PassThruRefused
<1> QED
  BY <1>1, <1>2 DEF Fifo!Prepare

LEMMA InsertRefines ==
  ASSUME TypeOK, SafetyInv, NEW t \in Threads, InsertTrb(t)
  PROVE  \E p \in AllPackets : Fifo!Accept(p)
<1> DEFINE p == call[t].pkt
<1>1. p \in AllPackets /\ p # None
  BY CallType, PacketAssumption DEF InsertTrb, InsidePcs
<1>2. event[p] # "pending"
  BY <1>1 DEF SafetyInv, PacketsApart, SignalledOnce
<1> QED
  BY <1>1, <1>2 DEF InsertTrb, Fifo!Accept

LEMMA StepRefines ==
  ASSUME ~Resubmit, TypeOK, SafetyInv, [Next]_vars
  PROVE  [Fifo!Next]_(Fifo!vars)
<1> USE DEF Fifo!vars
<1>1. CASE ClientPassThru \/ IdPassThru
  <2>1. PICK t \in Threads, p \in AllPackets, async \in BOOLEAN, valid \in BOOLEAN :
           PassThru(t, p, async, valid)
    BY <1>1 DEF ClientPassThru, IdPassThru, AllPackets
  <2>2. Fifo!Prepare(p)
    BY <2>1, PassThruRefines
  <2> QED
    BY <2>2 DEF Fifo!Next
<1>2. ASSUME NEW t \in Threads, PassThruStep(t) PROVE [Fifo!Next]_(Fifo!vars)
  <2>1. CASE InsertTrb(t)
    BY <2>1, InsertRefines DEF Fifo!Next
  <2>2. CASE ~InsertTrb(t)
    BY <1>2, <2>2 DEF PassThruStep, CreateTrb, CreateTrbError, WaitQueueEmpty,
                      ClearSync, ExecSync, WaitTrbResult
  <2> QED
    BY <2>1, <2>2
<1>3. CASE \E p \in Packets : NotifySubmit(p)
  BY <1>3 DEF NotifySubmit
<1>4. CASE ResetDevice \/ DrainRemoved
  BY <1>4, DrainRefines DEF ResetDevice, DrainRemoved, Fifo!Next
<1>5. CASE Tick
  <2>1. CASE \E s : CompleteHead(s)
    BY <1>5, <2>1, CompleteRefines DEF Tick, Fifo!Next
  <2>2. CASE UNCHANGED <<queue, event>>
    BY <2>2
  <2> QED
    BY <1>5, <2>1, <2>2 DEF Tick, TickNoMedia, TickExec, TickStarted
<1>6. CASE TickCheck
  <2>1. CASE \E s : CompleteHead(s)
    BY <1>6, <2>1, CompleteRefines DEF TickCheck, Fifo!Next
  <2>2. CASE UNCHANGED <<queue, event>>
    BY <2>2
  <2> QED
    BY <1>6, <2>1, <2>2 DEF TickCheck
<1>7. CASE StopDrain
  BY <1>7, CompleteRefines DEF StopDrain, Fifo!Next
<1>8. CASE StopUninstall
  BY <1>8 DEF StopUninstall, SafetyInv, StopQuiet
<1>9. CASE Stop \/ Identify \/ DetectCard \/ ResetInserted \/ Start
           \/ MoveCard \/ Hardware \/ UNCHANGED vars
  BY <1>9 DEF Stop, Identify, DetectCard, ResetInserted, Start, MoveCard,
              Hardware, HwFifoDone, HwDmaDone, CardReady, vars, client, hw
<1>10. CASE TickClear
  BY <1>10 DEF TickClear
<1>11. CASE TickIssue
  <2>1. CASE \E s : CompleteHead(s)
    BY <1>11, <2>1, CompleteRefines DEF TickIssue, Fifo!Next
  <2>2. CASE UNCHANGED <<queue, event>>
    BY <2>2
  <2> QED
    BY <1>11, <2>1, <2>2 DEF TickIssue
<1> QED
  BY <1>1, <1>2, <1>3, <1>4, <1>5, <1>6, <1>7, <1>8, <1>9, <1>10, <1>11
     DEF Next, EnumStep, TickStep, StopStep

\* The asynchronous PassThru is a FIFO of requests: they are accepted at
\* the back and leave from the front, one at a time or all at once, and none is
\* signalled while it waits.
THEOREM ImplementsFifo == ASSUME ~Resubmit PROVE Spec => FifoSpec
<1>1. Init => Fifo!Init
  BY DEF Init, Fifo!Init
<1>2. TypeOK /\ SafetyInv /\ [Next]_vars => [Fifo!Next]_(Fifo!vars)
  BY StepRefines
<1> QED
  BY <1>1, <1>2, TypeCorrect, Safety, PTL DEF Spec, FifoSpec, Fifo!Spec

-----------------------------------------------------------------------------
(* Whose transfer it was.  On a slot whose card stays in, a command is given *)
(* only when the one before was answered or given up, so the controller's    *)
(* status bits are those of the command waited for, but for those that a      *)
(* transfer given up, and still on the bus when they were cleared, raises     *)
(* before the command is given.  By DMA that needs one                        *)
(* client at most that transfers data: DwMmcCreateTrb programs the table of  *)
(* a request when it is accepted, and not when it is its turn.               *)

\* Where the FIFO moves all data, and the packets that use the DMA elsewhere.
AllFifo == Cards \cup {PlatformCard} \subseteq {"Sd"}
DmaPackets == IF AllFifo THEN {} ELSE DataPackets \cap Packets
OneDmaUser == \A p, q \in DmaPackets : p = q

\* p's command was given and its TRB is still there.
Executing(p) == /\ trb[p].live
                /\ \/ trb[p].started
                   \/ call["App"].pc = "result" /\ call["App"].pkt = p
ByDma(p) == trb[p].live /\ trb[p].data /\ ~trb[p].fifo

\* RINTSTS was cleared for a command that was not given yet.
Issuing == tick = "issue" \/ call["App"].pc = "issue"

\* Nothing is detected on a slot whose card stays in.
NoDetection == enum = "idle" /\ call["Enum"].pc = "idle" /\ card \in Cards

\* What the TRBs say of the DMA: at TPL_NOTIFY it is waited for at once.
TrbsTell ==
    /\ AllFifo => slot.cardType = "Sd"
    /\ \A p \in AllPackets :
          /\ ~trb[p].live => ~trb[p].started
          /\ ByDma(p) => p \in DmaPackets
          /\ ByDma(p) /\ trb[p].started => tick = "check"

\* The table stands ready for the DMA command that was not given yet.
DmaTells ==
    /\ dma.desc \in DmaPackets \cup {None} /\ idsts \in DmaPackets \cup {None}
    /\ \A p \in AllPackets : ByDma(p) /\ ~Executing(p) =>
          dma.desc = p /\ dma.own /\ idsts = None

\* The bus and its status bits belong to the command that was given.
BusTells ==
    /\ bus.pkt # None /\ bus.dma =>
          /\ bus.pkt \in AllPackets /\ ByDma(bus.pkt) /\ Executing(bus.pkt)
          /\ dma.own /\ idsts = None
    /\ \A p \in AllPackets : Executing(p) =>
          bus.pkt \in {None, p} /\ (overlap \/ rint \in {None, p})
    /\ Issuing => overlap \/ (rint = None /\ bus.pkt = None)

OwnInv == NoDetection /\ TrbsTell /\ DmaTells /\ BusTells

\* It holds at first, when there is neither a request nor a transfer.
LEMMA OwnInit == ASSUME ~Removable, Init PROVE OwnInv
<1>1. \A p \in AllPackets : ~trb[p].live /\ ~trb[p].started
  BY DEF Init, NoTrb
<1>2. NoDetection
  BY DEF Init, NoDetection, IdleCall
<1>3. TrbsTell
  BY <1>1 DEF Init, TrbsTell, ByDma, NoSlot, AllFifo
<1>4. DmaTells /\ BusTells
  BY <1>1 DEF Init, DmaTells, BusTells, ByDma, Executing, Issuing, IdleCall, NoBus
<1> QED
  BY <1>2, <1>3, <1>4 DEF OwnInv

\* Whatever of a TRB but its timeout is the same.
SameTrb(p) == /\ trb'[p].live = trb[p].live /\ trb'[p].data = trb[p].data
              /\ trb'[p].fifo = trb[p].fifo /\ trb'[p].started = trb[p].started

\* A step that gives no command and makes no TRB: those in Freed are freed,
\* none of them moving data by DMA, and status bits may be cleared.
LEMMA OwnKept ==
  ASSUME OwnInv, NEW Freed,
         UNCHANGED <<enum, card, dma, overlap>>, call'["Enum"].pc = "idle",
         Issuing' => Issuing,
         AllFifo => slot'.cardType = "Sd",
         \A p \in AllPackets \ Freed :
             SameTrb(p) /\ (Executing(p)' <=> Executing(p)),
         \A p \in AllPackets \cap Freed : ~trb'[p].live /\ ~trb'[p].started,
         \/ UNCHANGED <<rint, bus>>
         \/ (rint' = None \/ UNCHANGED rint) /\ bus'.pkt = None,
         idsts' \in {idsts, None},
         bus'.pkt # None /\ bus.dma => bus.pkt \notin Freed,
         \/ tick' = tick \/ tick' = "check"
         \/ \A p \in AllPackets \ Freed : ~(ByDma(p) /\ trb[p].started)
  PROVE  OwnInv'
<1>1. \A p \in AllPackets : /\ ByDma(p)' <=> (ByDma(p) /\ p \notin Freed)
                            /\ Executing(p)' <=> (Executing(p) /\ p \notin Freed)
  <2> SUFFICES ASSUME NEW p \in AllPackets
               PROVE  /\ ByDma(p)' <=> (ByDma(p) /\ p \notin Freed)
                      /\ Executing(p)' <=> (Executing(p) /\ p \notin Freed)
    OBVIOUS
  <2>1. CASE p \in Freed
    BY <2>1 DEF ByDma, Executing
  <2>2. CASE p \notin Freed
    BY <2>2 DEF SameTrb, ByDma
  <2> QED BY <2>1, <2>2
<1>2. NoDetection'
  BY DEF OwnInv, NoDetection
<1>3. TrbsTell'
  <2> SUFFICES ASSUME NEW p \in AllPackets
               PROVE  /\ ~trb'[p].live => ~trb'[p].started
                      /\ ByDma(p)' => p \in DmaPackets
                      /\ ByDma(p)' /\ trb'[p].started => tick' = "check"
    BY DEF TrbsTell
  <2> QED
    BY <1>1 DEF OwnInv, TrbsTell, SameTrb
<1>4. DmaTells'
  BY <1>1 DEF OwnInv, DmaTells
<1>5. BusTells'
  BY <1>1 DEF OwnInv, BusTells
<1> QED
  BY <1>2, <1>3, <1>4, <1>5 DEF OwnInv

\* A step that frees no TRB.
LEMMA OwnSame ==
  ASSUME OwnInv,
         UNCHANGED <<enum, card, dma, overlap>>, call'["Enum"].pc = "idle",
         Issuing' => Issuing,
         AllFifo => slot'.cardType = "Sd",
         \A q \in AllPackets : SameTrb(q) /\ (Executing(q)' <=> Executing(q)),
         \/ UNCHANGED <<rint, bus>>
         \/ (rint' = None \/ UNCHANGED rint) /\ bus'.pkt = None,
         idsts' \in {idsts, None},
         \/ tick' = tick \/ tick' = "check"
         \/ \A q \in AllPackets : ~(ByDma(q) /\ trb[q].started)
  PROVE  OwnInv'
<1> DEFINE F == {}
<1>1. AllPackets \ F = AllPackets /\ AllPackets \cap F = {} /\ bus.pkt \notin F
  OBVIOUS
<1> HIDE DEF F
<1> QED
  BY <1>1, OwnKept

\* A step that frees the TRB of h.
LEMMA OwnFreed ==
  ASSUME TypeOK, OwnInv, NEW h \in AllPackets,
         trb' = [trb EXCEPT ![h] = NoTrb],
         UNCHANGED <<enum, card, dma, overlap>>, call'["Enum"].pc = "idle",
         Issuing' => Issuing,
         AllFifo => slot'.cardType = "Sd",
         \A q \in AllPackets : q # h => (Executing(q)' <=> Executing(q)),
         \/ UNCHANGED <<rint, bus>>
         \/ (rint' = None \/ UNCHANGED rint) /\ bus'.pkt = None,
         idsts' \in {idsts, None},
         bus'.pkt # None /\ bus.dma => bus.pkt # h,
         \/ tick' = tick
         \/ \A q \in AllPackets : q # h => ~trb[q].started
  PROVE  OwnInv'
<1> DEFINE F == {h}
<1>1. /\ \A q \in AllPackets \ F : q \in AllPackets /\ q # h
      /\ \A q \in AllPackets \cap F : q = h
      /\ bus'.pkt # None /\ bus.dma => bus.pkt \notin F
  OBVIOUS
<1> HIDE DEF F
<1>2. /\ ~trb'[h].live /\ ~trb'[h].started
      /\ \A q \in AllPackets : q # h => trb'[q] = trb[q]
  BY DEF TypeOK, NoTrb
<1>3. \A q \in AllPackets \ F : SameTrb(q) /\ (Executing(q)' <=> Executing(q))
  BY <1>1, <1>2 DEF SameTrb
<1>4. \A q \in AllPackets \cap F : ~trb'[q].live /\ ~trb'[q].started
  BY <1>1, <1>2
<1>5. \/ tick' = tick \/ tick' = "check"
      \/ \A q \in AllPackets \ F : ~(ByDma(q) /\ trb[q].started)
  BY <1>1
<1> QED
  BY <1>1, <1>3, <1>4, <1>5, OwnKept

\* A step that gives p's command when no other was given: the TRBs are those
\* there were, p's is one of them, and its data phase begins or not.
LEMMA OwnGiven ==
  ASSUME OwnInv, NEW p \in AllPackets, trb[p].live, ~Executing(p),
         UNCHANGED <<enum, card, dma, idsts, slot, rint, overlap>>,
         call'["Enum"].pc = "idle", Issuing, ~Issuing',
         \A q \in AllPackets :
             /\ trb'[q].live = trb[q].live /\ trb'[q].data = trb[q].data
             /\ trb'[q].fifo = trb[q].fifo
             /\ ~Executing(q)
             /\ Executing(q)' <=> q = p
             /\ trb'[q].started => q = p /\ tick' = "check",
         \/ bus'.pkt = None
         \/ bus'.pkt = p /\ trb[p].data /\ bus'.dma = ~trb[p].fifo
  PROVE  OwnInv'
<1>1. \A q \in AllPackets : ByDma(q)' <=> ByDma(q)
  BY DEF ByDma
<1>2. NoDetection'
  BY DEF OwnInv, NoDetection
<1>3. TrbsTell'
  BY <1>1 DEF OwnInv, TrbsTell
<1>4. DmaTells'
  BY <1>1 DEF OwnInv, DmaTells
<1>5. BusTells'
  <2>1. bus'.pkt # None /\ bus'.dma =>
           ByDma(p) /\ dma.own /\ idsts = None /\ bus'.pkt = p
    BY DEF OwnInv, DmaTells, ByDma
  <2>2. bus'.pkt # None /\ bus'.dma =>
           /\ bus'.pkt \in AllPackets /\ ByDma(bus.pkt)' /\ Executing(bus.pkt)'
           /\ dma'.own /\ idsts' = None
    BY <1>1, <2>1
  <2>3. bus'.pkt \in {None, p} /\ (overlap' \/ rint' = None)
    BY DEF OwnInv, BusTells
  <2> QED
    BY <2>2, <2>3, ZenonT(30) DEF BusTells
<1> QED
  BY <1>2, <1>3, <1>4, <1>5 DEF OwnInv

\* A step that clears RINTSTS when no command was given that is waited for.
LEMMA OwnCleared ==
  ASSUME OwnInv, ClearInterrupts, UNCHANGED <<slot, enum, card, trb>>,
         call'["Enum"].pc = "idle",
         \A q \in AllPackets : ~Executing(q) /\ ~Executing(q)' /\ ~trb[q].started
  PROVE  OwnInv'
<1>1. /\ rint' = None /\ overlap' = (bus.pkt # None)
      /\ UNCHANGED <<bus, dma, idsts>>
  BY DEF ClearInterrupts
<1>2. \A q \in AllPackets : ByDma(q)' <=> ByDma(q)
  BY DEF ByDma
<1>3. NoDetection'
  BY DEF OwnInv, NoDetection
<1>4. TrbsTell'
  BY <1>2 DEF OwnInv, TrbsTell
<1>5. DmaTells'
  BY <1>1, <1>2 DEF OwnInv, DmaTells
<1>6. BusTells'
  <2>1. ~(bus.pkt # None /\ bus.dma)
    BY DEF OwnInv, BusTells
  <2>2. ~(bus'.pkt # None /\ bus'.dma)
    BY <1>1, <2>1
  <2>3. rint' = None /\ (overlap' \/ bus'.pkt = None)
    BY <1>1, Zenon
  <2>4. \A q \in AllPackets : ~Executing(q)'
    OBVIOUS
  <2> QED
    BY <2>2, <2>3, <2>4, ZenonT(30) DEF BusTells
<1> QED
  BY <1>3, <1>4, <1>5, <1>6 DEF OwnInv

\* A step that makes the TRB of a packet the App thread prepares, or fails to.
LEMMA OwnCreated ==
  ASSUME OneDmaUser, TypeOK, SafetyInv, OwnInv,
         CreateTrb("App") \/ CreateTrbError("App")
  PROVE  OwnInv'
<1> SUFFICES ASSUME NEW p, p = call["App"].pkt PROVE OwnInv'
  OBVIOUS
<1>0. /\ call["App"].pc = "create"
      /\ UNCHANGED <<enum, card, slot, tick, bus, rint, overlap>>
  BY DEF CreateTrb, CreateTrbError
<1>1. p \in Packets /\ p \in AllPackets /\ trb \in [AllPackets -> Trbs] /\ "App" \in Threads
  <2>1. p \in AllPackets
    BY <1>0, CallType DEF InsidePcs, OutsidePcs
  <2>2. p \in Packets
    BY <2>1, PacketAssumption DEF SafetyInv, PacketsApart
  <2> QED
    BY <2>1, <2>2 DEF TypeOK
<1>2. ~trb[p].live /\ ~trb[p].started /\ ~Executing(p) /\ ~ByDma(p)
  <2>1. ~InQueue(p) /\ \A t \in Threads : ~HoldsTrb(t, p)
    <3>1. ~HoldsTrb("App", p)
      BY <1>0 DEF HoldsTrb
    <3>2. ~HoldsTrb("Enum", p)
      BY DEF HoldsTrb, OwnInv, NoDetection
    <3>3. ~InQueue(p)
      BY <1>1, PacketAssumption DEF SafetyInv, PacketsApart
    <3> QED BY <3>1, <3>2, <3>3
  <2> QED
    BY <1>1, <2>1 DEF SafetyInv, TrbOwned, OwnInv, TrbsTell, Executing, ByDma
<1>3. /\ call'["Enum"].pc = "idle" /\ call'["App"].pc \notin {"issue", "result"}
      /\ call["App"].pc # "result"
  <2>1. CASE CreateTrb("App")
    BY <1>0, <2>1 DEF CreateTrb, Goto, OwnInv, NoDetection, TypeOK
  <2>2. CASE CreateTrbError("App")
    BY <1>0, <2>2 DEF CreateTrbError, Return, IdleCall, OwnInv, NoDetection, TypeOK
  <2> QED BY <2>1, <2>2
<1>4. /\ \A q \in AllPackets : q # p => trb'[q] = trb[q]
      /\ \/ trb' = trb
         \/ /\ trb'[p].live /\ ~trb'[p].started
            /\ trb'[p].data = (p \in DataPackets)
            /\ trb'[p].fifo = (slot.cardType = "Sd")
  <2>1. CASE CreateTrb("App")
    <3>1. PICK tmo : DwMmcCreateTrb(p, tmo)
      BY <2>1 DEF CreateTrb
    <3>2. trb' = [trb EXCEPT ![p] = NewTrb(p, p \in DataPackets, tmo)]
      BY <3>1 DEF DwMmcCreateTrb
    <3>3. trb'[p] = NewTrb(p, p \in DataPackets, tmo)
      BY <1>1, <3>2
    <3> QED
      BY <1>1, <3>2, <3>3 DEF NewTrb
  <2>2. CASE CreateTrbError("App")
    BY <2>2 DEF CreateTrbError, CreateTrbFails
  <2> QED BY <2>1, <2>2
<1>5. \/ UsesDma(p \in DataPackets) /\ ProgramDma(p)
      \/ /\ UNCHANGED <<dma, idsts>>
         /\ trb' # trb => ~UsesDma(p \in DataPackets)
  <2>1. CASE CreateTrb("App")
    BY <2>1 DEF CreateTrb, DwMmcCreateTrb
  <2>2. CASE CreateTrbError("App")
    BY <2>2 DEF CreateTrbError, CreateTrbFails
  <2> QED BY <2>1, <2>2
<1>6. UsesDma(p \in DataPackets) => p \in DmaPackets
  BY <1>1 DEF UsesDma, DmaPackets, OwnInv, TrbsTell
<1>7. \A q \in AllPackets :
         /\ Executing(q)' <=> Executing(q)
         /\ q # p => (ByDma(q)' <=> ByDma(q))
         /\ ByDma(p)' => UsesDma(p \in DataPackets)
  <2> SUFFICES ASSUME NEW q \in AllPackets
               PROVE  /\ Executing(q)' <=> Executing(q)
                      /\ q # p => (ByDma(q)' <=> ByDma(q))
                      /\ ByDma(p)' => UsesDma(p \in DataPackets)
    OBVIOUS
  <2>1. CASE q # p
    BY <1>2, <1>3, <1>4, <2>1 DEF Executing, ByDma, UsesDma
  <2>2. CASE q = p
    BY <1>2, <1>3, <1>4, <2>2 DEF Executing, ByDma, UsesDma
  <2> QED BY <2>1, <2>2
\* Nobody else uses the DMA when p does.
<1>8. UsesDma(p \in DataPackets) => \A q \in AllPackets : ~ByDma(q)
  BY <1>2, <1>6 DEF OneDmaUser, OwnInv, TrbsTell
<1>9. NoDetection'
  BY <1>0, <1>3 DEF OwnInv, NoDetection
<1>10. TrbsTell'
  <2> SUFFICES ASSUME NEW q \in AllPackets
               PROVE  /\ ~trb'[q].live => ~trb'[q].started
                      /\ ByDma(q)' => q \in DmaPackets
                      /\ ByDma(q)' /\ trb'[q].started => tick' = "check"
    BY <1>0 DEF TrbsTell, OwnInv
  <2>1. CASE q # p
    BY <1>0, <1>4, <1>7, <2>1 DEF OwnInv, TrbsTell
  <2>2. CASE q = p
    BY <1>2, <1>4, <1>6, <1>7, <2>2
  <2> QED BY <2>1, <2>2
<1>11. DmaTells'
  <2>1. CASE UsesDma(p \in DataPackets) /\ ProgramDma(p)
    <3>1. dma'.desc = p /\ dma'.own /\ idsts' = None
      BY <2>1 DEF ProgramDma
    <3>2. \A q \in AllPackets : ByDma(q)' => q = p
      BY <1>7, <1>8, <2>1
    <3> QED
      BY <1>6, <2>1, <3>1, <3>2 DEF DmaTells
  <2>2. CASE /\ UNCHANGED <<dma, idsts>>
             /\ trb' # trb => ~UsesDma(p \in DataPackets)
    <3>1. ByDma(p)' => FALSE
      <4>1. CASE trb' = trb
        BY <1>2, <4>1 DEF ByDma
      <4>2. CASE trb' # trb
        BY <1>1, <1>7, <2>2, <4>2
      <4> QED BY <4>1, <4>2
    <3> QED
      BY <1>7, <2>2, <3>1 DEF OwnInv, DmaTells
  <2> QED BY <1>5, <2>1, <2>2
<1>12. BusTells'
  <2>1. bus'.pkt # None /\ bus'.dma =>
          /\ bus'.pkt \in AllPackets /\ ByDma(bus.pkt)' /\ Executing(bus.pkt)'
          /\ dma'.own /\ idsts' = None
    <3> SUFFICES ASSUME NEW q, q = bus.pkt, q # None, bus.dma
                 PROVE  /\ q \in AllPackets /\ ByDma(q)' /\ Executing(q)'
                        /\ dma'.own /\ idsts' = None
      BY <1>0
    <3>1. /\ q \in AllPackets /\ ByDma(q) /\ Executing(q)
          /\ dma.own /\ idsts = None
      BY DEF OwnInv, BusTells
    <3>2. ~UsesDma(p \in DataPackets) /\ q # p
      BY <1>2, <1>8, <3>1
    <3> QED
      BY <1>5, <1>7, <3>1, <3>2
  <2>2. \A q \in AllPackets : Executing(q)' =>
          bus'.pkt \in {None, q} /\ (overlap' \/ rint' \in {None, q})
    BY <1>0, <1>7 DEF OwnInv, BusTells
  <2>3. Issuing' => overlap' \/ (rint' = None /\ bus'.pkt = None)
    BY <1>0, <1>3 DEF Issuing, OwnInv, BusTells
  <2> QED
    BY <1>0, <2>1, <2>2, <2>3 DEF BusTells
<1> QED
  BY <1>9, <1>10, <1>11, <1>12 DEF OwnInv

\* Who executes: the first request of the queue, or the blocking command that
\* waited for the queue to be empty.
LEMMA WhoExecutes ==
  ASSUME TypeOK, SafetyInv, OwnInv, NEW q \in AllPackets, Executing(q)
  PROVE  \/ /\ queue # <<>> /\ q = Head(queue) /\ trb[q].started
            /\ call["App"].pc \notin {"exec", "issue", "result"}
         \/ /\ queue = <<>> /\ ~trb[q].started
            /\ call["App"].pc = "result" /\ call["App"].pkt = q
<1>1. CASE trb[q].started
  <2>1. \A t \in Threads : ~HoldsTrb(t, q)
    BY <1>1 DEF SafetyInv, CallsConsistent, HoldsTrb
  <2>2. PICK i \in 1..Len(queue) : queue[i] = q
    BY <2>1 DEF SafetyInv, TrbOwned, Executing, InQueue
  <2>3. i = 1
    BY <1>1, <2>2 DEF SafetyInv, QueueWellFormed
  <2>4. queue # <<>> /\ Head(queue) = q
    BY <2>2, <2>3 DEF TypeOK
  <2> QED
    BY <1>1, <2>4 DEF SafetyInv, SyncExclusive
<1>2. CASE ~trb[q].started
  BY <1>2 DEF SafetyInv, SyncExclusive, Executing
<1> QED BY <1>1, <1>2

\* The first request of the queue has a TRB, and none but it executes.
LEMMA HeadExecutes ==
  ASSUME TypeOK, SafetyInv, OwnInv, queue # <<>>
  PROVE  /\ Head(queue) \in AllPackets /\ trb[Head(queue)].live
         /\ \A q \in AllPackets : Executing(q) => q = Head(queue) /\ trb[q].started
         /\ call["App"].pc # "result"
<1>1. Head(queue) \in AllPackets /\ 1 \in 1..Len(queue) /\ Head(queue) = queue[1]
  BY DEF TypeOK
<1>2. trb[Head(queue)].live
  BY <1>1 DEF SafetyInv, QueueWellFormed
<1> QED
  BY <1>1, <1>2, WhoExecutes DEF SafetyInv, SyncExclusive

\* What ExecTrb leaves of the bus.
LEMMA BusGiven ==
  ASSUME NEW p, NEW s, DwMmcExecTrb(p, s)
  PROVE  /\ UNCHANGED <<rint, dma, idsts, overlap>>
         /\ \/ bus'.pkt = None
            \/ s = "Success" /\ bus'.pkt = p /\ trb[p].data /\ bus'.dma = ~trb[p].fifo
  BY DEF DwMmcExecTrb, NoBus

\* The timer: a request is sent, in three steps, given up, completed or counted
\* down.
LEMMA OwnTick ==
  ASSUME TypeOK, SafetyInv, OwnInv, TickStep
  PROVE  OwnInv'
<1> SUFFICES ASSUME NEW h, h = Head(queue) PROVE OwnInv'
  OBVIOUS
<1>0. /\ queue # <<>> /\ UNCHANGED <<drv, slot, call, enum, card>>
      /\ call'["Enum"].pc = "idle" /\ (AllFifo => slot'.cardType = "Sd")
  BY DEF TickStep, Tick, TickClear, TickIssue, TickCheck, OwnInv, NoDetection, TrbsTell,
         SafetyInv, QueueWellFormed
<1>1. /\ h \in AllPackets /\ trb[h].live /\ trb[h] \in Trbs
      /\ trb \in [AllPackets -> Trbs]
      /\ \A q \in AllPackets : Executing(q) => q = h /\ trb[q].started
      /\ call["App"].pc \notin {"issue", "result"}
  BY <1>0, HeadExecutes DEF TypeOK, SafetyInv, SyncExclusive
<1>2. /\ \A q \in AllPackets : trb'[q] = trb[q] =>
            SameTrb(q) /\ (Executing(q)' <=> Executing(q))
      /\ trb' = [trb EXCEPT ![h] = NoTrb] =>
            \A q \in AllPackets : q # h => (Executing(q)' <=> Executing(q))
  BY <1>0, <1>1 DEF SameTrb, Executing
<1>3. \A q \in AllPackets : q # h => ~trb[q].started
  BY <1>1 DEF OwnInv, TrbsTell, Executing
<1>4. CASE Tick
  <2>1. tick = "idle" /\ ~(ByDma(h) /\ trb[h].started)
    BY <1>1, <1>4 DEF Tick, OwnInv, TrbsTell
  <2>2. bus.pkt # None => ~bus.dma
    BY <1>1, <2>1 DEF OwnInv, BusTells
  <2>3. CASE TickNoMedia
    <3>1. trb' = [trb EXCEPT ![h] = NoTrb] /\ UNCHANGED <<tick, hw>>
      BY <2>3 DEF TickNoMedia, CompleteHead
    <3>2. UNCHANGED <<rint, bus, idsts, dma, overlap>> /\ tick' = tick
      BY <3>1 DEF hw
    <3>3. Issuing' => Issuing
      BY <1>0, <3>2 DEF Issuing
    <3> QED
      BY <1>0, <1>1, <1>2, <2>2, <3>1, <3>2, <3>3, OwnFreed
  <2>4. CASE TickExec \/ TickStarted
    <3>1. /\ UNCHANGED <<trb, rint, bus, idsts, dma, overlap>>
          /\ tick' = "check" \/ (tick' = "exec" /\ ~trb[h].started)
      BY <2>4 DEF TickExec, TickStarted, hw
    <3>2. \A q \in AllPackets : SameTrb(q) /\ (Executing(q)' <=> Executing(q))
      BY <1>2, <3>1
    <3>3. Issuing' => Issuing
      BY <1>0, <1>1, <3>1 DEF Issuing
    <3>4. \/ tick' = "check"
          \/ \A q \in AllPackets : ~(ByDma(q) /\ trb[q].started)
      BY <1>3, <3>1
    <3> QED
      BY <1>0, <3>1, <3>2, <3>3, <3>4, OwnSame
  <2> QED BY <1>4, <2>3, <2>4 DEF Tick
<1>6. CASE TickClear
  <2>1. ClearInterrupts /\ UNCHANGED trb /\ tick = "exec"
    BY <1>6 DEF TickClear
  <2>2. ~trb[h].started
    BY <1>0, <2>1 DEF SafetyInv, QueueWellFormed
  <2>3. \A q \in AllPackets : ~Executing(q) /\ ~Executing(q)' /\ ~trb[q].started
    BY <1>1, <1>2, <1>3, <2>1, <2>2
  <2> QED
    BY <1>0, <2>1, <2>3, OwnCleared
<1>7. CASE TickIssue
  <2>1. PICK s \in Statuses :
           /\ DwMmcExecTrb(h, s)
           /\ IF s = "Success"
              THEN /\ trb' = [trb EXCEPT ![h].started = TRUE]
                   /\ tick' = "check"
                   /\ UNCHANGED <<queue, stat, event>>
              ELSE CompleteHead(s) /\ tick' = "idle"
    BY <1>7 DEF TickIssue
  <2>2. /\ UNCHANGED <<rint, dma, idsts, overlap>>
        /\ \/ bus'.pkt = None
           \/ s = "Success" /\ bus'.pkt = h /\ trb[h].data /\ bus'.dma = ~trb[h].fifo
    BY <2>1, BusGiven
  <2>3. ~trb[h].started /\ ~Executing(h)
    <3>1. tick = "issue"
      BY <1>7 DEF TickIssue
    <3>2. ~trb[h].started
      BY <1>0, <3>1 DEF SafetyInv, QueueWellFormed
    <3> QED BY <1>1, <3>2
  <2>4. Issuing /\ (tick' # "issue" => ~Issuing')
    BY <1>0, <1>1, <1>7 DEF Issuing, TickIssue
  <2>5. CASE s = "Success"
    <3> DEFINE r == [trb[h] EXCEPT !.started = TRUE]
    <3>1. r.live = trb[h].live /\ r.data = trb[h].data /\ r.fifo = trb[h].fifo /\ r.started
      BY <1>1 DEF Trbs
    <3>2. trb' = [trb EXCEPT ![h] = r] /\ tick' = "check"
      BY <2>1, <2>5
    <3> HIDE DEF r
    <3>3. /\ trb'[h] = r
          /\ \A q \in AllPackets : q # h => trb'[q] = trb[q]
      BY <1>1, <3>2
    <3>4. \A q \in AllPackets :
            /\ trb'[q].live = trb[q].live /\ trb'[q].data = trb[q].data
            /\ trb'[q].fifo = trb[q].fifo
            /\ ~Executing(q)
            /\ Executing(q)' <=> q = h
            /\ trb'[q].started => q = h /\ tick' = "check"
      <4> SUFFICES ASSUME NEW q \in AllPackets
                   PROVE  /\ trb'[q].live = trb[q].live /\ trb'[q].data = trb[q].data
                          /\ trb'[q].fifo = trb[q].fifo
                          /\ ~Executing(q)
                          /\ Executing(q)' <=> q = h
                          /\ trb'[q].started => q = h /\ tick' = "check"
        OBVIOUS
      <4>1. ~Executing(q)
        BY <1>1, <2>3
      <4>2. CASE q = h
        BY <1>1, <3>1, <3>2, <3>3, <4>1, <4>2 DEF Executing
      <4>3. CASE q # h
        BY <1>2, <1>3, <3>3, <4>1, <4>3
      <4> QED BY <4>2, <4>3
    <3> QED
      BY <1>0, <1>1, <2>2, <2>3, <2>4, <3>2, <3>4, OwnGiven
  <2>6. CASE s # "Success"
    <3>1. /\ trb' = [trb EXCEPT ![h] = NoTrb] /\ tick' = "idle" /\ bus'.pkt = None
      BY <2>1, <2>2, <2>6 DEF CompleteHead
    <3>2. Issuing' => Issuing
      BY <2>4
    <3> QED
      BY <1>0, <1>1, <1>2, <1>3, <2>2, <3>1, <3>2, OwnFreed
  <2> QED BY <2>5, <2>6
<1>5. CASE TickCheck
  <2>0. /\ UNCHANGED <<bus, rint, dma, overlap>> /\ CheckReturns(h)
        /\ idsts' \in {idsts, None} /\ (Issuing' => Issuing)
        /\ \/ trb' = [trb EXCEPT ![h] = NoTrb]
           \/ /\ ~CheckReady(h)
              /\ trb' = [trb EXCEPT ![h].tmo = IF trb[h].wait THEN @ ELSE @ - 1]
    BY <1>0, <1>5 DEF TickCheck, CompleteHead, ClearIdsts, Issuing
  <2>1. bus.pkt # None /\ bus.dma => bus.pkt # h
    BY <2>0 DEF OwnInv, BusTells, CheckReturns, ByDma
  <2>2. CASE trb' = [trb EXCEPT ![h] = NoTrb]
    BY <1>0, <1>1, <1>2, <1>3, <2>0, <2>1, <2>2, OwnFreed
  <2>3. CASE /\ ~CheckReady(h)
             /\ trb' = [trb EXCEPT ![h].tmo = IF trb[h].wait THEN @ ELSE @ - 1]
    <3> DEFINE r == [trb[h] EXCEPT !.tmo = IF trb[h].wait THEN @ ELSE @ - 1]
    <3>1. r.live = trb[h].live /\ r.data = trb[h].data /\ r.fifo = trb[h].fifo
          /\ r.started = trb[h].started
      BY <1>1 DEF Trbs
    <3>2. trb' = [trb EXCEPT ![h] = r]
      BY <2>3
    <3> HIDE DEF r
    <3>3. /\ trb'[h] = r
          /\ \A q \in AllPackets : q # h => trb'[q] = trb[q]
      BY <1>1, <3>2
    <3>4. \A q \in AllPackets : SameTrb(q) /\ (Executing(q)' <=> Executing(q))
      BY <1>0, <3>1, <3>3 DEF SameTrb, Executing
    <3>5. \A q \in AllPackets : ~(ByDma(q) /\ trb[q].started)
      <4>1. ~ByDma(h)
        BY <2>3 DEF CheckReady, ByDma
      <4> QED BY <1>3, <4>1
    <3> QED
      BY <1>0, <2>0, <3>4, <3>5, OwnSame
  <2> QED BY <2>0, <2>2, <2>3
<1> QED BY <1>4, <1>5, <1>6, <1>7 DEF TickStep

\* The steps of a client's call of PassThru, once it was accepted.
LEMMA OwnApp ==
  ASSUME OneDmaUser, TypeOK, SafetyInv, OwnInv, PassThruStep("App")
  PROVE  OwnInv'
<1> SUFFICES ASSUME NEW p, p = call["App"].pkt PROVE OwnInv'
  OBVIOUS
<1>0. /\ "App" \in Threads /\ call["App"].pc \in InsidePcs \cup OutsidePcs
      /\ call["App"].pc \in InsidePcs => p \in AllPackets
      /\ call \in [Threads -> Calls] /\ trb \in [AllPackets -> Trbs]
  BY CallType DEF TypeOK
<1>1. CASE CreateTrb("App") \/ CreateTrbError("App")
  BY <1>1, OwnCreated
<1>2. CASE InsertTrb("App") \/ WaitQueueEmpty("App")
  <2>1. /\ UNCHANGED <<slot, trb, enum, tick, card, bus, rint, idsts, dma, overlap>>
        /\ call["App"].pc \in {"insert", "waitq"}
        /\ call'["App"].pc \notin {"issue", "result"} /\ call'["Enum"] = call["Enum"]
    <3>0. "App" \in Threads /\ "Enum" \in Threads /\ "Enum" # "App"
      BY DEF Threads
    <3>1. CASE InsertTrb("App")
      BY <1>0, <3>0, <3>1 DEF InsertTrb, IdleCall, hw
    <3>2. CASE WaitQueueEmpty("App")
      <4>1. call' = [call EXCEPT !["App"].pc = "exec"]
        BY <3>2 DEF WaitQueueEmpty, Goto
      <4>2. call'["App"].pc = "exec" /\ call'["Enum"] = call["Enum"]
        BY <1>0, <3>0, <4>1 DEF Calls
      <4> QED BY <3>2, <4>2 DEF WaitQueueEmpty, hw
    <3> QED BY <1>2, <3>1, <3>2
  <2>2. \A q \in AllPackets : SameTrb(q) /\ (Executing(q)' <=> Executing(q))
    BY <2>1 DEF SameTrb, Executing
  <2>3. Issuing' => Issuing
    BY <2>1 DEF Issuing
  <2> QED
    BY <2>1, <2>2, <2>3, OwnSame DEF OwnInv, NoDetection, TrbsTell
<1>5. CASE ClearSync("App")
  <2>1. /\ ClearInterrupts /\ UNCHANGED <<slot, enum, card, trb>>
        /\ call["App"].pc = "exec" /\ call' = [call EXCEPT !["App"].pc = "issue"]
    BY <1>5 DEF ClearSync, Goto
  <2>2. call'["App"].pc = "issue" /\ call'["Enum"] = call["Enum"]
    BY ZenonT(60), <1>0, <2>1 DEF Calls
  <2>3. \A q \in AllPackets : ~Executing(q)
    BY <2>1, WhoExecutes
  <2>4. \A q \in AllPackets : ~trb[q].started /\ ~Executing(q)'
    BY <2>1, <2>2, <2>3 DEF Executing, OwnInv, TrbsTell
  <2> QED
    BY <2>1, <2>2, <2>3, <2>4, OwnCleared DEF OwnInv, NoDetection
<1>3. CASE ExecSync("App")
  <2>1. PICK s \in Statuses :
           /\ DwMmcExecTrb(p, s)
           /\ IF s = "Success"
              THEN Goto("App", "result") /\ UNCHANGED <<trb, stat>>
              ELSE Return("App", s) /\ trb' = [trb EXCEPT ![p] = NoTrb]
    BY <1>3 DEF ExecSync
  <2>2. /\ UNCHANGED <<slot, enum, tick, card, dma, idsts, rint, overlap>>
        /\ call["App"].pc = "issue" /\ p \in AllPackets /\ tick = "idle"
        /\ \/ bus'.pkt = None
           \/ s = "Success" /\ bus'.pkt = p /\ trb[p].data /\ bus'.dma = ~trb[p].fifo
    BY <1>0, <1>3, <2>1, BusGiven DEF ExecSync, CanRun, InsidePcs
  <2>3. \A q \in AllPackets : ~Executing(q)
    <3> SUFFICES ASSUME NEW q \in AllPackets, Executing(q) PROVE FALSE
      OBVIOUS
    <3>1. call["App"].pc # "issue"
      BY WhoExecutes
    <3> QED BY <2>2, <3>1
  <2>4. trb[p].live
    BY <1>0, <2>2 DEF SafetyInv, TrbOwned, HoldsTrb
  <2>5. CASE s = "Success"
    <3>1. /\ trb' = trb /\ call'["App"].pc = "result" /\ call'["App"].pkt = p
          /\ call'["Enum"] = call["Enum"]
      BY ZenonT(60), <1>0, <2>1, <2>5 DEF Goto, Calls
    <3>2. \A q \in AllPackets :
              /\ trb'[q].live = trb[q].live /\ trb'[q].data = trb[q].data
              /\ trb'[q].fifo = trb[q].fifo
              /\ ~Executing(q)
              /\ Executing(q)' <=> q = p
              /\ trb'[q].started => q = p /\ tick' = "check"
      BY <2>3, <2>4, <3>1 DEF Executing, OwnInv, TrbsTell
    <3>3. Issuing /\ ~Issuing'
      BY <2>2, <3>1 DEF Issuing
    <3> QED
      BY <2>2, <2>3, <2>4, <3>1, <3>2, <3>3, OwnGiven DEF OwnInv, NoDetection
  <2>6. CASE s # "Success"
    <3>1. /\ trb' = [trb EXCEPT ![p] = NoTrb] /\ bus'.pkt = None
          /\ call'["App"].pc # "result" /\ call'["Enum"] = call["Enum"]
      BY <1>0, <2>1, <2>2, <2>6 DEF Return, IdleCall
    <3>2. \A q \in AllPackets : q # p => (Executing(q)' <=> Executing(q))
      BY <1>0, <2>2, <3>1 DEF Executing
    <3>3. Issuing
      BY <2>2 DEF Issuing
    <3> QED
      BY <2>2, <3>1, <3>2, <3>3, OwnFreed DEF OwnInv, NoDetection, TrbsTell
  <2> QED BY <2>5, <2>6
<1>4. CASE WaitTrbResult("App")
  <2>1. /\ UNCHANGED <<slot, enum, tick, card, bus, rint, dma, overlap>> /\ CheckReturns(p)
        /\ call["App"].pc = "result" /\ idsts' \in {idsts, None} /\ p \in AllPackets
        /\ \/ (\E s : Return("App", s)) /\ trb' = [trb EXCEPT ![p] = NoTrb]
           \/ trb' = [trb EXCEPT ![p].tmo = @ - 1] /\ UNCHANGED call
    <3>1. call["App"].pc = "result"
      BY <1>4 DEF WaitTrbResult
    <3>2. p \in AllPackets
      BY <1>0, <3>1 DEF InsidePcs
    <3>3. /\ UNCHANGED <<slot, enum, tick, card, bus, rint, dma, overlap>> /\ CheckReturns(p)
          /\ ClearIdsts(p)
          /\ \/ (\E s : Return("App", s)) /\ trb' = [trb EXCEPT ![p] = NoTrb]
             \/ trb' = [trb EXCEPT ![p].tmo = @ - 1] /\ UNCHANGED call
      BY <1>4 DEF WaitTrbResult
    <3> QED BY <3>1, <3>2, <3>3 DEF ClearIdsts
  <2>2. bus.pkt # None /\ bus.dma => bus.pkt # p
    BY <2>1 DEF OwnInv, BusTells, CheckReturns, ByDma
  <2>3. CASE (\E s : Return("App", s)) /\ trb' = [trb EXCEPT ![p] = NoTrb]
    <3>1. call'["App"].pc \notin {"issue", "result"} /\ call'["Enum"] = call["Enum"]
      BY <1>0, <2>3 DEF Return, IdleCall
    <3>2. \A q \in AllPackets : q # p => (Executing(q)' <=> Executing(q))
      BY <1>0, <2>3, <3>1 DEF Executing
    <3>3. Issuing' => Issuing
      BY <2>1, <3>1 DEF Issuing
    <3> QED
      BY <2>1, <2>2, <2>3, <3>1, <3>2, <3>3, OwnFreed DEF OwnInv, NoDetection, TrbsTell
  <2>4. CASE trb' = [trb EXCEPT ![p].tmo = @ - 1] /\ UNCHANGED call
    <3> DEFINE r == [trb[p] EXCEPT !.tmo = @ - 1]
    <3>1. r.live = trb[p].live /\ r.data = trb[p].data /\ r.fifo = trb[p].fifo
          /\ r.started = trb[p].started
      BY <1>0, <2>1 DEF Trbs
    <3>2. trb' = [trb EXCEPT ![p] = r]
      BY <2>4
    <3> HIDE DEF r
    <3>3. /\ trb'[p] = r
          /\ \A q \in AllPackets : q # p => trb'[q] = trb[q]
      BY <1>0, <2>1, <3>2
    <3>4. \A q \in AllPackets : SameTrb(q) /\ (Executing(q)' <=> Executing(q))
      BY <2>4, <3>1, <3>3 DEF SameTrb, Executing
    <3>5. Issuing' => Issuing
      BY <2>1, <2>4 DEF Issuing
    <3> QED
      BY <2>1, <2>4, <3>4, <3>5, OwnSame DEF OwnInv, NoDetection, TrbsTell
  <2> QED BY <2>1, <2>3, <2>4
<1> QED
  BY <1>1, <1>2, <1>3, <1>4, <1>5 DEF PassThruStep

\* ResetDevice cancels what is queued, while no command is with the card by DMA.
LEMMA OwnReset ==
  ASSUME TypeOK, SafetyInv, OwnInv, ResetDevice
  PROVE  OwnInv'
<1>1. /\ UNCHANGED <<slot, call, enum, tick, card, bus, rint, idsts, dma, overlap>>
      /\ tick = "idle" /\ call["App"].pc = "idle"
      /\ trb' = [p \in AllPackets |-> IF InQueue(p) THEN NoTrb ELSE trb[p]]
  BY DEF ResetDevice, DrainQueue, CanRun, hw
<1>2. bus.pkt # None => ~bus.dma
  BY <1>1 DEF OwnInv, BusTells, TrbsTell, Executing
<1> DEFINE F == {p \in AllPackets : InQueue(p)}
<1>3. /\ \A p \in AllPackets \ F : trb'[p] = trb[p]
      /\ \A p \in AllPackets \cap F : trb'[p] = NoTrb
  BY <1>1
<1> HIDE DEF F
<1>4. \A p \in AllPackets \ F : SameTrb(p) /\ (Executing(p)' <=> Executing(p))
  BY <1>1, <1>3 DEF SameTrb, Executing
<1>5. \A p \in AllPackets \cap F : ~trb'[p].live /\ ~trb'[p].started
  BY <1>3 DEF NoTrb
<1>6. Issuing' => Issuing
  BY <1>1 DEF Issuing
<1> QED
  BY <1>1, <1>2, <1>4, <1>5, <1>6, OwnKept DEF OwnInv, NoDetection, TrbsTell

\* Entering PassThru, and the driver binding.
LEMMA OwnBinding ==
  ASSUME ~Removable, TypeOK, SafetyInv, OwnInv,
         ClientPassThru \/ Start \/ Stop \/ StopStep
  PROVE  OwnInv'
<1>0. /\ "App" \in Threads /\ call \in [Threads -> Calls]
      /\ call["Enum"].pc = "idle" /\ card \in Cards /\ enum = "idle"
  BY DEF TypeOK, OwnInv, NoDetection
<1>1. /\ UNCHANGED <<enum, card, dma, overlap, tick>> /\ call'["Enum"] = call["Enum"]
      /\ call["App"].pc # "result" /\ call'["App"].pc \notin {"issue", "result"}
      /\ \/ UNCHANGED <<rint, bus>>
         \/ rint' = None /\ bus'.pkt = None
      /\ idsts' \in {idsts, None}
  <2>1. CASE ClientPassThru
    <3>1. PICK p \in Packets, async \in BOOLEAN, valid \in BOOLEAN :
             PassThru("App", p, async, valid)
      BY <2>1 DEF ClientPassThru
    <3>2. CASE PassThruEnter("App", p, async, valid)
      BY <1>0, <3>1, <3>2 DEF PassThru, PassThruEnter, hw
    <3>3. CASE PassThruRefused("App", p, valid)
      BY <1>0, <3>1, <3>3 DEF PassThru, PassThruRefused, IdleCall, hw
    <3> QED BY <3>1, <3>2, <3>3 DEF PassThru
  <2>2. CASE Start
    BY <1>0, <2>2 DEF Start, NoBus
  <2>3. CASE Stop
    BY <1>0, <2>3 DEF Stop, Goto, hw
  <2>4. CASE StopDrain
    BY <1>0, <2>4 DEF StopDrain, Goto, hw
  <2>5. CASE StopUninstall
    BY <1>0, <2>5 DEF StopUninstall, IdleCall, hw
  <2> QED BY <2>1, <2>2, <2>3, <2>4, <2>5 DEF StopStep
<1>2. AllFifo => slot'.cardType = "Sd"
  <2>1. CASE Start
    BY <1>0, <2>1 DEF Start, OwnInv, TrbsTell, AllFifo
  <2>2. CASE StopUninstall
    BY <2>2 DEF StopUninstall, NoSlot, OwnInv, TrbsTell, AllFifo
  <2>3. CASE ClientPassThru \/ Stop \/ StopDrain
    <3>1. slot' = slot
      BY <2>3 DEF ClientPassThru, PassThru, Stop, StopDrain
    <3> QED BY <3>1 DEF OwnInv, TrbsTell
  <2> QED BY <2>1, <2>2, <2>3 DEF StopStep
<1>5. Issuing' => Issuing
  BY <1>1 DEF Issuing
<1>3. CASE StopDrain
  <2> SUFFICES ASSUME NEW h, h = Head(queue) PROVE OwnInv'
    OBVIOUS
  <2>1. /\ queue # <<>> /\ trb' = [trb EXCEPT ![h] = NoTrb] /\ tick = "idle"
        /\ h \in AllPackets
    BY <1>3 DEF StopDrain, CompleteHead, CanRun, TypeOK
  <2>2. bus'.pkt # None /\ bus.dma => bus.pkt # h
    <3>1. UNCHANGED bus
      BY <1>3 DEF StopDrain, hw
    <3>2. bus.pkt # None => ~bus.dma
      BY <1>1, <2>1 DEF OwnInv, BusTells, TrbsTell, Executing
    <3> QED BY <3>1, <3>2
  <2>3. \A q \in AllPackets : q # h => (Executing(q)' <=> Executing(q))
    BY <1>1, <2>1 DEF TypeOK, Executing
  <2> QED
    BY <1>0, <1>1, <1>2, <1>5, <2>1, <2>2, <2>3, OwnFreed
<1>4. CASE ~StopDrain
  <2>1. trb' = trb
    BY <1>4 DEF ClientPassThru, PassThru, Start, Stop, StopStep, StopUninstall
  <2>2. \A q \in AllPackets : SameTrb(q) /\ (Executing(q)' <=> Executing(q))
    BY <1>1, <2>1 DEF SameTrb, Executing
  <2> QED
    BY <1>0, <1>1, <1>2, <1>5, <2>2, OwnSame
<1> QED BY <1>3, <1>4

\* The controller ends the data phase of the command that was given.
LEMMA OwnHardware ==
  ASSUME OneDmaUser, TypeOK, OwnInv, Hardware
  PROVE  OwnInv'
<1>1. UNCHANGED <<slot, trb, call, enum, tick, card, overlap>>
  BY DEF Hardware, HwFifoDone, HwDmaDone, CardReady, client
<1>2. /\ Issuing' <=> Issuing
      /\ \A q \in AllPackets : /\ ByDma(q)' <=> ByDma(q)
                               /\ Executing(q)' <=> Executing(q)
  BY <1>1 DEF ByDma, Executing, Issuing
<1>3. NoDetection' /\ TrbsTell'
  <2>1. NoDetection'
    BY <1>1 DEF OwnInv, NoDetection
  <2>2. TrbsTell'
    BY <1>1, <1>2 DEF OwnInv, TrbsTell
  <2> QED BY <2>1, <2>2
<1>4. CASE HwFifoDone
  <2>1. /\ rint' = bus.pkt /\ bus.pkt # None /\ bus'.pkt = None
        /\ UNCHANGED <<idsts, dma>>
    BY <1>4 DEF HwFifoDone, NoBus
  <2>2. DmaTells'
    BY <1>2, <2>1 DEF OwnInv, DmaTells
  <2>3. BusTells'
    BY <1>1, <1>2, <2>1 DEF OwnInv, BusTells
  <2> QED BY <1>3, <2>2, <2>3 DEF OwnInv
<1>5. CASE HwDmaDone
  <2>1. /\ idsts' = dma.desc /\ bus'.pkt = None /\ rint' = rint
        /\ dma'.desc = dma.desc /\ bus.pkt # None /\ bus.dma
    BY <1>5 DEF HwDmaDone, NoBus, TypeOK
  <2>2. \A q \in AllPackets : ByDma(q) => Executing(q)
    <3>1. bus.pkt \in AllPackets /\ ByDma(bus.pkt) /\ Executing(bus.pkt)
      BY <2>1 DEF OwnInv, BusTells
    <3>2. \A q \in AllPackets : ByDma(q) => q = bus.pkt
      BY <3>1 DEF OwnInv, TrbsTell, OneDmaUser
    <3> QED BY <3>1, <3>2
  <2>3. DmaTells'
    BY <1>2, <2>1, <2>2 DEF OwnInv, DmaTells
  <2>4. BusTells'
    BY <1>1, <1>2, <2>1 DEF OwnInv, BusTells
  <2> QED BY <1>3, <2>3, <2>4 DEF OwnInv
<1>6. CASE CardReady
  <2>1. UNCHANGED <<bus, rint, idsts, dma>>
    BY <1>6 DEF CardReady
  <2>2. DmaTells'
    BY <1>2, <2>1 DEF OwnInv, DmaTells
  <2>3. BusTells'
    BY <1>1, <1>2, <2>1 DEF OwnInv, BusTells
  <2> QED BY <1>3, <2>2, <2>3 DEF OwnInv
<1> QED BY <1>4, <1>5, <1>6 DEF Hardware

\* Every step that a soldered slot takes: nothing is detected or identified.
LEMMA OwnSteps ==
  ASSUME ~Removable, ~Resubmit, OwnInv, [Next]_vars
  PROVE  \/ ClientPassThru \/ ResetDevice \/ Start \/ Stop \/ StopStep
         \/ PassThruStep("App") \/ TickStep \/ Hardware \/ UNCHANGED vars
<1>1. ~EnumStep
  BY DEF EnumStep, DetectCard, DrainRemoved, ResetInserted, IdPassThru, Identify,
         OwnInv, NoDetection
<1>2. ~PassThruStep("Enum")
  BY DEF PassThruStep, CreateTrb, CreateTrbError, InsertTrb, WaitQueueEmpty, ClearSync,
         ExecSync, WaitTrbResult, OwnInv, NoDetection
<1>3. ~MoveCard /\ \A p \in Packets : ~NotifySubmit(p)
  BY DEF MoveCard, NotifySubmit
<1> QED BY <1>1, <1>2, <1>3 DEF Next

\* Every step keeps the invariant.
LEMMA OwnStep ==
  ASSUME ~Removable, ~Resubmit, OneDmaUser, TypeOK, SafetyInv, OwnInv, [Next]_vars
  PROVE  OwnInv'
<1>1. CASE UNCHANGED vars
  <2>1. UNCHANGED <<slot, trb, call, enum, tick, card, bus, rint, idsts, dma, overlap>>
    BY <1>1 DEF vars, client, hw
  <2>2. /\ \A q \in AllPackets : SameTrb(q) /\ (Executing(q)' <=> Executing(q))
        /\ Issuing' => Issuing
    BY <2>1 DEF SameTrb, Executing, Issuing
  <2> QED
    BY <2>1, <2>2, OwnSame DEF OwnInv, NoDetection, TrbsTell
<1> QED
  BY <1>1, OwnSteps, OwnBinding, OwnReset, OwnApp, OwnTick, OwnHardware

\* The invariant of a slot whose card stays in.
THEOREM SolderedSlot ==
  ASSUME ~Removable, ~Resubmit, OneDmaUser
  PROVE  Spec => [](TypeOK /\ SafetyInv /\ OwnInv)
<1>1. Init => TypeOK /\ SafetyInv /\ OwnInv
  BY TypeInit, SafetyInit, OwnInit
<1>2. TypeOK /\ SafetyInv /\ OwnInv /\ [Next]_vars => TypeOK' /\ SafetyInv' /\ OwnInv'
  BY TypeStep, SafetyStep, OwnStep
<1> QED
  BY <1>1, <1>2, PTL DEF Spec

\* A data command that is told it succeeded was told so by status bits of its
\* own transfer: on a slot whose card stays in, when no notification submits
\* requests and one client at most moves data by DMA, and over the FIFO when no
\* transfer that was given up was still on the bus as RINTSTS was cleared for it.
THEOREM CompletionsOwn ==
  ASSUME ~Removable, ~Resubmit, OneDmaUser
  PROVE  Spec => CompletionIsOwn
<1> DEFINE Own == \A p \in AllPackets :
                     (/\ stat[p] # "Success" /\ stat'[p] = "Success"
                      /\ trb[p].data)
                     => IF trb[p].fifo THEN overlap \/ rint = p ELSE idsts = p
<1>1. TypeOK /\ SafetyInv /\ OwnInv /\ [Next]_vars => [Own]_vars
  <2> SUFFICES ASSUME TypeOK, SafetyInv, OwnInv, Next, NEW p \in AllPackets,
                      stat[p] # "Success", stat'[p] = "Success", trb[p].data
               PROVE  IF trb[p].fifo THEN overlap \/ rint = p ELSE idsts = p
    OBVIOUS
  \* It was waited for, and its transfer reported.
  <2>1. Executing(p) /\ CheckReturns(p) /\ CheckReady(p)
    <3>0. stat \in [AllPackets -> Statuses] /\ "App" \in Threads
      BY DEF TypeOK
    <3>1. CASE TickStep
      <4>0. queue # <<>> /\ Head(queue) \in AllPackets /\ trb[Head(queue)].live
        BY <3>1, HeadExecutes
        DEF TickStep, Tick, TickClear, TickIssue, TickCheck, SafetyInv, QueueWellFormed
      <4>1. TickCheck /\ p = Head(queue) /\ CheckReturns(p) /\ CheckReady(p)
        BY <3>0, <3>1, <4>0
        DEF TickStep, Tick, TickNoMedia, TickExec, TickStarted, TickClear, TickIssue,
            TickCheck, CompleteHead, DwMmcExecTrb, Outcomes
      <4>2. trb[p].started
        BY <4>1 DEF TickCheck, SafetyInv, QueueWellFormed
      <4> QED BY <4>0, <4>1, <4>2 DEF Executing
    <3>2. CASE PassThruStep("App")
      <4>1. /\ WaitTrbResult("App") /\ call["App"].pkt = p
            /\ CheckReturns(p) /\ CheckReady(p)
        BY <3>0, <3>2
        DEF PassThruStep, CreateTrb, CreateTrbError, InsertTrb, WaitQueueEmpty, ClearSync,
            ExecSync, WaitTrbResult, Return
      <4>2. call["App"].pc = "result"
        BY <4>1 DEF WaitTrbResult
      <4>3. trb[p].live
        BY <3>0, <4>1, <4>2 DEF SafetyInv, TrbOwned, HoldsTrb
      <4> QED BY <4>1, <4>2, <4>3 DEF Executing
    <3>3. CASE ClientPassThru
      BY <3>0, <3>3 DEF ClientPassThru, PassThru, PassThruEnter, PassThruRefused
    <3>4. CASE ResetDevice
      BY <3>4 DEF ResetDevice, DrainQueue
    <3>5. CASE StopDrain
      BY <3>0, <3>5 DEF StopDrain, CompleteHead
    <3>6. CASE Start \/ Stop \/ StopUninstall \/ Hardware \/ UNCHANGED vars
      <4>1. stat' = stat
        BY <3>6 DEF Start, Stop, StopUninstall, Hardware, HwFifoDone, HwDmaDone, CardReady,
                    vars, client
      <4> QED BY <4>1
    <3> QED
      BY <3>1, <3>2, <3>3, <3>4, <3>5, <3>6, OwnSteps DEF StopStep
  <2>2. CASE trb[p].fifo
    <3>1. rint # None /\ (overlap \/ rint \in {None, p})
      BY <2>1, <2>2 DEF CheckReady, OwnInv, BusTells
    <3> QED BY <2>2, <3>1
  <2>3. CASE ~trb[p].fifo
    <3>1. idsts # None /\ idsts \in DmaPackets \cup {None}
      BY <2>1, <2>3 DEF CheckReturns, OwnInv, DmaTells
    <3>2. p \in DmaPackets
      BY <2>1, <2>3 DEF Executing, ByDma, OwnInv, TrbsTell
    <3> QED
      BY <2>3, <3>1, <3>2 DEF OneDmaUser
  <2> QED BY <2>2, <2>3
<1> QED
  BY <1>1, SolderedSlot, PTL DEF Spec, CompletionIsOwn

\* A DMA command starts with DBADDR pointing to the table built for it, not
\* consumed yet, under the same conditions.
THEOREM DmaForCommand ==
  ASSUME ~Removable, ~Resubmit, OneDmaUser
  PROVE  Spec => DmaIsForCommand
<1> DEFINE Ready == bus'.pkt # None /\ bus' # bus /\ bus'.dma
                    => dma.desc = bus'.pkt /\ dma.own
<1>1. TypeOK /\ SafetyInv /\ OwnInv /\ [Next]_vars => [Ready]_vars
  <2> SUFFICES ASSUME TypeOK, SafetyInv, OwnInv, Next,
                      bus'.pkt # None, bus' # bus, bus'.dma
               PROVE  dma.desc = bus'.pkt /\ dma.own
    OBVIOUS
  \* Only the command itself begins a data phase.
  <2>1. \E p \in AllPackets : (\E s : DwMmcExecTrb(p, s)) /\ trb[p].live /\ ~Executing(p)
    <3>1. CASE TickStep
      <4>0. queue # <<>> /\ Head(queue) \in AllPackets /\ trb[Head(queue)].live
            /\ call["App"].pc # "result"
        BY <3>1, HeadExecutes
        DEF TickStep, Tick, TickClear, TickIssue, TickCheck, SafetyInv, QueueWellFormed
      <4>1. TickIssue
        BY <3>1 DEF TickStep, Tick, TickNoMedia, TickExec, TickStarted, TickClear,
                    ClearInterrupts, TickCheck, hw
      <4>2. (\E s : DwMmcExecTrb(Head(queue), s)) /\ ~trb[Head(queue)].started
        BY <4>0, <4>1 DEF TickIssue, SafetyInv, QueueWellFormed
      <4> QED BY <4>0, <4>2 DEF Executing
    <3>2. CASE PassThruStep("App")
      <4>1. ExecSync("App")
        BY <3>2 DEF PassThruStep, CreateTrb, CreateTrbError, InsertTrb, WaitQueueEmpty,
                    ClearSync, ClearInterrupts, WaitTrbResult, hw
      <4>2. /\ call["App"].pc = "issue" /\ "App" \in Threads
            /\ \E s : DwMmcExecTrb(call["App"].pkt, s)
        BY <4>1 DEF ExecSync
      <4>3. call["App"].pkt \in AllPackets
        BY <4>2, CallType DEF InsidePcs
      <4>4. trb[call["App"].pkt].live /\ ~Executing(call["App"].pkt)
        BY <4>2, <4>3, WhoExecutes DEF SafetyInv, TrbOwned, HoldsTrb
      <4> QED BY <4>2, <4>3, <4>4
    <3>3. CASE Start \/ Hardware
      BY <3>3 DEF Start, Hardware, HwFifoDone, HwDmaDone, CardReady, NoBus
    <3>4. CASE ClientPassThru \/ ResetDevice \/ Stop \/ StopStep \/ UNCHANGED vars
      BY <3>4 DEF ClientPassThru, PassThru, ResetDevice, Stop, StopStep, StopDrain,
                  StopUninstall, vars, hw
    <3> QED
      BY <3>1, <3>2, <3>3, <3>4, OwnSteps
  <2>2. PICK p \in AllPackets : (\E s : DwMmcExecTrb(p, s)) /\ trb[p].live /\ ~Executing(p)
    BY <2>1
  <2>3. bus'.pkt = p /\ trb[p].data /\ bus'.dma = ~trb[p].fifo
    BY <2>2, BusGiven
  <2>4. dma.desc = p /\ dma.own
    BY <2>2, <2>3 DEF ByDma, OwnInv, DmaTells
  <2> QED BY <2>3, <2>4
<1> QED
  BY <1>1, SolderedSlot, PTL DEF Spec, DmaIsForCommand

-----------------------------------------------------------------------------
(***************************************************************************)
(* CardTransfers.  Where the bytes of a request are while it is carried    *)
(* out: in the buffer, in the FIFO, on the way, or with the card.          *)
(***************************************************************************)

\* The phases of a transfer over the FIFO, those before the command, those that poll,
\* and those from the command on.
BeforeCommand == {"wait", "clear", "reset", "issue"}
FifoPhases ==
    BeforeCommand \cup {"command", "poll", "move", "push", "reread", "check"}
Polls == {"poll", "move", "push", "reread"}
InTransfer == Polls \cup {"command", "check"}
Flags == {"CMD_DONE", "RXDR", "TXDR", "DTO", "ACD", "RI"} \cup Transfer!Errors
AnyLength == Lengths \cup DmaLengths
Dir == IF request.Read THEN "in" ELSE "out"

\* The states the data phase can be in.
BusStates ==
    [dir : {"none", "in", "out"}, cmd : BOOLEAN, done : Int, todo : Int, over : BOOLEAN]

\* A transfer's length in words, and in bytes when it is rounded up to words.
WordLen == Transfer!Up(request.DataLen, 4)
Rounded == 4 * WordLen

\* What a sequence of words is when it follows that many bytes.
Follow(s, from) == \A i \in 1 .. Len(s) : s[i] = from + 4 * i - 3

\* The buffer when a request was made, and when got bytes of a read are in it.
Fresh == \A o \in Transfer!Around :
    bytes[o] = IF ~request.Read /\ o \in 0 .. request.DataLen - 1 THEN o + 1 ELSE 0
Filled(got) == \A o \in Transfer!Around :
    bytes[o] = IF Transfer!Mirror(o) \in 0 .. got - 1 THEN Transfer!Mirror(o) + 1 ELSE 0
Clean == \A o \in Transfer!Around \ (0 .. Transfer!Extent - 1) : bytes[o] = 0

\* What the card was sent, in words; and in bytes, which behind the buffer are any.
SentAll == sent \in Seq(Int) /\ 4 * Len(sent) = Rounded /\ Follow(sent, 0)
SentBytes(n) ==
    /\ sent \in Seq(Int) /\ Len(sent) = n
    /\ \A k \in 1 .. n : k <= request.DataLen => sent[k] = k

\* Types, and what bounds the counters.
RequestTyped ==
    /\ emmc \in BOOLEAN
    /\ status \in {"none", "SUCCESS", "DEVICE_ERROR", "TIMEOUT", "OUT_OF_RESOURCES"}
    /\ phase \in {"idle"} \cup (IF emmc THEN {"dma"} ELSE FifoPhases)
    /\ request.Read \in BOOLEAN /\ request.UseBE \in BOOLEAN
    /\ request.UseBE => request.Read /\ ~emmc
    /\ request.DataLen \in Nat /\ request.DataLen \in AnyLength \cup {0}
    /\ phase # "idle" => request.DataLen \in AnyLength
    /\ phase \in {"push", "reread"} => ~request.Read
LoopTyped ==
    /\ intsts \subseteq Flags /\ bits \subseteq Flags /\ full \in BOOLEAN
    /\ received \in 0 .. 2 * Transfer!Longest + 2
    /\ phase \in {"poll", "move"} => received < request.DataLen
    /\ timeout \in 0 .. GenericTimeout + CommandPolls + CallerTimeout
    /\ phase = "command" => timeout \in 1 .. CommandPolls
    /\ phase \in Polls => timeout \in 1 .. GenericTimeout
    /\ phase = "check" => timeout \in 1 .. CallerTimeout
WireTyped ==
    /\ dirty \in BOOLEAN /\ bad \in BOOLEAN
    /\ busAt \in BusStates
    /\ emmc => ~busAt.cmd /\ ~busAt.over
    /\ phase \in InTransfer => busAt.dir \in {"none", Dir}
    /\ fifo \in Seq(Int) /\ Len(fifo) <= Depth
    /\ phase = "push" /\ ~full => Len(fifo) < Depth
    /\ ~emmc => bytes \in [Transfer!Around -> Int] /\ sent \in Seq(Int)
TableTyped ==
    phase = "dma" =>
        LET e == Transfer!Up(request.DataLen, DmaBufSize)
        IN  /\ table \in [1 .. e -> [own : BOOLEAN, last : BOOLEAN, address : Int, size : Int,
                                     next : 0 .. e]]
            /\ idmac \in 0 .. e

\* Where the bytes of a transfer are, got of them having been moved by the driver.
ReadSoFar(got) ==
    /\ Follow(fifo, got) /\ Filled(got)
    /\ got + 4 * Len(fifo) = IF busAt.dir = "in" THEN 4 * busAt.done ELSE Rounded
    /\ busAt.dir = "in" => /\ busAt.todo = WordLen /\ busAt.done <= WordLen
                           /\ busAt.over => busAt.done = busAt.todo
WrittenSoFar(got) ==
    /\ Fresh /\ Follow(sent, 0) /\ Follow(fifo, 4 * Len(sent))
    /\ 4 * Len(sent) + 4 * Len(fifo) = got /\ got <= Rounded
    /\ Len(sent) = IF busAt.dir = "out" THEN busAt.done ELSE WordLen
    /\ busAt.dir = "out" => /\ busAt.todo = WordLen
                            /\ busAt.over => busAt.done = busAt.todo
    /\ "ACD" \in bits => busAt.dir = "none"
Got == IF phase = "command" THEN 0 ELSE received
SoFar == IF request.Read THEN ReadSoFar(Got) ELSE WrittenSoFar(Got)

\* A transfer over the FIFO, from its request to its end.
FifoData ==
    ~emmc =>
        /\ phase \in BeforeCommand => Fresh
        /\ phase # "idle" => status = "none"
        /\ ~dirty /\ phase \in InTransfer => SoFar
        /\ ~dirty /\ phase = "check" => received = Rounded
        /\ ~dirty /\ phase = "idle" =>
              /\ Clean
              /\ status = "SUCCESS" =>
                    IF request.Read THEN Filled(Rounded) ELSE SentAll /\ busAt.dir = "none"

\* The table, and where the DMA is when it is at a descriptor.
TableRight ==
    LET n == Transfer!BytCnt(request.DataLen)
        e == Transfer!Up(request.DataLen, DmaBufSize)
    IN  /\ \A i \in 1 .. e :
              /\ table[i].address = DmaBufSize * (i - 1) /\ table[i].last = (i = e)
              /\ table[i].size = IF i = e THEN n - DmaBufSize * (e - 1) ELSE DmaBufSize
              /\ table[i].next = IF i = e THEN 0 ELSE i + 1
        /\ busAt.todo = n /\ busAt.done = IF idmac = 0 THEN n ELSE DmaBufSize * (idmac - 1)
        /\ "RI" \in bits => idmac = 0

\* What the DMA has moved.
Walked == IF request.Read THEN Filled(busAt.done) ELSE Fresh /\ SentBytes(busAt.done)

\* A transfer by DMA, while it runs and when it is over.
DmaData ==
    emmc =>
        /\ phase = "dma" => TableRight /\ Walked /\ status = "none"
        /\ phase = "idle" =>
              /\ Clean
              /\ status = "SUCCESS" =>
                    IF request.Read THEN Filled(Transfer!Extent) ELSE SentBytes(Transfer!Extent)

\* The inductive invariant of transfers.
TransferInv ==
    /\ RequestTyped /\ LoopTyped /\ WireTyped /\ TableTyped
    /\ FifoData /\ DmaData /\ Transfer!ClockRight

\* A set of naturals has a least element.
LEMMA LeastNat ==
    ASSUME NEW S, S \subseteq Nat, S # {}
    PROVE  \E x \in S : \A y \in S : x <= y
<1> DEFINE R == OpToRel(<, Nat)
<1>1. IsWellFoundedOn(R, Nat)
  BY NatLessThanWellFounded
<1>2. ASSUME NEW x \in Nat, NEW y \in Nat, x < y
      PROVE  <<x, y>> \in R
  <2> DEFINE p == <<x, y>>
  <2>1. p \in Nat \X Nat /\ p[1] = x /\ p[2] = y
    OBVIOUS
  <2> HIDE DEF p
  <2>2. p[1] < p[2]
    BY <1>2, <2>1
  <2>3. p \in {q \in Nat \X Nat : q[1] < q[2]}
    BY <2>1, <2>2
  <2>4. p \in R
    BY <2>3, Zenon DEF OpToRel
  <2> QED
    BY <2>4 DEF p
<1> HIDE DEF R
<1>3. PICK x \in S : \A y \in S : ~(<<y, x>> \in R)
  BY <1>1, WFMin
<1>4. ASSUME NEW y \in S
      PROVE  x <= y
  <2>1. x \in Nat /\ y \in Nat /\ ~(<<y, x>> \in R)
    BY <1>3
  <2>2. ~(y < x)
    BY <1>2, <2>1
  <2> QED
    BY <2>1, <2>2
<1> QED
  BY <1>4

\* The longest request is as long as it is.
LEMMA LongestIs ==
    /\ Transfer!Longest \in Nat \ {0}
    /\ \A n \in AnyLength : n \in Nat \ {0} /\ n <= Transfer!Longest
<1> DEFINE L == AnyLength
<1>1. L \subseteq Nat \ {0} /\ \E n \in L : \A m \in L : m <= n
  BY TransfersAssumption DEF Transfer!TransferAssumption, AnyLength
<1>2. Transfer!Longest = CHOOSE n \in L : \A m \in L : m <= n
  BY DEF Transfer!Longest, AnyLength
<1> HIDE DEF L
<1>3. Transfer!Longest \in L /\ \A m \in L : m <= Transfer!Longest
  BY <1>1, <1>2
<1> QED BY <1>1, <1>3 DEF L

\* The constants are numbers.
LEMMA NumbersAre ==
    /\ Depth \in Nat /\ GenericTimeout \in Nat \ {0, 1} /\ CommandPolls \in Nat \ {0, 1}
    /\ CallerTimeout \in Nat \ {0} /\ BlockSize \in Nat \ {0} /\ DmaBufSize \in Nat \ {0}
    /\ BaseClkFreq \in Nat \ {0} /\ ClockFreqs \subseteq Nat \ {0}
    /\ DmaLengths \subseteq AnyLength /\ Lengths \subseteq AnyLength
  BY TransfersAssumption DEF Transfer!TransferAssumption, AnyLength

\* A length in words is the least that holds it.
LEMMA WordsAre ==
    ASSUME NEW n \in Nat
    PROVE  /\ Transfer!Up(n, 4) \in Nat
           /\ n <= 4 * Transfer!Up(n, 4) /\ 4 * Transfer!Up(n, 4) <= n + 3
  BY SMTT(30) DEF Transfer!Up

\* A length in blocks is less than a block longer.
LEMMA BlocksAre ==
    ASSUME NEW n \in Nat
    PROVE  /\ Transfer!BytCnt(n) \in Nat
           /\ n <= Transfer!BytCnt(n) /\ Transfer!BytCnt(n) <= n + BlockSize
<1> DEFINE a == n + BlockSize - 1
           e == a \div BlockSize
           r == a % BlockSize
<1>1. BlockSize \in Nat \ {0} /\ a \in Nat
  BY NumbersAre
<1>2. e \in Nat /\ r \in 0 .. BlockSize - 1 /\ a = BlockSize * e + r
  <2> HIDE DEF a
  <2> QED BY <1>1, SMTT(30)
<1>3. Transfer!BytCnt(n) = IF n < BlockSize THEN n ELSE BlockSize * e
  BY DEF Transfer!BytCnt, Transfer!Up
<1>4. a = n + BlockSize - 1
  OBVIOUS
<1> HIDE DEF a, e, r
<1>5. BlockSize * e \in Nat
  BY <1>1, <1>2
<1> QED BY <1>1, <1>2, <1>3, <1>4, <1>5

\* Transfers begin and end in the part of memory that is looked at.
LEMMA AroundIs ==
    ASSUME NEW n \in Nat, n \in AnyLength \cup {0}
    PROVE  /\ 0 .. n - 1 \subseteq Transfer!Around /\ Transfer!Around \subseteq Int
           /\ 0 .. 4 * Transfer!Up(n, 4) - 1 \subseteq Transfer!Around
           /\ 0 .. Transfer!BytCnt(n) - 1 \subseteq Transfer!Around
           /\ n <= Transfer!Longest
<1>1. n <= Transfer!Longest /\ Transfer!Longest \in Nat \ {0} /\ BlockSize \in Nat
  BY LongestIs, NumbersAre
<1>2. Transfer!Up(n, 4) \in Nat /\ 4 * Transfer!Up(n, 4) <= n + 3
  BY WordsAre
<1>3. Transfer!BytCnt(n) \in Nat /\ Transfer!BytCnt(n) <= n + BlockSize
  BY BlocksAre
<1> QED BY <1>1, <1>2, <1>3 DEF Transfer!Around

\* The bytes of a big-endian read are where they are told to be from, and at no
\* other place.
LEMMA MirrorIs ==
    ASSUME request.DataLen \in Nat, NEW o \in Int
    PROVE  /\ Transfer!Mirror(o) \in Int
           /\ Transfer!Mirror(Transfer!Mirror(o)) = o
           /\ o \in 0 .. Rounded - 1 <=> Transfer!Mirror(o) \in 0 .. Rounded - 1
           /\ ~request.UseBE => Transfer!Mirror(o) = o
<1>1. PICK r \in Nat : r = Rounded
  BY WordsAre DEF Rounded, WordLen
<1>2. \A k : Transfer!Mirror(k) = IF request.UseBE THEN r - 1 - k ELSE k
  BY <1>1 DEF Transfer!Mirror, Rounded, WordLen
<1> QED BY <1>1, <1>2

\* What a transfer moves in all.
LEMMA ExtentIs ==
    ASSUME request.DataLen \in Nat, emmc \in BOOLEAN
    PROVE  /\ ~emmc => Transfer!Extent = Rounded /\ Transfer!Unit = 4
           /\ emmc => Transfer!Extent = Transfer!BytCnt(request.DataLen) /\ Transfer!Unit = 1
           /\ Transfer!Extent \in Nat /\ request.DataLen <= Transfer!Extent
<1>1. PICK r \in Nat : r = Rounded /\ request.DataLen <= r
  BY WordsAre DEF Rounded, WordLen
<1>2. PICK b \in Nat : b = Transfer!BytCnt(request.DataLen) /\ request.DataLen <= b
  BY BlocksAre
<1>3. CASE emmc
  BY <1>2, <1>3 DEF Transfer!Extent, Transfer!Unit
<1>4. CASE ~emmc
  BY <1>1, <1>4 DEF Transfer!Extent, Transfer!Unit, Rounded, WordLen
<1> QED BY <1>3, <1>4

\* A setting of the divisor is too fast when the base clock is above what it divides.
TooFast(freq, div) == BaseClkFreq > 2 * div * freq

\* Two products of the same number are in the order of the other ones.
LEMMA TimesMore ==
    ASSUME NEW d \in Nat, NEW a \in Nat, NEW b \in Nat, a <= b
    PROVE  d * a <= d * b
<1>1. PICK k \in Nat : b = a + k
  <2> WITNESS b - a \in Nat
  <2> QED OBVIOUS
<1>2. d * (a + k) = d * a + d * k /\ d * k \in Nat /\ d * a \in Nat
  OBVIOUS
<1> QED BY <1>1, <1>2

\* What the code asks of a division: whether the quotient is above a frequency.
LEMMA QuotientAbove ==
    ASSUME NEW n \in Nat \ {0}, NEW d \in Nat \ {0}, NEW freq \in Nat \ {0}
    PROVE  (freq < n \div d \/ (freq = n \div d /\ n % d # 0)) <=> n > d * freq
<1> DEFINE q == n \div d
           r == n % d
<1>1. q \in Nat /\ r \in 0 .. d - 1 /\ n = d * q + r
  BY SMTT(30)
<1> HIDE DEF q, r
<1>2. CASE freq < q
  <2>1. d * (freq + 1) <= d * q
    BY <1>1, <1>2, TimesMore
  <2>2. d * (freq + 1) = d * freq + d /\ d * freq \in Nat /\ d * q \in Nat
    BY <1>1
  <2> QED BY <1>1, <1>2, <2>1, <2>2 DEF q, r
<1>3. CASE freq = q
  <2>1. d * q \in Nat
    BY <1>1
  <2> QED BY <1>1, <1>3, <2>1 DEF q, r
<1>4. CASE q < freq
  <2>1. d * (q + 1) <= d * freq
    BY <1>1, <1>4, TimesMore
  <2>2. d * (q + 1) = d * q + d /\ d * freq \in Nat /\ d * q \in Nat
    BY <1>1
  <2> QED BY <1>1, <1>4, <2>1, <2>2 DEF q, r
<1> QED BY <1>1, <1>2, <1>3, <1>4

\* The first setting from start on that is not too fast.
FirstSlow(freq, start, m) ==
    m \in start .. BaseClkFreq + 1 /\ ~TooFast(freq, m)
    /\ \A j \in start .. m - 1 : TooFast(freq, j)

\* There is one, and no other.
LEMMA FirstSlowIs ==
    ASSUME NEW freq \in Nat \ {0}, NEW start \in 1 .. BaseClkFreq + 1
    PROVE  /\ \E m \in 1 .. BaseClkFreq + 1 : FirstSlow(freq, start, m)
           /\ \A m, k : FirstSlow(freq, start, m) /\ FirstSlow(freq, start, k) => m = k
<1> DEFINE Top == BaseClkFreq + 1
           S == {m \in start .. Top : ~TooFast(freq, m)}
<1>1. Top \in S
  <2>1. BaseClkFreq \in Nat \ {0}
    BY NumbersAre
  <2>2. (2 * Top) * freq >= (2 * Top) * 1
    BY <2>1, TimesMore
  <2> QED BY <2>1, <2>2 DEF TooFast
<1>2. S \subseteq Nat
  BY NumbersAre
<1>3. PICK m \in S : \A y \in S : m <= y
  <2> HIDE DEF S
  <2> QED BY <1>1, <1>2, LeastNat
<1>4. FirstSlow(freq, start, m)
  BY <1>3, NumbersAre DEF FirstSlow
<1>5. ASSUME NEW a, NEW b, FirstSlow(freq, start, a), FirstSlow(freq, start, b)
      PROVE  a = b
  <2>1. a \in Nat /\ b \in Nat /\ a >= start /\ b >= start
    BY <1>5, NumbersAre DEF FirstSlow
  <2>2. ~(a < b) /\ ~(b < a)
    BY <1>5, <2>1, NumbersAre DEF FirstSlow
  <2> QED BY <2>1, <2>2
<1> QED BY <1>3, <1>4, <1>5, NumbersAre

\* The loop of DwMmcHcClockSupply finds the first setting that is not too fast.
LEMMA DivisorIs ==
    ASSUME NEW freq \in Nat \ {0}, freq < BaseClkFreq
    PROVE  FirstSlow(freq, 1, Transfer!Divisor(freq))
<1> DEFINE D == 1 .. BaseClkFreq + 1
           setting(div) == BaseClkFreq \div (2 * div)
           above(div) == \/ freq < setting(div)
                         \/ freq = setting(div) /\ BaseClkFreq % (2 * div) # 0
           Solves(g) == g = [div \in D |-> IF above(div) THEN g[div + 1] ELSE div]
           f == CHOOSE g : Solves(g)
<1>1. BaseClkFreq \in Nat \ {0} /\ D \subseteq Nat \ {0}
  BY NumbersAre
<1>2. Transfer!Divisor(freq) = f[1]
  BY Zenon DEF Transfer!Divisor
<1>3. \A div \in D : above(div) <=> TooFast(freq, div)
  <2> SUFFICES ASSUME NEW div \in D
               PROVE  above(div) <=> TooFast(freq, div)
    OBVIOUS
  <2>1. 2 * div \in Nat \ {0}
    BY <1>1
  <2>2. above(div) <=> BaseClkFreq > (2 * div) * freq
    BY <1>1, <2>1, QuotientAbove
  <2> QED BY <2>2 DEF TooFast
<1> HIDE DEF f
<1>4. \E g : Solves(g)
  <2> DEFINE h == [d \in D |-> CHOOSE m \in D : FirstSlow(freq, d, m)]
  <2>1. \A d \in D : h[d] \in D /\ FirstSlow(freq, d, h[d])
    BY FirstSlowIs
  <2>2. ASSUME NEW d \in D
        PROVE  h[d] = IF above(d) THEN h[d + 1] ELSE d
    <3>1. CASE TooFast(freq, d)
      <4>1. h[d] # d
        BY <2>1, <3>1 DEF FirstSlow
      <4> HIDE DEF h
      <4>2. d + 1 \in D /\ FirstSlow(freq, d, h[d])
        BY SMTT(40), <1>1, <2>1, <4>1 DEF FirstSlow
      <4>3. FirstSlow(freq, d + 1, h[d])
        BY <1>1, <4>1, <4>2 DEF FirstSlow
      <4>4. h[d] = h[d + 1]
        BY <2>1, <4>2, <4>3, FirstSlowIs
      <4> QED BY <1>3, <3>1, <4>4
    <3>2. CASE ~TooFast(freq, d)
      <4>1. FirstSlow(freq, d, d)
        BY <1>1, <3>2 DEF FirstSlow
      <4> HIDE DEF h
      <4>2. h[d] = d
        BY <2>1, <4>1, FirstSlowIs
      <4> QED BY <1>3, <3>2, <4>2
    <3> QED BY <3>1, <3>2
  <2>3. h = [d \in D |-> h[d]]
    OBVIOUS
  <2> HIDE DEF above, h
  <2>4. [d \in D |-> h[d]] = [d \in D |-> IF above(d) THEN h[d + 1] ELSE d]
    BY <2>2
  <2>5. Solves(h)
    BY <2>3, <2>4, Zenon
  <2> QED BY <2>5
<1>5. Solves(f)
  BY <1>4 DEF f
<1>6. \A d \in D : f[d] = IF TooFast(freq, d) THEN f[d + 1] ELSE d
  <2> HIDE DEF above
  <2> QED BY <1>3, <1>5
<1> HIDE DEF setting, above, Solves
<1>7. PICK m \in D : FirstSlow(freq, 1, m)
  BY <1>1, FirstSlowIs
<1> DEFINE S == {k \in 1 .. m : f[k] = m}
<1>8. m \in S
  BY <1>1, <1>6, <1>7 DEF FirstSlow
<1>9. PICK k \in S : \A y \in S : k <= y
  <2>1. S \subseteq Nat
    OBVIOUS
  <2> HIDE DEF S
  <2> QED BY <1>8, <2>1, LeastNat
<1>10. k = 1
  <2> SUFFICES ASSUME k # 1 PROVE FALSE
    OBVIOUS
  <2>1. k \in 2 .. m /\ f[k] = m /\ k - 1 \in D /\ k - 1 \in 1 .. m /\ k - 1 \in 1 .. m - 1
    BY <1>1, <1>9
  <2>2. TooFast(freq, k - 1)
    BY <1>7, <2>1 DEF FirstSlow
  <2>3. f[k - 1] = f[(k - 1) + 1]
    BY <1>6, <2>1, <2>2
  <2>4. k - 1 \in S
    BY <2>1, <2>3
  <2> QED BY <1>9, <2>1, <2>4
<1> QED BY <1>2, <1>7, <1>9, <1>10

\* The divisor that is set is the one of the fastest clock that may be.
LEMMA ClockIsRight ==
    ASSUME NEW freq \in Nat \ {0},
           clock' = [asked |-> freq,
                     div |-> Transfer!Divisor(Transfer!Least(freq, BaseClkFreq))]
    PROVE  Transfer!ClockRight'
<1> DEFINE d == Transfer!Divisor(Transfer!Least(freq, BaseClkFreq))
<1>1. clock'.asked = freq /\ clock'.div = d /\ BaseClkFreq \in Nat \ {0}
  BY NumbersAre
<1>2. CASE BaseClkFreq <= freq
  <2>1. Transfer!Least(freq, BaseClkFreq) = BaseClkFreq
    BY <1>1, <1>2 DEF Transfer!Least
  <2>2. d = 0
    BY <1>1, <2>1 DEF Transfer!Divisor
  <2> QED BY <1>1, <1>2, <2>2 DEF Transfer!ClockRight, Transfer!Slow
<1>3. CASE freq < BaseClkFreq
  <2>1. Transfer!Least(freq, BaseClkFreq) = freq
    BY <1>1, <1>3 DEF Transfer!Least
  <2>2. FirstSlow(freq, 1, d)
    BY <1>1, <1>3, <2>1, DivisorIs
  <2> HIDE DEF d
  <2>3. d \in Nat \ {0} /\ ~TooFast(freq, d) /\ \A j \in 1 .. d - 1 : TooFast(freq, j)
    BY <2>2, NumbersAre DEF FirstSlow
  <2>4. BaseClkFreq <= (2 * d) * freq
    <3>1. (2 * d) * freq \in Nat
      BY <1>1, <2>3
    <3> QED BY <1>1, <2>3, <3>1 DEF TooFast
  <2>5. ASSUME NEW j \in 0 .. d - 1
        PROVE  ~(BaseClkFreq <= (IF j = 0 THEN 1 ELSE 2 * j) * freq)
    <3>1. CASE j = 0
      BY <1>1, <1>3, <3>1
    <3>2. CASE j # 0
      <4>1. (2 * j) * freq \in Nat /\ TooFast(freq, j)
        BY <1>1, <2>3, <3>2
      <4> QED BY <1>1, <3>2, <4>1 DEF TooFast
    <3> QED BY <3>1, <3>2
  <2> QED BY <1>1, <2>3, <2>4, <2>5 DEF Transfer!ClockRight, Transfer!Slow
<1> QED BY <1>1, <1>2, <1>3

\* A count is rounded up to what holds it and no more.
LEMMA UpIs ==
    ASSUME NEW n \in Nat \ {0}
    PROVE  /\ Transfer!Up(n, DmaBufSize) \in Nat \ {0}
           /\ DmaBufSize * (Transfer!Up(n, DmaBufSize) - 1) < n
<1> DEFINE a == n + DmaBufSize - 1
           e == a \div DmaBufSize
           r == a % DmaBufSize
<1>1. DmaBufSize \in Nat \ {0} /\ a \in Nat /\ a >= DmaBufSize
  BY NumbersAre
<1>2. e \in Nat /\ r \in 0 .. DmaBufSize - 1 /\ a = DmaBufSize * e + r
  <2> HIDE DEF a
  <2> QED BY <1>1, SMTT(30)
<1>3. Transfer!Up(n, DmaBufSize) = e
  BY DEF Transfer!Up
<1>4. a = n + DmaBufSize - 1
  OBVIOUS
<1> HIDE DEF a, e, r
<1>5. e # 0
  <2>1. DmaBufSize * 0 = 0
    BY <1>1
  <2> QED BY <1>1, <1>2, <2>1
<1>6. DmaBufSize * (e - 1) = DmaBufSize * e - DmaBufSize /\ DmaBufSize * e \in Nat
  BY <1>1, <1>2
<1> QED BY <1>1, <1>2, <1>3, <1>4, <1>5, <1>6

\* While the request is the same its lengths are, and so is where its bytes go.
LEMMA SameLength ==
    ASSUME UNCHANGED <<emmc, request>>
    PROVE  /\ WordLen' = WordLen /\ Rounded' = Rounded
           /\ Transfer!Extent' = Transfer!Extent
           /\ \A o : Transfer!Mirror(o)' = Transfer!Mirror(o)
           /\ Transfer!Around' = Transfer!Around /\ Transfer!Longest' = Transfer!Longest
<1>1. Transfer!Up(request.DataLen, 4)' = Transfer!Up(request.DataLen, 4)
  OBVIOUS
<1>2. Transfer!BytCnt(request.DataLen)' = Transfer!BytCnt(request.DataLen)
  OBVIOUS
<1>3. WordLen' = WordLen /\ Rounded' = Rounded /\ Transfer!Extent' = Transfer!Extent
  BY <1>1, <1>2 DEF WordLen, Rounded, Transfer!Extent
<1>4. \A o : Transfer!Mirror(o)' = Transfer!Mirror(o)
  BY <1>1 DEF Transfer!Mirror
<1>5. Transfer!Around' = Transfer!Around /\ Transfer!Longest' = Transfer!Longest
  BY DEF Transfer!Around, Transfer!Longest
<1> QED BY <1>3, <1>4, <1>5

\* A place the transfer does not go to is that of no byte of it.
LEMMA OutsideIs ==
    ASSUME RequestTyped, NEW o \in Transfer!Around \ (0 .. Transfer!Extent - 1)
    PROVE  /\ o \notin 0 .. request.DataLen - 1 /\ Transfer!Extent \in Nat
           /\ Transfer!Mirror(o) \in Int /\ Transfer!Mirror(o) \notin 0 .. Transfer!Extent - 1
<1>1. request.DataLen \in Nat /\ (emmc => ~request.UseBE) /\ emmc \in BOOLEAN
      /\ request.DataLen \in AnyLength \cup {0}
  BY DEF RequestTyped
<1>2. o \in Int
  BY <1>1, AroundIs
<1>3. /\ Transfer!Extent \in Nat /\ request.DataLen <= Transfer!Extent
      /\ ~emmc => Transfer!Extent = Rounded
  BY <1>1, ExtentIs
<1>4. Transfer!Mirror(o) \in Int /\ Transfer!Mirror(o) \notin 0 .. Transfer!Extent - 1
  <2>1. CASE emmc
    BY <1>1, <1>2, <2>1, MirrorIs
  <2>2. CASE ~emmc
    BY <1>1, <1>2, <1>3, <2>2, MirrorIs
  <2> QED BY <2>1, <2>2
<1> QED BY <1>1, <1>2, <1>3, <1>4

\* Whatever was moved so far, nothing was written further than the transfer goes.
LEMMA CleanSoFar ==
    ASSUME RequestTyped
    PROVE  /\ \A got \in Int : Filled(got) /\ got <= Transfer!Extent => Clean
           /\ Fresh => Clean
  BY OutsideIs DEF Fresh, Filled, Clean

\* The same of a step.
LEMMA CleanNext ==
    ASSUME RequestTyped, UNCHANGED <<emmc, request>>, NEW got \in Int, got <= Transfer!Extent,
           Filled(got)' \/ Fresh'
    PROVE  Clean'
<1> SUFFICES ASSUME NEW o \in Transfer!Around \ (0 .. Transfer!Extent - 1)
             PROVE  bytes'[o] = 0
  BY SameLength DEF Clean
<1>1. o \in Transfer!Around /\ o \notin 0 .. request.DataLen - 1
      /\ Transfer!Mirror(o) \notin 0 .. got - 1
  BY OutsideIs
<1>2. CASE Filled(got)'
  BY <1>1, <1>2, SameLength DEF Filled
<1>3. CASE Fresh'
  BY <1>1, <1>3, SameLength DEF Fresh
<1> QED BY <1>2, <1>3

\* What was moved in the middle of a transfer is no more than there is of it.
LEMMA SoFarClean ==
    ASSUME TransferInv, ~emmc, SoFar
    PROVE  Clean
<1>1. RequestTyped /\ request.DataLen \in Nat /\ Transfer!Longest \in Nat /\ emmc \in BOOLEAN
  BY LongestIs DEF TransferInv, RequestTyped
<1>2. WordLen \in Nat /\ Rounded = 4 * WordLen /\ Transfer!Extent = Rounded
  BY <1>1, WordsAre, ExtentIs DEF WordLen, Rounded
<1>3. CASE request.Read
  <2>1. Got \in Int /\ Len(fifo) \in Nat
    BY <1>1 DEF TransferInv, LoopTyped, WireTyped, Got
  <2>2. Filled(Got) /\ Got <= Transfer!Extent
    <3>1. busAt.done \in Int
      BY DEF TransferInv, WireTyped, BusStates
    <3>2. /\ Filled(Got) /\ (busAt.dir = "in" => busAt.done <= WordLen)
          /\ Got + 4 * Len(fifo) = IF busAt.dir = "in" THEN 4 * busAt.done ELSE Rounded
      BY <1>3 DEF SoFar, ReadSoFar
    <3> QED BY <1>2, <2>1, <3>1, <3>2
  <2> QED BY <1>1, <2>1, <2>2, CleanSoFar
<1>4. CASE ~request.Read
  BY <1>1, <1>4, CleanSoFar DEF SoFar, WrittenSoFar
<1> QED BY <1>3, <1>4

\* A buffer that nothing was read into.
LEMMA NothingRead ==
    ASSUME Fresh, request.Read
    PROVE  Filled(0)
  BY DEF Fresh, Filled

\* What is known of the buffer stays so while it does.
LEMMA WordsKept ==
    ASSUME UNCHANGED <<emmc, request, bytes>>
    PROVE  /\ Fresh => Fresh'
           /\ Clean => Clean'
           /\ \A got : Filled(got) => Filled(got)'
           /\ Filled(Rounded) => Filled(Rounded)'
           /\ Filled(Transfer!Extent) => Filled(Transfer!Extent)'
<1>2. Fresh => Fresh'
  BY SameLength DEF Fresh
<1>3. Clean => Clean'
  BY SameLength DEF Clean
<1>4. \A got : Filled(got) => Filled(got)'
  BY SameLength DEF Filled
<1>5. Filled(Rounded) => Filled(Rounded)'
  BY SameLength DEF Filled
<1>6. Filled(Transfer!Extent) => Filled(Transfer!Extent)'
  BY SameLength DEF Filled
<1> QED BY <1>2, <1>3, <1>4, <1>5, <1>6

\* So does what is known of what was sent.
LEMMA SentKept ==
    ASSUME UNCHANGED <<emmc, request, sent>>
    PROVE  /\ SentAll => SentAll'
           /\ \A n : SentBytes(n) => SentBytes(n)'
           /\ SentBytes(Transfer!Extent) => SentBytes(Transfer!Extent)'
<1>1. SentAll => SentAll'
  BY SameLength DEF SentAll, Follow
<1>2. \A n : SentBytes(n) => SentBytes(n)'
  BY DEF SentBytes
<1>3. SentBytes(Transfer!Extent) => SentBytes(Transfer!Extent)'
  BY SameLength DEF SentBytes
<1> QED BY <1>1, <1>2, <1>3

\* And so does where its bytes are, while the driver is at the same one.
LEMMA SoFarKept ==
    ASSUME UNCHANGED <<emmc, request, bytes, sent, fifo, busAt>>,
           "ACD" \in bits' => "ACD" \in bits, Got' = Got, SoFar
    PROVE  SoFar'
<1>1. CASE request.Read
  <2>1. ReadSoFar(Got)
    BY <1>1 DEF SoFar
  <2>2. ReadSoFar(Got)'
    BY <2>1, WordsKept, SameLength DEF ReadSoFar, Follow
  <2> QED BY <1>1, <2>2 DEF SoFar
<1>2. CASE ~request.Read
  <2>1. WrittenSoFar(Got)
    BY <1>2 DEF SoFar
  <2>2. WrittenSoFar(Got)'
    BY <2>1, WordsKept, SameLength DEF WrittenSoFar, Follow
  <2> QED BY <1>2, <2>2 DEF SoFar
<1> QED BY <1>1, <1>2

\* A step of a transfer over the FIFO leaves the table and the clock alone.
LEMMA FifoSide ==
    ASSUME TransferInv, ~emmc, UNCHANGED <<emmc, clock>>,
           RequestTyped', LoopTyped', WireTyped', FifoData'
    PROVE  TransferInv'
<1>1. TableTyped'
  BY DEF RequestTyped, TableTyped, FifoPhases, BeforeCommand
<1>2. DmaData'
  BY DEF DmaData
<1>3. Transfer!ClockRight'
  BY DEF TransferInv, Transfer!ClockRight, Transfer!Slow
<1> QED BY <1>1, <1>2, <1>3 DEF TransferInv

\* A step of the DMA leaves the FIFO's transfers and the clock alone.
LEMMA DmaSide ==
    ASSUME TransferInv, emmc, UNCHANGED <<emmc, clock>>,
           RequestTyped', LoopTyped', WireTyped', TableTyped', DmaData'
    PROVE  TransferInv'
<1>1. FifoData'
  BY DEF FifoData
<1>2. Transfer!ClockRight'
  BY DEF TransferInv, Transfer!ClockRight, Transfer!Slow
<1> QED BY <1>1, <1>2 DEF TransferInv

\* No data phase is one of them.
LEMMA NoBusIs ==
    /\ Transfer!NoBus \in BusStates
    /\ Transfer!NoBus.dir = "none" /\ Transfer!NoBus.cmd = FALSE /\ Transfer!NoBus.over = FALSE
    /\ Transfer!NoBus.done = 0 /\ Transfer!NoBus.todo = 0
  BY DEF Transfer!NoBus, BusStates

\* Nothing was asked for yet.
LEMMA TransferInvInit ==
    ASSUME Transfer!Init
    PROVE  TransferInv
<1>1. RequestTyped
  BY DEF Transfer!Init, RequestTyped
<1>6. LoopTyped
  <2>1. /\ phase = "idle" /\ intsts = {} /\ bits = {} /\ full \in BOOLEAN /\ received = 0
        /\ timeout = 0
    BY DEF Transfer!Init
  <2> QED BY <2>1, NumbersAre, LongestIs DEF LoopTyped, Polls
<1>7. TableTyped
  BY DEF Transfer!Init, TableTyped
<1>2. WireTyped
  <2>1. bytes \in [Transfer!Around -> Int]
    BY DEF Transfer!Init
  <2>2. phase = "idle" /\ dirty = FALSE /\ bad = FALSE /\ busAt = Transfer!NoBus
    BY DEF Transfer!Init
  <2>3. fifo = <<>> /\ sent = <<>>
    BY DEF Transfer!Init
  <2>4. fifo \in Seq(Int) /\ sent \in Seq(Int) /\ Len(fifo) <= Depth
    BY <2>3, EmptySeq, NumbersAre
  <2> QED BY <2>1, <2>2, <2>4, NoBusIs DEF WireTyped, InTransfer, Polls
<1>3. Clean
  BY DEF Transfer!Init, Clean
<1>4. FifoData /\ DmaData
  BY <1>3 DEF Transfer!Init, FifoData, DmaData, InTransfer, Polls, BeforeCommand
<1>5. Transfer!ClockRight
  <2>1. clock.asked = BaseClkFreq /\ clock.div = 0 /\ 1 * BaseClkFreq = BaseClkFreq
    BY NumbersAre DEF Transfer!Init
  <2> QED BY <2>1, NumbersAre DEF Transfer!ClockRight, Transfer!Slow
<1> QED BY <1>1, <1>2, <1>4, <1>5, <1>6, <1>7 DEF TransferInv

\* All but the clock and the number of requests.
Standing == <<emmc, phase, request, bytes, received, timeout, intsts, full, status, bits, fifo,
              busAt, sent, table, idmac, dirty, bad>>

\* Who changes none of it keeps what is known of transfers.
LEMMA StandingKeeps ==
    ASSUME TransferInv, UNCHANGED Standing
    PROVE  /\ RequestTyped' /\ LoopTyped' /\ WireTyped' /\ TableTyped'
           /\ FifoData' /\ DmaData'
<1>1. RequestTyped' /\ LoopTyped'
  BY DEF Standing, TransferInv, RequestTyped, LoopTyped
<1>2. WireTyped'
  BY DEF Standing, TransferInv, WireTyped, Dir, Transfer!Around
<1>3. TableTyped'
  BY DEF Standing, TransferInv, TableTyped, Transfer!Up
<1>4. Got' = Got
  BY DEF Standing, Got
<1>5. FifoData'
  BY <1>4, WordsKept, SentKept, SoFarKept, SameLength DEF Standing, TransferInv, FifoData
<1>6. TableRight /\ Walked => TableRight' /\ Walked'
  <2>1. Transfer!Up(request.DataLen, DmaBufSize)' = Transfer!Up(request.DataLen, DmaBufSize)
    BY DEF Standing
  <2>2. Transfer!BytCnt(request.DataLen)' = Transfer!BytCnt(request.DataLen)
    BY DEF Standing
  <2>3. TableRight => TableRight'
    BY <2>1, <2>2 DEF Standing, TableRight
  <2>4. Filled(busAt.done) => Filled(busAt.done)'
    BY WordsKept DEF Standing
  <2>5. SentBytes(busAt.done) => SentBytes(busAt.done)'
    BY SentKept DEF Standing
  <2>6. Walked => Walked'
    BY <2>4, <2>5, WordsKept DEF Standing, Walked
  <2> QED BY <2>3, <2>6
<1>8. DmaData'
  BY <1>6, WordsKept, SentKept DEF Standing, TransferInv, DmaData
<1> QED BY <1>1, <1>2, <1>3, <1>5, <1>8

\* A clock is set.
LEMMA ClockSupplyKeeps ==
    ASSUME TransferInv, Transfer!DwMmcHcClockSupply
    PROVE  TransferInv'
<1>1. UNCHANGED Standing
  BY DEF Transfer!DwMmcHcClockSupply, Standing, Transfer!local, Transfer!wire, Transfer!dma
<1>2. PICK freq \in ClockFreqs :
        clock' = [asked |-> freq,
                  div |-> Transfer!Divisor(Transfer!Least(freq, BaseClkFreq))]
  BY DEF Transfer!DwMmcHcClockSupply
<1>3. Transfer!ClockRight'
  BY <1>2, NumbersAre, ClockIsRight
<1> QED BY <1>1, <1>3, StandingKeeps DEF TransferInv

\* Nothing happens, or the card leaves its data line free.
LEMMA StutterKeeps ==
    ASSUME TransferInv, UNCHANGED moved \/ Transfer!CardReady
    PROVE  TransferInv'
<1>1. UNCHANGED Standing /\ UNCHANGED clock
  BY DEF Standing, moved, Transfer!CardReady, Transfer!driver, Transfer!local, Transfer!dma,
     Transfer!wire
<1>2. Transfer!ClockRight'
  BY <1>1 DEF TransferInv, Transfer!ClockRight, Transfer!Slow
<1> QED BY <1>1, <1>2, StandingKeeps DEF TransferInv

\* DwSdExecTrb begins.
LEMMA RequestKeeps ==
    ASSUME TransferInv, NEW read \in BOOLEAN, NEW be \in BOOLEAN, NEW n \in Lengths,
           Transfer!Request(read, n, be)
    PROVE  TransferInv'
<1> USE DEF Transfer!Request, Transfer!local, Transfer!wire, Transfer!dma
<1>1. /\ ~emmc /\ UNCHANGED <<emmc, clock>> /\ phase' = "wait" /\ status' = "none"
      /\ request' = [Read |-> read, DataLen |-> n, UseBE |-> be]
  OBVIOUS
<1>2. n \in AnyLength /\ n \in Nat
  BY NumbersAre, LongestIs
<1>3. RequestTyped'
  <2>1. request'.Read = read /\ request'.DataLen = n /\ request'.UseBE = be /\ (be => read)
    BY <1>1
  <2>2. emmc' = FALSE
    BY <1>1 DEF TransferInv, RequestTyped
  <2>3. AnyLength' = AnyLength
    BY DEF AnyLength
  <2> QED BY <1>1, <1>2, <2>1, <2>2, <2>3 DEF RequestTyped, FifoPhases, BeforeCommand
<1>4. LoopTyped'
  BY <1>1 DEF TransferInv, LoopTyped, Polls
<1>5. bytes' = [o \in Transfer!Around |-> IF ~read /\ o \in 0 .. n - 1 THEN o + 1 ELSE 0]
  OBVIOUS
<1>6. WireTyped'
  <2>1. bytes' \in [Transfer!Around' -> Int]
    BY <1>2, <1>5 DEF Transfer!Around
  <2> QED BY <1>1, <2>1 DEF TransferInv, WireTyped, InTransfer, Polls
<1>7. Fresh'
  BY <1>1, <1>5 DEF Fresh, Transfer!Around
<1>8. FifoData'
  BY <1>1, <1>7 DEF FifoData, InTransfer, Polls, BeforeCommand
<1> QED BY <1>1, <1>3, <1>4, <1>6, <1>8, FifoSide

\* The card's line is free, RINTSTS is cleared, and the FIFO is reset or is not.
LEMMA BeforeCommandKeeps ==
    ASSUME TransferInv,
           Transfer!WaitIdle \/ Transfer!ClearInterrupts \/ Transfer!FifoReset
    PROVE  TransferInv'
<1>1. /\ UNCHANGED <<emmc, clock, request, bytes, received, timeout, intsts, full, status,
                     busAt, sent, bad, dirty>>
      /\ phase \in {"wait", "clear", "reset"} /\ phase' \in BeforeCommand
      /\ bits' \in {{}, bits} /\ fifo' \in {<<>>, fifo}
  BY DEF Transfer!WaitIdle, Transfer!ClearInterrupts, Transfer!FifoReset, Transfer!local,
     Transfer!dma, Transfer!wire, BeforeCommand
<1>2. ~emmc
  BY <1>1 DEF TransferInv, RequestTyped
<1>3. RequestTyped'
  BY <1>1, <1>2 DEF TransferInv, RequestTyped, FifoPhases, BeforeCommand
<1>4. LoopTyped'
  <2>1. bits' \subseteq Flags' /\ intsts' \subseteq Flags'
    BY <1>1 DEF TransferInv, LoopTyped, Flags, Transfer!Errors
  <2> QED BY <1>1, <2>1, SameLength DEF TransferInv, LoopTyped, Polls, BeforeCommand
<1>5. WireTyped'
  <2>1. fifo' \in Seq(Int) /\ Len(fifo') <= Depth
    <3>1. fifo \in Seq(Int) /\ Len(fifo) <= Depth
      BY DEF TransferInv, WireTyped
    <3>2. CASE fifo' = <<>>
      BY <3>2, EmptySeq, NumbersAre
    <3>3. CASE fifo' = fifo
      BY <3>1, <3>3
    <3> QED BY <1>1, <3>2, <3>3
  <2> QED BY <1>1, <2>1
      DEF TransferInv, WireTyped, InTransfer, Polls, Transfer!Around, BeforeCommand
<1>6. FifoData'
  BY <1>1, <1>2, WordsKept DEF TransferInv, FifoData, InTransfer, Polls, BeforeCommand
<1> QED BY <1>1, <1>2, <1>3, <1>4, <1>5, <1>6, FifoSide

\* The command is given.
LEMMA IssueKeeps ==
    ASSUME TransferInv, Transfer!Issue
    PROVE  TransferInv'
<1>0. /\ phase = "issue" /\ phase' = "command" /\ timeout' = CommandPolls
      /\ UNCHANGED <<emmc, clock, request, bytes, received, intsts, full, status, bits, fifo>>
      /\ sent' = <<>> /\ bad' \in BOOLEAN /\ dirty' \in BOOLEAN
      /\ ~dirty' => fifo = <<>> /\ bits = {}
  BY DEF Transfer!Issue, Transfer!dma
<1>1. /\ ~emmc /\ UNCHANGED <<emmc, clock, request, bytes>>
      /\ phase = "issue" /\ phase' = "command" /\ request.DataLen \in AnyLength
      /\ request.DataLen \in Nat /\ request.Read \in BOOLEAN
  BY <1>0 DEF TransferInv, RequestTyped
<1>2. RequestTyped'
  BY <1>0, <1>1 DEF TransferInv, RequestTyped, FifoPhases
<1>3. LoopTyped'
  BY <1>0, <1>1, NumbersAre DEF TransferInv, LoopTyped, Polls
<1>4. busAt' = [dir |-> Dir, cmd |-> TRUE, done |-> 0, todo |-> WordLen, over |-> FALSE]
      /\ WordLen \in Nat
  BY <1>1, WordsAre DEF Transfer!Issue, Transfer!NoBus, Dir, WordLen
<1>5. WireTyped'
  <2>1. sent' \in Seq(Int)
    BY <1>0, EmptySeq
  <2>2. Dir' = Dir /\ Dir \in {"in", "out"} /\ WordLen \in Int
    BY <1>1, <1>4 DEF Dir
  <2>3. busAt' \in BusStates /\ busAt'.dir = Dir'
    BY <1>4, <2>2 DEF BusStates
  <2> QED BY <1>0, <1>1, <2>1, <2>2, <2>3
      DEF TransferInv, WireTyped, InTransfer, Polls, Transfer!Around
<1>6. ASSUME ~dirty'
      PROVE  SoFar'
  <2>1. /\ fifo' = <<>> /\ sent' = <<>> /\ bits' = {} /\ Fresh' /\ Got' = 0
    BY <1>0, <1>1, <1>6, WordsKept DEF TransferInv, FifoData, Got, BeforeCommand
  <2>4. Len(fifo') = 0 /\ Len(sent') = 0 /\ Follow(fifo', 0) /\ Follow(sent', 0)
        /\ WordLen' = WordLen /\ Rounded' = Rounded /\ Rounded = 4 * WordLen
    BY <1>1, <2>1, SameLength DEF Follow, Rounded
  <2>2. CASE request.Read
    <3>1. Filled(0)'
      <4>1. Filled(0)
        BY <1>1, <2>2, NothingRead DEF TransferInv, FifoData, BeforeCommand
      <4> QED BY <1>1, <4>1, WordsKept
    <3>2. ReadSoFar(0)'
      BY <1>1, <1>4, <2>1, <2>2, <3>1, <2>4 DEF ReadSoFar, Dir
    <3> QED BY <1>1, <2>1, <2>2, <3>2 DEF SoFar
  <2>3. CASE ~request.Read
    <3>1. WrittenSoFar(0)'
      BY <1>1, <1>4, <2>1, <2>3, <2>4 DEF WrittenSoFar, Dir
    <3> QED BY <1>1, <2>1, <2>3, <3>1 DEF SoFar
  <2> QED BY <2>2, <2>3
<1>7. FifoData'
  BY <1>0, <1>1, <1>6 DEF TransferInv, FifoData, BeforeCommand
<1> QED BY <1>1, <1>2, <1>3, <1>5, <1>7, FifoSide

\* What Verify comes to.
LEMMA VerifyIs ==
    ASSUME request.DataLen \in Nat, NEW got \in Nat, NEW left \in 1 .. GenericTimeout,
           Transfer!Verify(got, left)
    PROVE  /\ received' = got /\ phase' \in {"idle", "poll", "check"}
           /\ timeout' \in 0 .. GenericTimeout + CommandPolls + CallerTimeout
           /\ phase' = "idle" => status' \in {"DEVICE_ERROR", "TIMEOUT"}
           /\ phase' # "idle" => status' = status
           /\ phase' = "poll" => got < request.DataLen /\ timeout' \in 1 .. GenericTimeout
           /\ phase' = "check" => got >= request.DataLen /\ timeout' \in 1 .. CallerTimeout
<1>1. CASE intsts \cap Transfer!Errors # {}
  BY <1>1, NumbersAre DEF Transfer!Verify, Transfer!Ends
<1>2. CASE intsts \cap Transfer!Errors = {} /\ left = 1
  BY <1>2, NumbersAre DEF Transfer!Verify, Transfer!Ends
<1>3. CASE intsts \cap Transfer!Errors = {} /\ left # 1
  <2>1. phase' = (IF got < request.DataLen THEN "poll" ELSE "check") /\ status' = status
    BY <1>3 DEF Transfer!Verify
  <2>2. received' = got
        /\ timeout' = IF got < request.DataLen THEN left - 1 ELSE CallerTimeout
    BY DEF Transfer!Verify
  <2> QED BY <1>3, <2>1, <2>2, NumbersAre
<1> QED BY <1>1, <1>2, <1>3

\* The end of a turn of TransferFifo's loop, got bytes having been moved.
LEMMA VerifyKeeps ==
    ASSUME TransferInv, phase \in {"move", "push"},
           NEW got \in 0 .. 2 * Transfer!Longest + 2, NEW left \in 1 .. GenericTimeout,
           Transfer!Verify(got, left),
           UNCHANGED <<emmc, clock, request, intsts, bits, dirty>>, full' \in BOOLEAN,
           phase' \in {"idle", "poll", "check"} => WireTyped',
           ~dirty => /\ got <= Rounded /\ (got >= request.DataLen => got = Rounded)
                     /\ IF request.Read THEN ReadSoFar(got)' ELSE WrittenSoFar(got)'
    PROVE  TransferInv'
<1>1. ~emmc /\ request.DataLen \in AnyLength /\ request.DataLen \in Nat /\ request.Read \in BOOLEAN
  BY DEF TransferInv, RequestTyped
<1>2. got \in Nat
  BY LongestIs
<1>3. /\ received' = got /\ phase' \in {"idle", "poll", "check"}
      /\ timeout' \in 0 .. GenericTimeout + CommandPolls + CallerTimeout
      /\ phase' = "idle" => status' \in {"DEVICE_ERROR", "TIMEOUT"}
      /\ phase' # "idle" => status' = status
      /\ phase' = "poll" => got < request.DataLen /\ timeout' \in 1 .. GenericTimeout
      /\ phase' = "check" => got >= request.DataLen /\ timeout' \in 1 .. CallerTimeout
  BY <1>1, <1>2, VerifyIs
<1>4. RequestTyped'
  BY <1>1, <1>3 DEF TransferInv, RequestTyped, FifoPhases, AnyLength
<1>5. LoopTyped'
  <2>1. intsts' \subseteq Flags' /\ bits' \subseteq Flags'
    BY DEF TransferInv, LoopTyped, Flags, Transfer!Errors
  <2>2. Transfer!Longest' = Transfer!Longest
    BY DEF Transfer!Longest
  <2> QED BY <1>3, <2>1, <2>2 DEF LoopTyped, Polls
<1>6. Got' = got
  BY <1>3 DEF Got
<1>7. ASSUME ~dirty
      PROVE  SoFar' /\ Clean'
  <2>1. SoFar'
    BY <1>1, <1>6, <1>7 DEF SoFar
  <2>2. Filled(got)' \/ Fresh'
    BY <1>7 DEF ReadSoFar, WrittenSoFar
  <2>3. got <= Transfer!Extent
    BY <1>1, <1>7, ExtentIs DEF TransferInv, RequestTyped
  <2> QED BY <1>2, <2>1, <2>2, <2>3, CleanNext DEF TransferInv
<1>8. ~dirty /\ phase' = "check" => received' = Rounded'
  BY <1>1, <1>2, <1>3, SameLength
<1>9. status = "none"
  BY <1>1 DEF TransferInv, FifoData, BeforeCommand
<1>10. FifoData'
  BY <1>3, <1>7, <1>8, <1>9 DEF FifoData, InTransfer, Polls, BeforeCommand
<1> QED BY <1>1, <1>3, <1>4, <1>5, <1>10, FifoSide

\* What is known while a transfer runs.
LEMMA Running ==
    ASSUME TransferInv, phase \in FifoPhases
    PROVE  /\ ~emmc /\ request.DataLen \in AnyLength /\ request.DataLen \in Nat \ {0}
           /\ request.Read \in BOOLEAN /\ request.UseBE \in BOOLEAN
           /\ request.UseBE => request.Read
           /\ request.DataLen <= Transfer!Longest /\ Transfer!Longest \in Nat \ {0}
           /\ status = "none" /\ received \in 0 .. 2 * Transfer!Longest + 2
           /\ bytes \in [Transfer!Around -> Int] /\ sent \in Seq(Int)
           /\ fifo \in Seq(Int) /\ Len(fifo) <= Depth
           /\ WordLen \in Nat /\ Rounded = 4 * WordLen
           /\ request.DataLen <= Rounded /\ Rounded <= request.DataLen + 3
<1>1. /\ ~emmc /\ request.DataLen \in AnyLength /\ request.DataLen \in Nat \ {0}
      /\ request.Read \in BOOLEAN /\ request.UseBE \in BOOLEAN
      /\ request.UseBE => request.Read
      /\ request.DataLen <= Transfer!Longest /\ Transfer!Longest \in Nat \ {0}
      /\ status = "none" /\ received \in 0 .. 2 * Transfer!Longest + 2
      /\ bytes \in [Transfer!Around -> Int] /\ sent \in Seq(Int)
      /\ fifo \in Seq(Int) /\ Len(fifo) <= Depth
  BY LongestIs
  DEF TransferInv, RequestTyped, LoopTyped, WireTyped, FifoData, FifoPhases, BeforeCommand
<1>2. /\ WordLen \in Nat /\ Rounded = 4 * WordLen
      /\ request.DataLen <= Rounded /\ Rounded <= request.DataLen + 3
  BY <1>1, WordsAre DEF WordLen, Rounded
<1> QED BY <1>1, <1>2

\* The wait for CMD_DONE takes a turn, or ends.
LEMMA CommandPollKeeps ==
    ASSUME TransferInv, Transfer!CommandPoll
    PROVE  TransferInv'
<1>1. /\ phase = "command"
      /\ UNCHANGED <<emmc, clock, request, bytes, full, bits, fifo, busAt, sent, bad, dirty>>
  BY DEF Transfer!CommandPoll, Transfer!wire
<1>2. /\ intsts' \in {intsts, bits}
      /\ \/ phase' = "command" /\ timeout # 1 /\ timeout' = timeout - 1 /\ status' = status
            /\ received' = received
         \/ phase' = "idle" /\ status' = "DEVICE_ERROR" /\ timeout' = GenericTimeout
            /\ received' = received
         \/ phase' = "poll" /\ status' = status /\ timeout' = GenericTimeout /\ received' = 0
  BY <1>1 DEF Transfer!CommandPoll, Transfer!AfterCommand, Transfer!Ends
<1>3. ~emmc /\ request.DataLen \in AnyLength /\ request.DataLen \in Nat \ {0} /\ status = "none"
  BY <1>1, Running DEF FifoPhases
<1>4. RequestTyped'
  BY <1>1, <1>2, <1>3 DEF TransferInv, RequestTyped, FifoPhases, AnyLength
<1>5. LoopTyped'
  <2>1. intsts' \subseteq Flags' /\ bits' \subseteq Flags' /\ full' \in BOOLEAN
    BY <1>1, <1>2 DEF TransferInv, LoopTyped, Flags, Transfer!Errors
  <2>2. Transfer!Longest' = Transfer!Longest
    BY DEF Transfer!Longest
  <2>3. received \in 0 .. 2 * Transfer!Longest + 2 /\ timeout \in 1 .. CommandPolls
    BY <1>1 DEF TransferInv, LoopTyped
  <2> QED BY <1>1, <1>2, <1>3, <2>1, <2>2, <2>3, NumbersAre, LongestIs DEF LoopTyped, Polls
<1>6. WireTyped'
  BY <1>1, <1>2 DEF TransferInv, WireTyped, InTransfer, Polls, Dir, Transfer!Around, BusStates
<1>7. Got = 0 /\ (phase' # "idle" => Got' = 0)
  BY <1>1, <1>2 DEF Got
<1>8. FifoData'
  <2>1. ~dirty => SoFar /\ Clean
    BY <1>1, <1>3, SoFarClean DEF TransferInv, FifoData, InTransfer
  <2>2. ~dirty /\ phase' # "idle" => SoFar'
    BY <1>1, <1>7, <2>1, SoFarKept
  <2>3. ~dirty => Clean'
    BY <1>1, <2>1, WordsKept
  <2> QED BY <1>1, <1>2, <1>3, <2>2, <2>3 DEF FifoData, InTransfer, Polls, BeforeCommand
<1> QED BY <1>1, <1>3, <1>4, <1>5, <1>6, <1>8, FifoSide

\* Steps of TransferFifo that look at the registers only.
LEMMA LooksKeep ==
    ASSUME TransferInv, Transfer!Poll \/ Transfer!Reread
    PROVE  TransferInv'
<1>1. /\ UNCHANGED <<emmc, clock, request, bytes, received, timeout, status, bits, fifo, busAt,
                     sent, bad, dirty>>
      /\ intsts' = bits /\ full' \in {full, Len(fifo) = Depth}
      /\ \/ phase = "poll" /\ phase' = "move"
         \/ phase = "reread" /\ phase' = "push" /\ (~full' => Len(fifo) # Depth)
  BY DEF Transfer!Poll, Transfer!Reread, Transfer!wire
<1>2. ~emmc /\ request.DataLen \in AnyLength /\ fifo \in Seq(Int) /\ Len(fifo) <= Depth
      /\ status = "none"
  BY <1>1, Running DEF FifoPhases
<1>3. RequestTyped'
  BY <1>1, <1>2 DEF TransferInv, RequestTyped, FifoPhases, AnyLength
<1>4. LoopTyped'
  <2>1. intsts' \subseteq Flags' /\ bits' \subseteq Flags' /\ full' \in BOOLEAN
    BY <1>1 DEF TransferInv, LoopTyped, Flags, Transfer!Errors
  <2>2. Transfer!Longest' = Transfer!Longest
    BY DEF Transfer!Longest
  <2> QED BY <1>1, <2>1, <2>2 DEF TransferInv, LoopTyped, Polls
<1>5. WireTyped'
  <2>1. Len(fifo) \in Nat /\ (phase' = "push" /\ ~full' => Len(fifo') < Depth)
    BY <1>1, <1>2, NumbersAre
  <2> QED BY <1>1, <2>1
      DEF TransferInv, WireTyped, InTransfer, Polls, Dir, Transfer!Around, BusStates
<1>6. Got' = Got
  BY <1>1 DEF Got
<1>7. FifoData'
  BY <1>1, <1>2, <1>6, SoFarKept DEF TransferInv, FifoData, InTransfer, Polls, BeforeCommand
<1> QED BY <1>1, <1>2, <1>3, <1>4, <1>5, <1>7, FifoSide

\* A turn of the loop that moved nothing.
LEMMA VerifyAlone ==
    ASSUME TransferInv, phase \in {"move", "push"}, ~request.Read,
           NEW left \in 1 .. GenericTimeout, Transfer!Verify(received, left),
           UNCHANGED <<emmc, clock, request, bytes, intsts, full, bits, fifo, busAt, sent, bad,
                       dirty>>
    PROVE  TransferInv'
<1>1. /\ ~emmc /\ request.DataLen \in Nat /\ received \in 0 .. 2 * Transfer!Longest + 2
      /\ Transfer!Longest \in Nat /\ full \in BOOLEAN
      /\ WordLen \in Nat /\ Rounded = 4 * WordLen /\ Rounded <= request.DataLen + 3
      /\ sent \in Seq(Int) /\ fifo \in Seq(Int)
  BY Running DEF FifoPhases, TransferInv, LoopTyped
<1>2. PICK got \in 0 .. 2 * Transfer!Longest + 2 : got = received
  BY <1>1
<1>3. Transfer!Verify(got, left)
  BY <1>2
<1>4. received' = got /\ phase' \in {"idle", "poll", "check"}
  BY <1>1, <1>2, <1>3, VerifyIs
<1>5. WireTyped'
  BY <1>4 DEF TransferInv, WireTyped, InTransfer, Polls, Dir, Transfer!Around, BusStates
<1>6. ASSUME ~dirty
      PROVE  /\ got <= Rounded /\ (got >= request.DataLen => got = Rounded)
             /\ WrittenSoFar(got)'
  <2>1. SoFar /\ Got = got /\ Got' = got
    BY <1>2, <1>1, <1>4, <1>6 DEF TransferInv, FifoData, InTransfer, Polls, BeforeCommand, Got
  <2>2. SoFar'
    BY <2>1, SoFarKept
  <2>3. WrittenSoFar(got) /\ WrittenSoFar(got)'
    BY <2>1, <2>2 DEF SoFar
  <2>4. 4 * Len(sent) + 4 * Len(fifo) = got /\ got <= Rounded
    BY <2>3 DEF WrittenSoFar
  <2>5. got >= request.DataLen => got = Rounded
    <3>1. Len(sent) \in Nat /\ Len(fifo) \in Nat
      BY <1>1
    <3> QED BY <1>1, <2>4, <3>1
  <2> QED BY <2>3, <2>4, <2>5
<1> QED BY <1>3, <1>1, <1>5, <1>6, VerifyKeeps

\* A write that is asked for words, or is not.
LEMMA MoveOutKeeps ==
    ASSUME TransferInv, Transfer!MoveOut
    PROVE  TransferInv'
<1>1. /\ phase = "move" /\ ~request.Read
      /\ UNCHANGED <<emmc, clock, request, bytes, intsts, bits, fifo, busAt, sent, bad, dirty>>
  BY DEF Transfer!MoveOut, Transfer!wire
<1>2. /\ ~emmc /\ request.DataLen \in AnyLength /\ fifo \in Seq(Int) /\ Len(fifo) <= Depth
      /\ status = "none"
  BY <1>1, Running DEF FifoPhases
<1>3. CASE "TXDR" \in intsts
  <2>1. /\ phase' = "push" /\ full' \in BOOLEAN /\ (~full' => Len(fifo) # Depth)
        /\ UNCHANGED <<received, timeout, status>>
    BY <1>3 DEF Transfer!MoveOut
  <2>2. RequestTyped'
    BY <1>1, <1>2, <2>1 DEF TransferInv, RequestTyped, FifoPhases, AnyLength
  <2>3. LoopTyped'
    <3>1. intsts' \subseteq Flags' /\ bits' \subseteq Flags'
      BY <1>1 DEF TransferInv, LoopTyped, Flags, Transfer!Errors
    <3>2. Transfer!Longest' = Transfer!Longest /\ Transfer!Longest \in Nat
      BY LongestIs DEF Transfer!Longest
    <3>3. received \in 0 .. 2 * Transfer!Longest + 2
      BY <1>1 DEF TransferInv, LoopTyped
    <3> QED BY <1>1, <2>1, <3>1, <3>2, <3>3 DEF TransferInv, LoopTyped, Polls
  <2>4. WireTyped'
    <3>1. ~full' => Len(fifo') < Depth
      BY <1>1, <1>2, <2>1, NumbersAre
    <3> QED BY <1>1, <2>1, <3>1
        DEF TransferInv, WireTyped, InTransfer, Polls, Dir, Transfer!Around, BusStates
  <2>5. Got' = Got
    BY <1>1, <2>1 DEF Got
  <2>6. FifoData'
    BY <1>1, <1>2, <2>1, <2>5, SoFarKept DEF TransferInv, FifoData, InTransfer, Polls, BeforeCommand
  <2> QED BY <1>1, <1>2, <2>2, <2>3, <2>4, <2>6, FifoSide
<1>4. CASE "TXDR" \notin intsts
  <2>1. Transfer!Verify(received, timeout) /\ full' = full
    BY <1>4 DEF Transfer!MoveOut
  <2>2. timeout \in 1 .. GenericTimeout
    BY <1>1 DEF TransferInv, LoopTyped, Polls
  <2>3. PICK left \in 1 .. GenericTimeout : left = timeout
    BY <2>2
  <2>4. Transfer!Verify(received, left)
    BY <2>1, <2>3
  <2> QED BY <1>1, <2>1, <2>4, VerifyAlone
<1> QED BY <1>3, <1>4

\* What a sequence of words is with one more, and with one less.
LEMMA FollowMore ==
    ASSUME NEW s \in Seq(Int), NEW from \in Int, Follow(s, from)
    PROVE  /\ Append(s, from + 4 * Len(s) + 1) \in Seq(Int)
           /\ Len(Append(s, from + 4 * Len(s) + 1)) = Len(s) + 1
           /\ Follow(Append(s, from + 4 * Len(s) + 1), from)
<1> DEFINE w == from + 4 * Len(s) + 1
           t == Append(s, w)
<1>1. w \in Int /\ Len(s) \in Nat
  OBVIOUS
<1> HIDE DEF w
<1>2. t \in Seq(Int) /\ Len(t) = Len(s) + 1
      /\ \A i \in 1 .. Len(t) : t[i] = IF i = Len(s) + 1 THEN w ELSE s[i]
  BY <1>1
<1> HIDE DEF t
<1>3. ASSUME NEW i \in 1 .. Len(t)
      PROVE  t[i] = from + 4 * i - 3
  <2>1. CASE i = Len(s) + 1
    BY <1>1, <1>2, <2>1 DEF w
  <2>2. CASE i # Len(s) + 1
    <3>1. i \in 1 .. Len(s)
      BY <1>1, <1>2, <2>2
    <3> QED BY <1>2, <2>2, <3>1 DEF Follow
  <2> QED BY <2>1, <2>2
<1>4. Follow(t, from)
  BY <1>3 DEF Follow
<1> QED BY <1>2, <1>4 DEF t, w

\* Its head is the word it follows on.
LEMMA FollowLess ==
    ASSUME NEW s \in Seq(Int), NEW from \in Int, Follow(s, from), s # <<>>
    PROVE  /\ Head(s) = from + 1 /\ Tail(s) \in Seq(Int) /\ Len(Tail(s)) = Len(s) - 1
           /\ Len(s) \in Nat \ {0}
           /\ Follow(Tail(s), from + 4)
<1>1. Len(s) \in Nat \ {0} /\ Head(s) = s[1]
  OBVIOUS
<1>2. Tail(s) \in Seq(Int) /\ Len(Tail(s)) = Len(s) - 1
      /\ \A i \in 1 .. Len(s) - 1 : Tail(s)[i] = s[i + 1]
  BY <1>1
<1>3. Follow(Tail(s), from + 4)
  <2> SUFFICES ASSUME NEW i \in 1 .. Len(Tail(s))
               PROVE  Tail(s)[i] = (from + 4) + 4 * i - 3
    BY DEF Follow
  <2>1. i \in Int /\ i + 1 \in 1 .. Len(s) /\ Tail(s)[i] = s[i + 1]
    BY <1>1, <1>2
  <2>2. s[i + 1] = from + 4 * (i + 1) - 3
    BY <2>1 DEF Follow
  <2> QED BY <2>1, <2>2
<1> QED BY <1>1, <1>2, <1>3 DEF Follow

\* A word of a write is pushed, or the loop takes its turn.
LEMMA PushWordKeeps ==
    ASSUME TransferInv, Transfer!PushWord
    PROVE  TransferInv'
<1>1. /\ phase = "push"
      /\ UNCHANGED <<emmc, clock, request, bytes, intsts, full, busAt, sent, bad, dirty>>
  BY DEF Transfer!PushWord
<1>2. ~request.Read /\ full \in BOOLEAN
  BY <1>1 DEF TransferInv, RequestTyped, LoopTyped
<1>3. /\ ~emmc /\ request.DataLen \in AnyLength /\ request.DataLen \in Nat \ {0}
      /\ request.DataLen <= Transfer!Longest /\ Transfer!Longest \in Nat \ {0}
      /\ received \in 0 .. 2 * Transfer!Longest + 2
      /\ bytes \in [Transfer!Around -> Int] /\ sent \in Seq(Int)
      /\ fifo \in Seq(Int) /\ Len(fifo) <= Depth /\ status = "none" /\ ~request.UseBE
      /\ WordLen \in Nat /\ Rounded = 4 * WordLen /\ request.DataLen <= Rounded
  BY <1>1, <1>2, Running DEF FifoPhases
<1>4. CASE ~full /\ received < request.DataLen /\ "TXDR" \in intsts
  <2>1. /\ fifo' = Append(fifo, bytes[received]) /\ bits' = bits \ {"TXDR"}
        /\ received' = received + 4 /\ phase' = "reread" /\ UNCHANGED <<timeout, status>>
    <3>1. Transfer!Mirror(received) = received
      BY <1>3 DEF Transfer!Mirror
    <3> QED BY <1>4, <3>1 DEF Transfer!PushWord
  <2>2. received \in 0 .. request.DataLen - 1 /\ received \in Transfer!Around
    BY <1>3, <1>4, AroundIs
  <2>3. bytes[received] \in Int
    BY <1>3, <2>2
  <2>4. RequestTyped'
    BY <1>1, <1>2, <1>3, <2>1 DEF TransferInv, RequestTyped, FifoPhases, AnyLength
  <2>5. LoopTyped'
    <3>1. intsts' \subseteq Flags' /\ bits' \subseteq Flags'
      BY <1>1, <2>1 DEF TransferInv, LoopTyped, Flags, Transfer!Errors
    <3>2. Transfer!Longest' = Transfer!Longest
      BY DEF Transfer!Longest
    <3>3. received' \in 0 .. 2 * Transfer!Longest + 2
      BY <1>3, <1>4, <2>1
    <3> QED BY <1>1, <2>1, <3>1, <3>2, <3>3 DEF TransferInv, LoopTyped, Polls
  <2>6. WireTyped'
    <3>1. fifo' \in Seq(Int) /\ Len(fifo') = Len(fifo) + 1 /\ Len(fifo) < Depth
      BY <1>1, <1>3, <1>4, <2>1, <2>3 DEF TransferInv, WireTyped
    <3>2. Len(fifo') <= Depth
      BY <1>3, <3>1, NumbersAre
    <3> QED BY <1>1, <2>1, <3>1, <3>2
        DEF TransferInv, WireTyped, InTransfer, Polls, Dir, Transfer!Around, BusStates
  <2>7. ASSUME ~dirty
        PROVE  SoFar'
    <3>1. WrittenSoFar(received)
      BY <1>1, <1>2, <1>3, <2>7 DEF TransferInv, FifoData, InTransfer, Polls, BeforeCommand, SoFar, Got
    <3>2. bytes[received] = received + 1
      BY <1>2, <2>2, <3>1 DEF WrittenSoFar, Fresh
    <3>3. received = 4 * Len(sent) + 4 * Len(fifo) /\ Len(sent) \in Nat /\ Len(fifo) \in Nat
          /\ Follow(fifo, 4 * Len(sent))
      BY <1>3, <3>1 DEF WrittenSoFar
    <3>4. Len(fifo') = Len(fifo) + 1 /\ Follow(fifo', 4 * Len(sent))
      <4>1. PICK from \in Int : from = 4 * Len(sent)
        BY <3>3
      <4>2. Follow(fifo, from) /\ bytes[received] = from + 4 * Len(fifo) + 1
        BY <3>2, <3>3, <4>1
      <4> QED BY <1>3, <2>1, <4>1, <4>2, FollowMore
    <3>5. Fresh' /\ Follow(sent', 0)
      BY <1>1, <3>1, WordsKept DEF WrittenSoFar
    <3>6. Follow(fifo', 4 * Len(sent'))
      BY <1>1, <3>4
    <3>7. /\ 4 * Len(sent') + 4 * Len(fifo') = received' /\ received' <= Rounded
          /\ Rounded' = Rounded /\ WordLen' = WordLen
      BY <1>1, <1>3, <1>4, <2>1, <3>3, <3>4, SameLength
    <3>8. WrittenSoFar(received)'
      BY <1>1, <2>1, <3>1, <3>5, <3>6, <3>7 DEF WrittenSoFar
    <3> QED BY <1>1, <1>2, <2>1, <3>8 DEF SoFar, Got
  <2>8. FifoData'
    BY <1>1, <1>3, <2>1, <2>7 DEF FifoData, InTransfer, Polls, BeforeCommand
  <2> QED BY <1>1, <1>3, <2>4, <2>5, <2>6, <2>8, FifoSide
<1>5. CASE ~(~full /\ received < request.DataLen /\ "TXDR" \in intsts)
  <2>1. Transfer!Verify(received, GenericTimeout) /\ UNCHANGED <<fifo, bits>>
    BY <1>5 DEF Transfer!PushWord
  <2>2. GenericTimeout \in 1 .. GenericTimeout
    BY NumbersAre
  <2> QED BY <1>1, <1>2, <2>1, <2>2, VerifyAlone
<1> QED BY <1>4, <1>5

\* DwMmcCheckTrbResult looks.
LEMMA CheckFifoKeeps ==
    ASSUME TransferInv, Transfer!CheckFifo
    PROVE  TransferInv'
<1>1. /\ phase = "check" /\ timeout' = timeout - 1
      /\ UNCHANGED <<emmc, clock, request, bytes, received, intsts, full, bits, fifo, busAt, sent,
                     bad, dirty>>
      /\ \/ phase' = "idle" /\ status' = "SUCCESS" /\ {"ACD", "DTO"} \subseteq bits
         \/ phase' = "idle" /\ status' = "TIMEOUT"
         \/ phase' = "check" /\ status' = status /\ timeout # 1
  <2>1. CASE {"ACD", "DTO"} \subseteq bits
    BY <2>1 DEF Transfer!CheckFifo, Transfer!wire, Transfer!Ends
  <2>2. CASE ~({"ACD", "DTO"} \subseteq bits) /\ timeout = 1
    BY <2>2 DEF Transfer!CheckFifo, Transfer!wire, Transfer!Ends
  <2>3. CASE ~({"ACD", "DTO"} \subseteq bits) /\ timeout # 1
    BY <2>3 DEF Transfer!CheckFifo, Transfer!wire
  <2> QED BY <2>1, <2>2, <2>3
<1>2. /\ ~emmc /\ request.DataLen \in AnyLength /\ request.DataLen \in Nat \ {0}
      /\ status = "none" /\ request.Read \in BOOLEAN /\ sent \in Seq(Int)
  BY <1>1, Running DEF FifoPhases
<1>3. RequestTyped'
  BY <1>1, <1>2 DEF TransferInv, RequestTyped, FifoPhases, AnyLength
<1>4. LoopTyped'
  <2>1. intsts' \subseteq Flags' /\ bits' \subseteq Flags'
    BY <1>1 DEF TransferInv, LoopTyped, Flags, Transfer!Errors
  <2>2. Transfer!Longest' = Transfer!Longest
    BY DEF Transfer!Longest
  <2>3. timeout \in 1 .. CallerTimeout
    BY <1>1 DEF TransferInv, LoopTyped
  <2> QED BY <1>1, <2>1, <2>2, <2>3, NumbersAre DEF TransferInv, LoopTyped, Polls
<1>5. WireTyped'
  BY <1>1 DEF TransferInv, WireTyped, InTransfer, Polls, Dir, Transfer!Around, BusStates
<1>6. ASSUME ~dirty
      PROVE  /\ SoFar' /\ Clean' /\ received' = Rounded'
             /\ status' = "SUCCESS" => IF request.Read THEN Filled(Rounded)'
                                       ELSE SentAll' /\ busAt.dir = "none"
  <2>1. SoFar /\ received = Rounded /\ Got = received /\ Got' = Got
    BY <1>1, <1>2, <1>6 DEF TransferInv, FifoData, InTransfer, Got
  <2>2. SoFar' /\ Clean' /\ received' = Rounded'
    BY <1>1, <1>2, <2>1, SoFarKept, SoFarClean, WordsKept, SameLength
  <2>3. CASE request.Read
    <3>1. Filled(Rounded)
      BY <2>1, <2>3 DEF SoFar, ReadSoFar
    <3> QED BY <1>1, <2>2, <2>3, <3>1, WordsKept
  <2>4. CASE ~request.Read
    <3>1. WrittenSoFar(Rounded)
      BY <2>1, <2>4 DEF SoFar
    <3>2. ASSUME status' = "SUCCESS"
          PROVE  SentAll' /\ busAt.dir = "none"
      <4>1. "ACD" \in bits
        BY <1>1, <1>2, <3>2
      <4>2. busAt.dir = "none"
        BY <3>1, <4>1 DEF WrittenSoFar
      <4>3. 4 * Len(sent) = Rounded /\ Follow(sent, 0)
        BY <3>1, <4>2 DEF WrittenSoFar, Rounded
      <4>4. SentAll
        BY <1>2, <4>3 DEF SentAll
      <4> QED BY <1>1, <4>2, <4>4, SentKept
    <3> QED BY <2>2, <2>4, <3>2
  <2> QED BY <1>2, <2>3, <2>4
<1>7. FifoData'
  <2>1. ASSUME ~dirty, status' = "SUCCESS"
        PROVE  IF request'.Read THEN Filled(Rounded)' ELSE SentAll' /\ busAt'.dir = "none"
    BY <1>1, <1>6, <2>1
  <2> QED BY <1>1, <1>2, <1>6, <2>1 DEF FifoData, InTransfer, Polls, BeforeCommand
<1> QED BY <1>1, <1>2, <1>3, <1>4, <1>5, <1>7, FifoSide

\* A read takes what is there.
LEMMA MoveInKeeps ==
    ASSUME TransferInv, Transfer!MoveIn
    PROVE  TransferInv'
<1>1. /\ phase = "move" /\ request.Read
      /\ UNCHANGED <<emmc, clock, request, intsts, full, bits, busAt, sent, bad, dirty>>
  BY DEF Transfer!MoveIn
<1>2. /\ ~emmc /\ request.DataLen \in AnyLength /\ request.DataLen \in Nat \ {0}
      /\ request.DataLen <= Transfer!Longest /\ Transfer!Longest \in Nat \ {0}
      /\ bytes \in [Transfer!Around -> Int] /\ sent \in Seq(Int)
      /\ fifo \in Seq(Int) /\ Len(fifo) <= Depth /\ Len(fifo) \in Nat /\ full \in BOOLEAN
      /\ received \in 0 .. request.DataLen - 1
      /\ timeout \in 1 .. GenericTimeout /\ GenericTimeout \in 1 .. GenericTimeout
      /\ WordLen \in Nat /\ Rounded = 4 * WordLen
      /\ request.DataLen <= Rounded /\ Rounded <= request.DataLen + 3
  <2>1. received \in 0 .. 2 * Transfer!Longest + 2 /\ received < request.DataLen
        /\ full \in BOOLEAN /\ timeout \in 1 .. GenericTimeout
    BY <1>1 DEF TransferInv, LoopTyped, Polls
  <2> QED BY <1>1, <2>1, Running, NumbersAre DEF FifoPhases
<1> DEFINE Count == IF intsts \cap {"RXDR", "DTO"} = {} THEN 0
                    ELSE Transfer!Least(Len(fifo), Transfer!Up(request.DataLen, 4))
<1>3. PICK count \in 0 .. Len(fifo) : count = Count /\ count <= WordLen
  <2>1. Count \in 0 .. Len(fifo) /\ Count <= WordLen
    <3>1. CASE intsts \cap {"RXDR", "DTO"} = {}
      BY <1>2, <3>1
    <3>2. CASE intsts \cap {"RXDR", "DTO"} # {}
      <4>1. Count = Transfer!Least(Len(fifo), WordLen)
        BY <3>2 DEF WordLen
      <4> QED BY <1>2, <4>1 DEF Transfer!Least
    <3> QED BY <3>1, <3>2
  <2> HIDE DEF Count
  <2> QED BY <2>1
<1> DEFINE at(o) == Transfer!Mirror(o) - received
<1>4. /\ bytes' = [o \in Transfer!Around |->
                     IF at(o) \in 0 .. 4 * count - 1
                     THEN fifo[at(o) \div 4 + 1] + (at(o) % 4) ELSE bytes[o]]
      /\ fifo' = SubSeq(fifo, count + 1, Len(fifo))
      /\ Transfer!Verify(received + 4 * count, IF count > 0 THEN GenericTimeout ELSE timeout)
  BY <1>3 DEF Transfer!MoveIn
<1> HIDE DEF Count
<1>5. PICK got \in 0 .. 2 * Transfer!Longest + 2 : got = received + 4 * count
  <2>1. received + 4 * count \in 0 .. 2 * Transfer!Longest + 2
    BY <1>2, <1>3
  <2> QED BY <2>1
<1>6. PICK left \in 1 .. GenericTimeout : left = IF count > 0 THEN GenericTimeout ELSE timeout
  BY <1>2
<1>7. Transfer!Verify(got, left)
  BY <1>4, <1>5, <1>6
<1>13. Transfer!Around \subseteq Int
  BY NumbersAre DEF Transfer!Around
<1>14. /\ request.DataLen \in Nat /\ Len(fifo) \in Nat /\ received \in Nat /\ count \in Nat
       /\ got = received + 4 * count /\ count <= Len(fifo) /\ got \in Nat
  BY <1>2, <1>3, <1>5
\* A byte that is moved is one of a word of the FIFO.
<1>15. ASSUME NEW o \in Transfer!Around
       PROVE  /\ at(o) \in Int /\ Transfer!Mirror(o) = received + at(o)
              /\ at(o) \in 0 .. 4 * count - 1 =>
                    /\ at(o) \div 4 + 1 \in 1 .. count /\ at(o) % 4 \in 0 .. 3
                    /\ at(o) = 4 * (at(o) \div 4) + (at(o) % 4)
  <2>1. Transfer!Mirror(o) \in Int
    BY <1>13, <1>14, MirrorIs
  <2>2. PICK a \in Int : a = at(o)
    BY <1>14, <2>1
  <2>3. a \in 0 .. 4 * count - 1 =>
           a \div 4 + 1 \in 1 .. count /\ a % 4 \in 0 .. 3 /\ a = 4 * (a \div 4) + (a % 4)
    BY <1>14, SMTT(30)
  <2>4. Transfer!Mirror(o) = received + a
    BY <1>14, <2>1, <2>2
  <2> HIDE DEF at
  <2> QED BY <2>2, <2>3, <2>4
<1>8. ASSUME NEW o \in Transfer!Around
      PROVE  bytes'[o] \in Int
  <2>1. CASE at(o) \in 0 .. 4 * count - 1
    <3>1. fifo[at(o) \div 4 + 1] \in Int /\ at(o) % 4 \in Int
      <4>1. at(o) \div 4 + 1 \in 1 .. count /\ at(o) % 4 \in 0 .. 3
        BY <1>15, <2>1
      <4> HIDE DEF at
      <4>2. PICK i \in 1 .. count : i = at(o) \div 4 + 1
        BY <4>1
      <4>3. PICK r \in 0 .. 3 : r = at(o) % 4
        BY <4>1
      <4>4. fifo[i] \in Int
        <5>1. fifo \in Seq(Int) /\ i \in 1 .. Len(fifo)
          BY <1>2, <1>14
        <5> QED BY <5>1
      <4>5. r \in Int
        OBVIOUS
      <4> QED BY <4>2, <4>3, <4>4, <4>5
    <3>2. bytes'[o] = fifo[at(o) \div 4 + 1] + (at(o) % 4)
      BY <1>4, <2>1
    <3> HIDE DEF at
    <3> QED BY <3>1, <3>2
  <2>2. CASE at(o) \notin 0 .. 4 * count - 1
    BY <1>2, <1>4, <2>2
  <2> QED BY <2>1, <2>2
<1>9. fifo' \in Seq(Int) /\ Len(fifo') = Len(fifo) - count
      /\ \A i \in 1 .. Len(fifo') : fifo'[i] = fifo[count + i]
  <2>1. fifo' = SubSeq(fifo, count + 1, Len(fifo))
    BY <1>4
  <2>2. fifo \in Seq(Int) /\ count \in 0 .. Len(fifo)
    BY <1>2
  <2>3. PICK s \in Seq(Int) : s = fifo
    BY <2>2
  <2>4. PICK t : t = SubSeq(s, count + 1, Len(s))
    OBVIOUS
  <2>5. t \in Seq(Int) /\ Len(t) = Len(s) - count
        /\ \A i \in 1 .. Len(t) : t[i] = s[count + i]
    BY SMTT(40), <2>2, <2>3, <2>4
  <2> QED BY <2>1, <2>3, <2>4, <2>5
<1>10. phase' \in {"idle", "poll", "check"} => WireTyped'
  <2>1. bytes' \in [Transfer!Around' -> Int]
    <3>1. bytes' = [o \in Transfer!Around |-> bytes'[o]]
      BY <1>4
    <3>2. Transfer!Around' = Transfer!Around
      BY DEF Transfer!Around, Transfer!Longest
    <3> QED BY <1>8, <3>1, <3>2
  <2>2. Len(fifo') <= Depth
    BY <1>2, <1>3, <1>9, NumbersAre
  <2> QED BY <1>1, <1>9, <2>1, <2>2 DEF TransferInv, WireTyped, InTransfer, Polls, Dir, BusStates
<1>11. ASSUME ~dirty
       PROVE  /\ got <= Rounded /\ (got >= request.DataLen => got = Rounded)
              /\ ReadSoFar(got)'
  <2>1. ReadSoFar(received)
    BY <1>1, <1>2, <1>11 DEF TransferInv, FifoData, InTransfer, Polls, SoFar, Got
  <2>2. /\ received + 4 * Len(fifo) = IF busAt.dir = "in" THEN 4 * busAt.done ELSE Rounded
        /\ busAt.dir = "in" => /\ busAt.todo = WordLen /\ busAt.done <= WordLen
                               /\ busAt.over => busAt.done = busAt.todo
    BY <2>1 DEF ReadSoFar
  <2>3. \A i \in 1 .. Len(fifo) : fifo[i] = received + 4 * i - 3
    BY <2>1 DEF ReadSoFar, Follow
  <2>4. Follow(fifo, got)'
    <3>1. ASSUME NEW i \in 1 .. Len(fifo')
          PROVE  fifo'[i] = got + 4 * i - 3
      <4>1. i \in Int /\ count + i \in 1 .. Len(fifo)
        BY <1>9, <1>14
      <4>2. fifo'[i] = received + 4 * (count + i) - 3
        BY <1>9, <2>3, <4>1
      <4> QED BY <1>14, <4>1, <4>2
    <3> QED BY <3>1 DEF Follow
  <2>5. Filled(got)'
    <3> SUFFICES ASSUME NEW o \in Transfer!Around
                 PROVE  bytes'[o] = IF Transfer!Mirror(o) \in 0 .. got - 1
                                    THEN Transfer!Mirror(o) + 1 ELSE 0
      BY <1>1, SameLength DEF Filled
    <3>1. PICK a \in Int : a = at(o)
      BY <1>15
    <3>2. Transfer!Mirror(o) = received + a
      BY <1>15, <3>1
    <3>3. bytes[o] = IF received + a \in 0 .. received - 1 THEN received + a + 1 ELSE 0
      BY <2>1, <3>2 DEF ReadSoFar, Filled
    <3>4. CASE a \in 0 .. 4 * count - 1
      <4>1. PICK w \in 1 .. count, b \in 0 .. 3 :
               bytes'[o] = fifo[w] + b /\ a = 4 * (w - 1) + b
        <5>1. /\ a \div 4 + 1 \in 1 .. count /\ a % 4 \in 0 .. 3
              /\ a = 4 * (a \div 4) + (a % 4)
          BY <1>15, <3>1, <3>4
        <5>2. bytes'[o] = fifo[a \div 4 + 1] + (a % 4)
          BY <1>4, <3>1, <3>4
        <5>3. PICK w \in 1 .. count : w = a \div 4 + 1
          BY <5>1
        <5>4. PICK b \in 0 .. 3 : b = a % 4
          BY <5>1
        <5>5. a \div 4 = w - 1
          BY <5>3
        <5> QED BY <5>1, <5>2, <5>3, <5>4, <5>5
      <4>2. fifo[w] = received + 4 * w - 3
        BY <1>14, <2>3
      <4>3. bytes'[o] = received + a + 1
        BY <1>14, <4>1, <4>2
      <4> QED BY <1>14, <3>2, <3>4, <4>3
    <3>5. CASE a \notin 0 .. 4 * count - 1
      <4>1. bytes'[o] = bytes[o]
        BY <1>4, <3>1, <3>5
      <4> QED BY <1>14, <3>2, <3>3, <3>5, <4>1
    <3> QED BY <3>4, <3>5
  <2>6. PICK total \in Int : total = (IF busAt.dir = "in" THEN busAt.done ELSE WordLen)
    <3>1. busAt.done \in Int /\ WordLen \in Int
      BY <1>2 DEF TransferInv, WireTyped, BusStates
    <3>2. CASE busAt.dir = "in"
      BY <3>1, <3>2
    <3>3. CASE busAt.dir # "in"
      BY <3>1, <3>3
    <3> QED BY <3>2, <3>3
  <2>7. received + 4 * Len(fifo) = 4 * total /\ total <= WordLen
    BY <1>2, <2>2, <2>6
  <2>8. got + 4 * Len(fifo') = 4 * total
    BY <1>14, <1>9, <2>7
  <2>9. got <= Rounded /\ (got >= request.DataLen => got = Rounded)
    <3>1. PICK rest \in Nat : rest = Len(fifo')
      <4>1. Len(fifo') \in Nat
        BY <1>9
      <4> QED BY <4>1
    <3>2. PICK r \in Nat : r = WordLen
      BY <1>2
    <3>3. /\ got + 4 * rest = 4 * total /\ total <= r /\ Rounded = 4 * r
          /\ 4 * r <= request.DataLen + 3
      BY <1>2, <2>7, <2>8, <3>1, <3>2
    <3> QED BY <1>14, <3>3
  <2>10. Rounded' = Rounded /\ WordLen' = WordLen
    BY <1>1, SameLength
  <2> QED BY <1>1, <1>2, <2>2, <2>4, <2>5, <2>6, <2>8, <2>9, <2>10 DEF ReadSoFar
<1> QED BY <1>1, <1>2, <1>7, <1>10, <1>11, VerifyKeeps

\* What the controller and the card do to the driver's transfer, the driver standing by.
Bystander == <<emmc, clock, phase, request, bytes, received, timeout, intsts, full, status, dirty>>

\* Their steps keep what is known, when they keep it of the wire.
LEMMA ControllerKeeps ==
    ASSUME TransferInv, ~emmc, UNCHANGED Bystander, bits' \subseteq Flags, WireTyped',
           ~dirty /\ phase \in InTransfer /\ SoFar => SoFar',
           busAt.dir = "none" => busAt'.dir = "none" /\ sent' = sent
    PROVE  TransferInv'
<1>1. UNCHANGED <<emmc, clock, phase, request, bytes, received, timeout, intsts, full, status,
                  dirty>>
  BY DEF Bystander
<1>2. RequestTyped'
  BY <1>1 DEF TransferInv, RequestTyped
<1>3. LoopTyped'
  <2>1. bits' \subseteq Flags' /\ Flags' = Flags
    BY DEF Flags, Transfer!Errors
  <2>2. Transfer!Longest' = Transfer!Longest
    BY DEF Transfer!Longest
  <2> QED BY <1>1, <2>1, <2>2 DEF TransferInv, LoopTyped
<1>4. FifoData'
  <2>0. Rounded' = Rounded
    BY <1>1, SameLength
  <2>1. CASE phase = "idle"
    <3>1. ASSUME ~dirty
          PROVE  Clean' /\ (status = "SUCCESS" =>
                     IF request.Read THEN Filled(Rounded)' ELSE SentAll' /\ busAt'.dir = "none")
      <4>1. Clean /\ (status = "SUCCESS" =>
                 IF request.Read THEN Filled(Rounded) ELSE SentAll /\ busAt.dir = "none")
        BY <2>1, <3>1 DEF TransferInv, FifoData
      <4> QED BY <1>1, <4>1, WordsKept, SentKept
    <3> QED BY <1>1, <2>1, <3>1 DEF FifoData, InTransfer, Polls, BeforeCommand
  <2>2. CASE phase # "idle"
    BY <1>1, <2>0, <2>2, WordsKept DEF TransferInv, FifoData
  <2> QED BY <2>1, <2>2
<1> QED BY <1>1, <1>2, <1>3, <1>4, FifoSide

\* Only a FIFO's transfers have a data phase of their own, and this is what it is.
LEMMA WireIs ==
    ASSUME TransferInv
    PROVE  /\ busAt = [dir |-> busAt.dir, cmd |-> busAt.cmd, done |-> busAt.done,
                       todo |-> busAt.todo, over |-> busAt.over]
           /\ busAt.dir \in {"none", "in", "out"} /\ busAt.cmd \in BOOLEAN
           /\ busAt.done \in Int /\ busAt.todo \in Int /\ busAt.over \in BOOLEAN
           /\ busAt.cmd \/ busAt.over => ~emmc
           /\ phase \in InTransfer => busAt.dir \in {"none", Dir}
           /\ fifo \in Seq(Int) /\ Len(fifo) <= Depth /\ Len(fifo) \in Nat
           /\ dirty \in BOOLEAN /\ bad \in BOOLEAN /\ bits \subseteq Flags
           /\ request.Read \in BOOLEAN /\ request.DataLen \in Nat
           /\ ~emmc => sent \in Seq(Int) /\ Len(sent) \in Nat
<1>1. busAt \in BusStates /\ fifo \in Seq(Int)
  BY DEF TransferInv, WireTyped
<1> QED BY <1>1 DEF TransferInv, WireTyped, LoopTyped, RequestTyped, BusStates

\* One bit more of the interrupt status, or one less of the data phase.
LEMMA SignalsKeep ==
    ASSUME TransferInv, ~emmc, UNCHANGED Bystander, UNCHANGED <<fifo, sent>>,
           bits' \subseteq Flags, bad' \in BOOLEAN, busAt' \in BusStates,
           busAt'.dir \in {"none", busAt.dir},
           ~dirty /\ phase \in InTransfer /\ SoFar => SoFar'
    PROVE  TransferInv'
<1>1. WireTyped'
  BY WireIs DEF TransferInv, WireTyped, Bystander, Dir, Transfer!Around
<1> QED BY <1>1, WireIs, ControllerKeeps

\* The command is answered, the driver asked for words, or an error seen.
LEMMA RaisingKeeps ==
    ASSUME TransferInv, Transfer!CommandDone \/ Transfer!RequestData \/ Transfer!BusError
    PROVE  TransferInv'
<1>1. /\ UNCHANGED Bystander /\ UNCHANGED <<fifo, sent>> /\ ~emmc /\ bits' \subseteq Flags
      /\ bad' \in BOOLEAN /\ ("ACD" \in bits' => "ACD" \in bits)
  <2>1. bits \subseteq Flags /\ bad \in BOOLEAN /\ (busAt.cmd => ~emmc)
    BY WireIs
  <2>2. CASE Transfer!CommandDone
    BY <2>1, <2>2
    DEF Transfer!CommandDone, Transfer!driver, Transfer!local, Transfer!Raise, Bystander, Flags
  <2>3. CASE Transfer!RequestData
    BY <2>1, <2>3
    DEF Transfer!RequestData, Transfer!driver, Transfer!local, Transfer!wire, Transfer!Raise,
        Transfer!Controller, Bystander, Flags
  <2>4. CASE Transfer!BusError
    BY <2>1, <2>4
    DEF Transfer!BusError, Transfer!driver, Transfer!local, Transfer!Raise, Transfer!Errors,
        Transfer!Controller, Bystander, Flags
  <2> QED BY <2>2, <2>3, <2>4
<1>2. /\ busAt'.dir = busAt.dir /\ busAt'.done = busAt.done /\ busAt'.todo = busAt.todo
      /\ busAt'.over = busAt.over /\ busAt' \in BusStates
  <2>1. busAt \in BusStates
    BY DEF TransferInv, WireTyped
  <2>2. CASE busAt' = busAt
    BY <2>1, <2>2
  <2>3. CASE busAt' = [busAt EXCEPT !.cmd = FALSE]
    BY <2>1, <2>3 DEF BusStates
  <2> QED BY <2>2, <2>3
      DEF Transfer!CommandDone, Transfer!RequestData, Transfer!BusError, Transfer!wire
<1>3. ASSUME SoFar
      PROVE  SoFar'
  <2>1. Got' = Got /\ UNCHANGED <<emmc, request, bytes, sent, fifo>>
    BY <1>1 DEF Bystander, Got
  <2>2. CASE request.Read
    <3>1. ReadSoFar(Got)
      BY <1>3, <2>2 DEF SoFar
    <3>2. ReadSoFar(Got)'
      BY <1>2, <2>1, <3>1, WordsKept, SameLength DEF ReadSoFar, Follow
    <3> QED BY <2>1, <2>2, <3>2 DEF SoFar
  <2>3. CASE ~request.Read
    <3>1. WrittenSoFar(Got)
      BY <1>3, <2>3 DEF SoFar
    <3>2. WrittenSoFar(Got)'
      BY <1>1, <1>2, <2>1, <3>1, WordsKept, SameLength DEF WrittenSoFar, Follow
    <3> QED BY <2>1, <2>3, <3>2 DEF SoFar
  <2> QED BY <2>2, <2>3
<1> QED BY <1>1, <1>2, <1>3, SignalsKeep

\* The data is over.
LEMMA DataOverKeeps ==
    ASSUME TransferInv, Transfer!DataOver
    PROVE  TransferInv'
<1>1. /\ UNCHANGED Bystander /\ UNCHANGED <<fifo, sent>> /\ ~emmc /\ bits' \subseteq Flags
      /\ bad' = bad /\ ("ACD" \in bits' => "ACD" \in bits)
      /\ busAt.done = busAt.todo /\ busAt' = [busAt EXCEPT !.over = TRUE]
  BY WireIs DEF Transfer!DataOver, Transfer!driver, Transfer!local, Transfer!Raise,
     Transfer!Controller, Bystander, Flags
<1>2. /\ busAt'.dir = busAt.dir /\ busAt'.done = busAt.done /\ busAt'.todo = busAt.todo
      /\ busAt' \in BusStates
  <2>1. busAt \in BusStates
    BY DEF TransferInv, WireTyped
  <2> QED BY <1>1, <2>1 DEF BusStates
<1>3. ASSUME SoFar
      PROVE  SoFar'
  <2>1. Got' = Got /\ UNCHANGED <<emmc, request, bytes, sent, fifo>>
    BY <1>1 DEF Bystander, Got
  <2>2. CASE request.Read
    <3>1. ReadSoFar(Got)
      BY <1>3, <2>2 DEF SoFar
    <3>2. ReadSoFar(Got)'
      BY <1>1, <1>2, <2>1, <3>1, WordsKept, SameLength DEF ReadSoFar, Follow
    <3> QED BY <2>1, <2>2, <3>2 DEF SoFar
  <2>3. CASE ~request.Read
    <3>1. WrittenSoFar(Got)
      BY <1>3, <2>3 DEF SoFar
    <3>2. WrittenSoFar(Got)'
      BY <1>1, <1>2, <2>1, <3>1, WordsKept, SameLength DEF WrittenSoFar, Follow
    <3> QED BY <2>1, <2>3, <3>2 DEF SoFar
  <2> QED BY <2>2, <2>3
<1> QED BY <1>1, <1>2, <1>3, WireIs, SignalsKeep

\* The stop command is done, and the data phase with it.
LEMMA AutoStopKeeps ==
    ASSUME TransferInv, Transfer!AutoStop
    PROVE  TransferInv'
<1>1. /\ UNCHANGED Bystander /\ UNCHANGED <<fifo, sent>> /\ ~emmc /\ bits' \subseteq Flags
      /\ bad' = bad /\ busAt.over /\ busAt' = Transfer!NoBus
  BY WireIs DEF Transfer!AutoStop, Transfer!driver, Transfer!local, Transfer!Raise, Bystander, Flags
<1>2. ASSUME phase \in InTransfer, SoFar
      PROVE  SoFar'
  <2>1. Got' = Got /\ UNCHANGED <<emmc, request, bytes, sent, fifo>>
    BY <1>1 DEF Bystander, Got
  <2>2. busAt.dir \in {"none", Dir}
    BY <1>2, WireIs
  <2>3. CASE request.Read
    <3>1. ReadSoFar(Got)
      BY <1>2, <2>3 DEF SoFar
    <3>2. Got + 4 * Len(fifo) = Rounded
      BY <1>1, <2>2, <2>3, <3>1 DEF ReadSoFar, Dir, Rounded
    <3>3. busAt'.dir = "none"
      BY <1>1, NoBusIs
    <3>4. ReadSoFar(Got)'
      BY <2>1, <3>1, <3>2, <3>3, WordsKept, SameLength DEF ReadSoFar, Follow
    <3> QED BY <2>1, <2>3, <3>4 DEF SoFar
  <2>4. CASE ~request.Read
    <3>1. WrittenSoFar(Got)
      BY <1>2, <2>4 DEF SoFar
    <3>2. Len(sent) = WordLen
      BY <1>1, <2>2, <2>4, <3>1 DEF WrittenSoFar, Dir
    <3>3. busAt'.dir = "none"
      BY <1>1, NoBusIs
    <3>4. WrittenSoFar(Got)'
      BY <2>1, <3>1, <3>2, <3>3, WordsKept, SameLength DEF WrittenSoFar, Follow
    <3> QED BY <2>1, <2>4, <3>4 DEF SoFar
  <2> QED BY <2>3, <2>4
<1> QED BY <1>1, <1>2, WireIs, NoBusIs, SignalsKeep

\* A word more in the FIFO, from the card.
LEMMA CardSendsKeeps ==
    ASSUME TransferInv, Transfer!CardSends
    PROVE  TransferInv'
<1>1. /\ UNCHANGED Bystander /\ UNCHANGED <<sent, bad>> /\ ~emmc
      /\ busAt.dir = "in" /\ ~busAt.over /\ busAt.done < busAt.todo /\ Len(fifo) < Depth
      /\ fifo' = Append(fifo, 4 * busAt.done + 1)
      /\ busAt' = [busAt EXCEPT !.done = @ + 1]
      /\ bits' \in {bits, bits \cup {"RXDR"}}
  BY DEF Transfer!CardSends, Transfer!driver, Transfer!local, Transfer!Raise, Transfer!Controller,
     Bystander
<1>2. /\ busAt'.dir = "in" /\ busAt'.done = busAt.done + 1 /\ busAt'.todo = busAt.todo
      /\ busAt'.over = busAt.over /\ busAt'.cmd = busAt.cmd /\ busAt' \in BusStates
  <2>1. busAt \in BusStates
    BY DEF TransferInv, WireTyped
  <2> QED BY <1>1, <2>1 DEF BusStates
<1>3. bits' \subseteq Flags /\ fifo \in Seq(Int) /\ Len(fifo) \in Nat /\ busAt.done \in Int
      /\ busAt.todo \in Int /\ request.DataLen \in Nat /\ request.Read \in BOOLEAN
  BY <1>1, WireIs DEF Flags
<1>4. fifo' \in Seq(Int) /\ Len(fifo') = Len(fifo) + 1 /\ Len(fifo') <= Depth
  <2>1. 4 * busAt.done + 1 \in Int
    BY <1>3
  <2> QED BY <1>1, <1>3, <2>1, NumbersAre
<1>5. phase \in InTransfer => request.Read
  BY <1>1, WireIs DEF Dir
<1>6. WireTyped'
  <2>1. phase # "push"
    BY <1>5 DEF TransferInv, RequestTyped, InTransfer, Polls
  <2> QED BY <1>1, <1>2, <1>4, <2>1 DEF TransferInv, WireTyped, Bystander, Dir, Transfer!Around
<1>7. ASSUME phase \in InTransfer, SoFar
      PROVE  SoFar'
  <2>1. Got' = Got /\ UNCHANGED <<emmc, request, bytes>> /\ request.Read
    BY <1>1, <1>5, <1>7 DEF Bystander, Got
  <2>2. ReadSoFar(Got)
    BY <1>7, <2>1 DEF SoFar
  <2>3. Got + 4 * Len(fifo) = 4 * busAt.done /\ busAt.todo = WordLen /\ Follow(fifo, Got)
    BY <1>1, <2>2 DEF ReadSoFar
  <2>4. PICK g \in Int : g = Got
    <3>1. Got \in Int
      BY LongestIs DEF TransferInv, LoopTyped, Got
    <3> QED BY <3>1
  <2>5. fifo' = Append(fifo, g + 4 * Len(fifo) + 1) /\ Follow(fifo, g)
    BY <1>1, <2>3, <2>4
  <2>6. Follow(fifo', g)
    BY <1>3, <2>5, FollowMore
  <2>7. /\ Got' + 4 * Len(fifo') = 4 * busAt'.done /\ busAt'.done <= WordLen
        /\ WordLen' = WordLen
    <3>1. WordLen' = WordLen /\ Got' = g
      BY <2>1, <2>4, SameLength
    <3>2. PICK k \in Nat : k = Len(fifo) /\ Len(fifo') = k + 1
      BY <1>3, <1>4
    <3>3. g + 4 * k = 4 * busAt.done /\ busAt.done + 1 <= WordLen
      BY <1>1, <1>3, <2>3, <2>4, <3>2
    <3> QED BY <1>2, <1>3, <3>1, <3>2, <3>3
  <2>8. Filled(g)' /\ Follow(fifo, g)'
    <3>1. Filled(g)
      BY <2>2, <2>4 DEF ReadSoFar
    <3> QED BY <2>1, <2>6, <3>1, WordsKept DEF Follow
  <2>9. ReadSoFar(g)'
    BY <1>1, <1>2, <2>1, <2>3, <2>4, <2>7, <2>8 DEF ReadSoFar
  <2> QED BY <2>1, <2>4, <2>9 DEF SoFar
<1> QED BY <1>1, <1>3, <1>6, <1>7, ControllerKeeps

\* A word less in the FIFO, to the card.
LEMMA CardTakesKeeps ==
    ASSUME TransferInv, Transfer!CardTakes
    PROVE  TransferInv'
<1>1. /\ UNCHANGED Bystander /\ UNCHANGED <<bits, bad>> /\ ~emmc
      /\ busAt.dir = "out" /\ ~busAt.over /\ busAt.done < busAt.todo /\ fifo # <<>>
      /\ sent' = Append(sent, Head(fifo)) /\ fifo' = Tail(fifo)
      /\ busAt' = [busAt EXCEPT !.done = @ + 1]
  BY DEF Transfer!CardTakes, Transfer!driver, Transfer!local, Transfer!Controller, Bystander
<1>2. /\ busAt'.dir = "out" /\ busAt'.done = busAt.done + 1 /\ busAt'.todo = busAt.todo
      /\ busAt'.over = busAt.over /\ busAt'.cmd = busAt.cmd /\ busAt' \in BusStates
  <2>1. busAt \in BusStates
    BY DEF TransferInv, WireTyped
  <2> QED BY <1>1, <2>1 DEF BusStates
<1>3. bits' \subseteq Flags /\ fifo \in Seq(Int) /\ Len(fifo) \in Nat /\ Len(fifo) <= Depth
      /\ sent \in Seq(Int) /\ Len(sent) \in Nat /\ busAt.done \in Int
      /\ request.DataLen \in Nat /\ request.Read \in BOOLEAN
  BY <1>1, WireIs
<1>4. fifo' \in Seq(Int) /\ Len(fifo') = Len(fifo) - 1 /\ Len(fifo') < Depth
      /\ sent' \in Seq(Int) /\ Len(sent') = Len(sent) + 1
  <2>1. Len(fifo) \in Nat \ {0} /\ Head(fifo) \in Int
    BY <1>1, <1>3
  <2> QED BY <1>1, <1>3, <2>1, NumbersAre
<1>5. phase \in InTransfer => ~request.Read
  BY <1>1, WireIs DEF Dir
<1>6. WireTyped'
  BY SMTT(40), <1>1, <1>2, <1>4, NumbersAre
  DEF TransferInv, WireTyped, Bystander, Dir, Transfer!Around
<1>7. ASSUME phase \in InTransfer, SoFar
      PROVE  SoFar'
  <2>1. Got' = Got /\ UNCHANGED <<emmc, request, bytes, bits>> /\ ~request.Read
    BY <1>1, <1>5, <1>7 DEF Bystander, Got
  <2>2. WrittenSoFar(Got)
    BY <1>7, <2>1 DEF SoFar
  <2>3. /\ Fresh /\ Follow(sent, 0) /\ Follow(fifo, 4 * Len(sent))
        /\ 4 * Len(sent) + 4 * Len(fifo) = Got /\ Got <= Rounded
        /\ Len(sent) = busAt.done /\ busAt.todo = WordLen /\ "ACD" \notin bits
        /\ WordLen' = WordLen /\ Rounded' = Rounded
    BY <1>1, <2>1, <2>2, SameLength DEF WrittenSoFar
  <2>4. PICK n \in Nat : n = Len(sent)
    BY <1>3
  <2>5. Head(fifo) = 4 * n + 1 /\ Follow(Tail(fifo), 4 * (n + 1))
    <3>1. PICK from \in Int : from = 4 * n /\ from + 4 = 4 * (n + 1)
      BY <2>4
    <3>2. Follow(fifo, from)
      BY <2>3, <2>4, <3>1
    <3> QED BY <1>1, <1>3, <3>1, <3>2, FollowLess
  <2>6. sent' = Append(sent, 0 + 4 * Len(sent) + 1)
    BY <1>1, <2>4, <2>5
  <2>7. Follow(sent', 0)
    <3>1. PICK from \in Int : from = 0
      OBVIOUS
    <3>2. Follow(sent, from) /\ sent' = Append(sent, from + 4 * Len(sent) + 1)
      BY <2>3, <2>6, <3>1
    <3> QED BY <1>3, <3>1, <3>2, FollowMore
  <2>8. Follow(fifo', 4 * Len(sent'))
    BY <1>1, <1>4, <2>4, <2>5
  <2>9. Fresh'
    BY <2>1, <2>3, WordsKept
  <2>10. /\ 4 * Len(sent') + 4 * Len(fifo') = Got' /\ Got' <= Rounded'
         /\ Len(sent') = busAt'.done
    BY SMTT(40), <1>2, <1>3, <1>4, <2>1, <2>3
  <2>11. Follow(sent, 0)' /\ Follow(fifo, 4 * Len(sent))'
    BY <2>7, <2>8 DEF Follow
  <2>12. WrittenSoFar(Got)'
    BY <1>1, <1>2, <2>1, <2>3, <2>9, <2>10, <2>11 DEF WrittenSoFar
  <2> QED BY <2>1, <2>12 DEF SoFar
<1> QED BY <1>1, <1>3, <1>6, <1>7, ControllerKeeps

\* Lengths of a transfer by DMA, and the descriptors they take.
LEMMA TableIs ==
    ASSUME NEW n \in AnyLength
    PROVE  /\ n \in Nat \ {0} /\ Transfer!Up(n, DmaBufSize) \in Nat \ {0}
           /\ DmaBufSize \in Nat \ {0}
           /\ DmaBufSize * (Transfer!Up(n, DmaBufSize) - 1) < n
           /\ Transfer!BytCnt(n) \in Nat /\ n <= Transfer!BytCnt(n)
           /\ \A i \in Int : DmaBufSize * i \in Int
<1>1. n \in Nat \ {0} /\ DmaBufSize \in Nat \ {0} /\ BlockSize \in Nat \ {0}
  BY LongestIs, NumbersAre
<1>3. Transfer!BytCnt(n) \in Nat /\ n <= Transfer!BytCnt(n)
  BY <1>1, BlocksAre
<1>4. \A i \in Int : DmaBufSize * i \in Int
  BY <1>1
<1> QED BY <1>1, <1>3, <1>4, UpIs

\* The DMA is not further than what it is to move.
LEMMA WalkedLess ==
    ASSUME TransferInv, phase = "dma", emmc
    PROVE  busAt.done <= Transfer!Extent
<1>1. PICK n \in Nat \ {0} : n = request.DataLen /\ n \in AnyLength
  BY TableIs DEF TransferInv, RequestTyped
<1>2. PICK b \in Nat : b = Transfer!BytCnt(n) /\ n <= b
  BY <1>1, TableIs
<1>3. PICK e \in Nat \ {0} : e = Transfer!Up(n, DmaBufSize) /\ DmaBufSize * (e - 1) < n
  BY <1>1, TableIs
<1>4. Transfer!Extent = b
  BY <1>1, <1>2, ExtentIs
<1>5. PICK i \in 0 .. e : i = idmac
  BY <1>1, <1>3 DEF TransferInv, TableTyped
<1>6. busAt.done = IF i = 0 THEN b ELSE DmaBufSize * (i - 1)
  BY <1>1, <1>2, <1>5 DEF TransferInv, DmaData, TableRight
<1>7. CASE i # 0
  <2>1. DmaBufSize * (i - 1) <= DmaBufSize * (e - 1)
    BY <1>5, <1>7, NumbersAre, TimesMore
  <2>2. DmaBufSize * (i - 1) \in Int /\ DmaBufSize * (e - 1) \in Int
    BY <1>1, <1>3, <1>5, TableIs
  <2> QED BY <1>2, <1>3, <1>4, <1>6, <1>7, <2>1, <2>2
<1> QED BY <1>4, <1>6, <1>7

\* The descriptors of a table are written before the DMA starts.
LEMMA DescTableIs ==
    ASSUME NEW n \in AnyLength, NEW e \in Nat, e = Transfer!Up(n, DmaBufSize)
    PROVE  /\ Transfer!DescTable(n) \in
                  [1 .. e -> [own : BOOLEAN, last : BOOLEAN, address : Int, size : Int,
                              next : 0 .. e]]
           /\ \A i \in 1 .. e :
                 /\ Transfer!DescTable(n)[i].address = DmaBufSize * (i - 1)
                 /\ Transfer!DescTable(n)[i].last = (i = e)
                 /\ Transfer!DescTable(n)[i].size =
                        IF i = e THEN Transfer!BytCnt(n) - DmaBufSize * (e - 1) ELSE DmaBufSize
                 /\ Transfer!DescTable(n)[i].next = IF i = e THEN 0 ELSE i + 1
<1> DEFINE address(i) == DmaBufSize * (i - 1)
           size(i) == IF i = e THEN Transfer!BytCnt(n) - DmaBufSize * (e - 1) ELSE DmaBufSize
           next(i) == IF i = e THEN 0 ELSE i + 1
           d(i) == [own |-> TRUE, last |-> i = e, address |-> address(i), size |-> size(i),
                    next |-> next(i)]
           t == Transfer!DescTable(n)
<1>1. t = [i \in 1 .. e |-> d(i)]
  BY DEF Transfer!DescTable
<1>2. \A i \in 1 .. e : address(i) \in Int /\ size(i) \in Int /\ next(i) \in 0 .. e
  <2> SUFFICES ASSUME NEW i \in 1 .. e
               PROVE  address(i) \in Int /\ size(i) \in Int /\ next(i) \in 0 .. e
    OBVIOUS
  <2>1. i - 1 \in Int /\ e - 1 \in Int
    OBVIOUS
  <2>2. DmaBufSize * (i - 1) \in Int /\ DmaBufSize * (e - 1) \in Int
    BY <2>1, TableIs
  <2> QED BY <2>2, TableIs
<1> HIDE DEF address, size, next, t
<1>3. \A i \in 1 .. e :
         d(i) \in [own : BOOLEAN, last : BOOLEAN, address : Int, size : Int, next : 0 .. e]
  BY <1>2
<1>4. t \in [1 .. e -> [own : BOOLEAN, last : BOOLEAN, address : Int, size : Int, next : 0 .. e]]
  BY <1>1, <1>3
<1>5. \A i \in 1 .. e : /\ t[i].address = address(i) /\ t[i].last = (i = e)
                        /\ t[i].size = size(i) /\ t[i].next = next(i)
  BY <1>1
<1> QED BY <1>4, <1>5 DEF address, size, next, t

\* A transfer by DMA is made ready.
LEMMA BuildDmaDescTableKeeps ==
    ASSUME TransferInv, NEW read \in BOOLEAN, NEW n \in DmaLengths,
           Transfer!BuildDmaDescTable(read, n)
    PROVE  TransferInv'
<1>1. /\ emmc /\ UNCHANGED <<emmc, clock, received, timeout, intsts, full, fifo, bad, dirty>>
      /\ request' = [Read |-> read, DataLen |-> n, UseBE |-> FALSE]
      /\ bytes' = [o \in Transfer!Around |-> IF ~read /\ o \in 0 .. n - 1 THEN o + 1 ELSE 0]
      /\ table' = Transfer!DescTable(n) /\ idmac' = 1 /\ bits' = bits \ {"RI"} /\ sent' = <<>>
      /\ \/ phase' = "dma" /\ status' = "none"
            /\ busAt' = [Transfer!NoBus EXCEPT !.dir = IF read THEN "in" ELSE "out",
                                               !.todo = Transfer!BytCnt(n)]
         \/ phase' = "idle" /\ status' = "OUT_OF_RESOURCES" /\ busAt' = busAt
  BY DEF Transfer!BuildDmaDescTable, Transfer!local, Transfer!Ends
<1>2. request'.Read = read /\ request'.DataLen = n /\ request'.UseBE = FALSE
  BY <1>1
<1>3. /\ n \in AnyLength /\ n \in Nat \ {0}
      /\ Transfer!BytCnt(n) \in Nat /\ n <= Transfer!BytCnt(n)
  BY NumbersAre, TableIs
<1>4. PICK e \in Nat \ {0} : e = Transfer!Up(n, DmaBufSize)
  BY <1>3, TableIs
<1>5. phase' = "dma" =>
         busAt' = [dir |-> IF read THEN "in" ELSE "out", cmd |-> FALSE, done |-> 0,
                   todo |-> Transfer!BytCnt(n), over |-> FALSE]
  BY <1>1 DEF Transfer!NoBus
<1>6. RequestTyped'
  <2>1. emmc' = TRUE /\ phase' \in {"dma", "idle"} /\ status' \in {"none", "OUT_OF_RESOURCES"}
    BY <1>1 DEF TransferInv, RequestTyped
  <2>2. AnyLength' = AnyLength
    BY DEF AnyLength
  <2> QED BY <1>2, <1>3, <2>1, <2>2 DEF RequestTyped
<1>7. LoopTyped'
  <2>1. intsts' \subseteq Flags' /\ bits' \subseteq Flags'
    BY <1>1 DEF TransferInv, LoopTyped, Flags, Transfer!Errors
  <2>2. Transfer!Longest' = Transfer!Longest
    BY DEF Transfer!Longest
  <2> QED BY <1>1, <2>1, <2>2 DEF TransferInv, LoopTyped, Polls
<1>8. WireTyped'
  <2>1. busAt' \in BusStates /\ ~busAt'.cmd /\ ~busAt'.over
    <3>1. CASE phase' = "dma"
      <4>1. PICK dir \in {"in", "out"} : dir = IF read THEN "in" ELSE "out"
        OBVIOUS
      <4>2. busAt' = [dir |-> dir, cmd |-> FALSE, done |-> 0, todo |-> Transfer!BytCnt(n),
                      over |-> FALSE]
        BY <1>5, <3>1, <4>1
      <4> QED BY <1>3, <4>2 DEF BusStates
    <3>2. CASE phase' = "idle"
      BY <1>1, <3>2 DEF TransferInv, WireTyped
    <3> QED BY <1>1, <3>1, <3>2
  <2> QED BY <1>1, <2>1 DEF TransferInv, WireTyped, InTransfer, Polls
<1>9. TableTyped'
  <2>1. Transfer!Up(request'.DataLen, DmaBufSize) = e
    BY <1>2, <1>4
  <2>2. table' \in [1 .. e -> [own : BOOLEAN, last : BOOLEAN, address : Int, size : Int,
                               next : 0 .. e]]
    BY <1>1, <1>3, <1>4, DescTableIs
  <2>3. idmac' \in 0 .. e
    BY <1>1, <1>4
  <2>4. Transfer!Up(request.DataLen, DmaBufSize)' = e
    BY <2>1 DEF Transfer!Up
  <2> QED BY <2>2, <2>3, <2>4 DEF TableTyped
<1>10. Fresh' /\ Clean' /\ (read => Filled(0)')
  <2>1. Transfer!Around' = Transfer!Around
    BY DEF Transfer!Around, Transfer!Longest
  <2>2. Fresh'
    BY <1>1, <1>2, <2>1 DEF Fresh
  <2>3. \A o \in Transfer!Around : o \in Int
    BY NumbersAre DEF Transfer!Around
  <2>4. ASSUME read
        PROVE  Filled(0)'
    BY <1>1, <2>1, <2>4 DEF Filled
  <2>5. Transfer!Extent' = Transfer!BytCnt(n)
    <3>1. Transfer!BytCnt(request.DataLen)' = Transfer!BytCnt(n)
      BY <1>2
    <3> QED BY <1>1, <3>1 DEF Transfer!Extent
  <2>6. Clean'
    BY <1>1, <1>3, <2>1, <2>3, <2>5 DEF Clean
  <2> QED BY <2>2, <2>4, <2>6
<1>11. DmaData'
  <2>1. CASE phase' = "idle"
    BY <1>1, <1>10, <2>1 DEF DmaData
  <2>2. CASE phase' = "dma"
    <3> SUFFICES TableRight' /\ Walked'
      BY <1>1, <2>2 DEF DmaData
    <3>1. PICK b \in Nat : b = Transfer!BytCnt(n) /\ b = Transfer!BytCnt(request.DataLen)'
      BY <1>2, <1>3
    <3>2. Transfer!Up(request.DataLen, DmaBufSize)' = e
      BY <1>2, <1>4 DEF Transfer!Up
    <3>3. \A i \in 1 .. e :
              /\ table'[i].address = DmaBufSize * (i - 1) /\ table'[i].last = (i = e)
              /\ table'[i].size = IF i = e THEN b - DmaBufSize * (e - 1) ELSE DmaBufSize
              /\ table'[i].next = IF i = e THEN 0 ELSE i + 1
      BY <1>1, <1>3, <1>4, <3>1, DescTableIs
    <3>4. busAt'.todo = b /\ busAt'.done = 0 /\ DmaBufSize * (1 - 1) = 0
      BY <1>5, <2>2, <3>1, NumbersAre
    <3>5. SentBytes(0)'
      BY <1>1, EmptySeq DEF SentBytes
    <3>6. idmac' = 1 /\ "RI" \notin bits'
      BY <1>1
    <3>7. IF read THEN Filled(busAt.done)' ELSE Fresh' /\ SentBytes(busAt.done)'
      BY <1>10, <3>4, <3>5
    <3>8. TableRight'
      BY <3>1, <3>2, <3>3, <3>4, <3>6 DEF TableRight
    <3> QED BY <1>2, <3>7, <3>8 DEF Walked
  <2> QED BY <1>1, <2>1, <2>2
<1> QED BY <1>1, <1>6, <1>7, <1>8, <1>9, <1>11, DmaSide

\* One sequence behind another.
LEMMA JoinIs ==
    ASSUME NEW t \in Seq(Int), NEW s \in Seq(Int)
    PROVE  /\ t \o s \in Seq(Int) /\ Len(t \o s) = Len(t) + Len(s)
           /\ \A k \in 1 .. Len(t) + Len(s) :
                 (t \o s)[k] = IF k <= Len(t) THEN t[k] ELSE s[k - Len(t)]
<1>1. t \o s \in Seq(Int) /\ Len(t \o s) = Len(t) + Len(s)
  BY SMTT(30)
<1>2. ASSUME NEW k \in 1 .. Len(t) + Len(s)
      PROVE  (t \o s)[k] = IF k <= Len(t) THEN t[k] ELSE s[k - Len(t)]
  BY SMTT(30)
<1> QED BY <1>1, <1>2

\* The DMA works through a descriptor.
LEMMA IdmacKeeps ==
    ASSUME TransferInv, Transfer!Idmac
    PROVE  TransferInv'
<1>1. phase = "dma" /\ idmac # 0
  BY DEF Transfer!Idmac
<1>2. /\ emmc /\ request.DataLen \in AnyLength /\ ~request.UseBE /\ request.Read \in BOOLEAN
      /\ busAt \in BusStates /\ ~busAt.cmd /\ ~busAt.over
  BY <1>1 DEF TransferInv, RequestTyped, WireTyped, FifoPhases, BeforeCommand
<1>3. PICK n \in Nat \ {0} : n = request.DataLen /\ n \in AnyLength
  BY <1>2, TableIs
<1>4. PICK e \in Nat \ {0} : e = Transfer!Up(n, DmaBufSize)
  BY <1>3, TableIs
<1>22. PICK b \in Nat : b = Transfer!BytCnt(n) /\ n <= b
  BY <1>3, TableIs
<1>5. /\ table \in [1 .. e -> [own : BOOLEAN, last : BOOLEAN, address : Int, size : Int,
                               next : 0 .. e]]
      /\ idmac \in 0 .. e
  BY <1>1, <1>3, <1>4 DEF TransferInv, TableTyped
<1>6. PICK i \in 1 .. e : i = idmac
  BY <1>1, <1>5
<1>7. PICK d : d = table[i]
  OBVIOUS
<1>8. d \in [own : BOOLEAN, last : BOOLEAN, address : Int, size : Int, next : 0 .. e]
  BY <1>5, <1>7
<1>9. PICK done \in Int : done = busAt.done
  BY <1>2 DEF BusStates
<1>10. busAt.todo \in Int
  BY <1>2 DEF BusStates
<1>11. PICK count \in Int : count = Transfer!Least(d.size, busAt.todo - busAt.done)
  <2>1. Transfer!Least(d.size, busAt.todo - busAt.done) \in Int
    BY <1>8, <1>9, <1>10 DEF Transfer!Least
  <2> QED BY <2>1
<1>12. /\ UNCHANGED <<emmc, clock, phase, request, received, timeout, intsts, full, status, fifo,
                      dirty, bad>>
       /\ bytes' = [o \in Transfer!Around |->
                      IF request.Read /\ o \in d.address .. d.address + count - 1
                      THEN done + o - d.address + 1 ELSE bytes[o]]
       /\ sent' = IF request.Read THEN sent
                  ELSE sent \o [k \in 1 .. count |-> bytes[d.address + k - 1]]
       /\ busAt' = [busAt EXCEPT !.done = @ + count]
       /\ idmac' = d.next
       /\ bits' = bits \cup (IF d.last THEN {"RI"} ELSE {})
       /\ table' = [table EXCEPT ![i].own = FALSE]
  BY <1>6, <1>7, <1>9, <1>11 DEF Transfer!Idmac, Transfer!local, Transfer!Raise
<1>13. RequestTyped'
  BY <1>12 DEF TransferInv, RequestTyped
<1>14. LoopTyped'
  <2>1. intsts' \subseteq Flags' /\ bits' \subseteq Flags'
    BY <1>12 DEF TransferInv, LoopTyped, Flags, Transfer!Errors
  <2>2. Transfer!Longest' = Transfer!Longest
    BY DEF Transfer!Longest
  <2> QED BY <1>1, <1>12, <2>1, <2>2 DEF TransferInv, LoopTyped, Polls
<1>15. /\ busAt' \in BusStates /\ busAt'.done = done + count /\ busAt'.todo = busAt.todo
       /\ busAt'.cmd = busAt.cmd /\ busAt'.over = busAt.over
  BY <1>2, <1>9, <1>12 DEF BusStates
<1>16. WireTyped'
  BY <1>1, <1>2, <1>12, <1>15 DEF TransferInv, WireTyped, InTransfer, Polls
<1>17. Transfer!Up(request.DataLen, DmaBufSize)' = e
  BY <1>3, <1>4, <1>12 DEF Transfer!Up
<1>18. table' \in [1 .. e -> [own : BOOLEAN, last : BOOLEAN, address : Int, size : Int,
                              next : 0 .. e]]
       /\ \A j \in 1 .. e : /\ table'[j].address = table[j].address
                            /\ table'[j].last = table[j].last /\ table'[j].size = table[j].size
                            /\ table'[j].next = table[j].next
  BY ZenonT(60), <1>5, <1>12
<1>19. TableTyped'
  <2>1. idmac' \in 0 .. e
    BY <1>8, <1>12
  <2> QED BY <1>17, <1>18, <2>1 DEF TableTyped
<1>20. TableRight' /\ Walked'
  <2>1. Transfer!BytCnt(request.DataLen)' = b
    BY <1>3, <1>12, <1>22
  <2>2. TableRight /\ Walked
    BY <1>1, <1>2 DEF TransferInv, DmaData
  <2>3. \A j \in 1 .. e :
            /\ table[j].address = DmaBufSize * (j - 1) /\ table[j].last = (j = e)
            /\ table[j].size = IF j = e THEN b - DmaBufSize * (e - 1) ELSE DmaBufSize
            /\ table[j].next = IF j = e THEN 0 ELSE j + 1
    BY <1>3, <1>4, <1>22, <2>2 DEF TableRight
  <2>4. /\ busAt.todo = b /\ done = DmaBufSize * (i - 1) /\ "RI" \notin bits
        /\ IF request.Read THEN Filled(done) ELSE Fresh /\ SentBytes(done)
    BY <1>3, <1>6, <1>9, <1>22, <2>2 DEF TableRight, Walked
  <2>5. /\ DmaBufSize \in Nat \ {0} /\ DmaBufSize * (e - 1) < n /\ done \in Nat
        /\ i # e => DmaBufSize * i < n
        /\ DmaBufSize * i = done + DmaBufSize
    <3>1. DmaBufSize \in Nat \ {0} /\ DmaBufSize * (e - 1) < n
      BY <1>3, <1>4, TableIs
    <3>2. i - 1 \in Nat /\ DmaBufSize * (i - 1) \in Nat
      BY <3>1
    <3>3. DmaBufSize * i = DmaBufSize * (i - 1) + DmaBufSize
      BY <3>1
    <3>4. ASSUME i # e
          PROVE  DmaBufSize * i < n
      <4>1. i \in Nat /\ e - 1 \in Nat /\ i <= e - 1
        BY <3>4
      <4>2. DmaBufSize * i <= DmaBufSize * (e - 1)
        BY <3>1, <4>1, TimesMore
      <4>3. DmaBufSize * i \in Int /\ DmaBufSize * (e - 1) \in Int
        BY <3>1
      <4> QED BY <3>1, <4>2, <4>3
    <3> QED BY <2>4, <3>1, <3>2, <3>3, <3>4
  <2>6. /\ count \in Nat /\ done + count = IF i = e THEN b ELSE DmaBufSize * i
        /\ done + count <= b /\ d.address = done
        /\ idmac' = (IF i = e THEN 0 ELSE i + 1) /\ (d.last <=> i = e)
    <3>1. d.size = (IF i = e THEN b - done ELSE DmaBufSize)
      <4>1. i = e => DmaBufSize * (e - 1) = done
        BY <2>4
      <4> QED BY <1>7, <2>3, <4>1
    <3>2. d.address = done /\ idmac' = (IF i = e THEN 0 ELSE i + 1) /\ (d.last <=> i = e)
      BY <1>7, <1>12, <2>3, <2>4
    <3>3. count = IF d.size < b - done THEN d.size ELSE b - done
      BY <1>9, <1>11, <2>4 DEF Transfer!Least
    <3>4. CASE i = e
      <4>1. done < b
        BY <1>22, <2>4, <2>5, <3>4
      <4> QED BY <1>22, <2>5, <3>1, <3>2, <3>3, <3>4, <4>1
    <3>5. CASE i # e
      <4>1. done + DmaBufSize < b
        BY <1>22, <2>5, <3>5
      <4> QED BY <1>22, <2>5, <3>1, <3>2, <3>3, <3>5, <4>1
    <3> QED BY <3>4, <3>5
  <2>7. busAt'.todo = b /\ busAt'.done = (IF idmac' = 0 THEN b ELSE DmaBufSize * (idmac' - 1))
    <3>1. CASE i = e
      BY <1>15, <2>4, <2>6, <3>1
    <3>2. CASE i # e
      <4>1. idmac' # 0 /\ idmac' - 1 = i
        BY <2>6, <3>2
      <4> QED BY <1>15, <2>4, <2>6, <3>2, <4>1
    <3> QED BY <3>1, <3>2
  <2>8. "RI" \in bits' => idmac' = 0
    BY <1>12, <2>4, <2>6
  <2>9. Transfer!Around \subseteq Int /\ Transfer!Around' = Transfer!Around
    <3>1. Transfer!Around \subseteq Int
      BY NumbersAre DEF Transfer!Around
    <3>2. Transfer!Around' = Transfer!Around
      BY DEF Transfer!Around, Transfer!Longest
    <3> QED BY <3>1, <3>2
  <2>10. PICK upto \in Nat : upto = done + count
    BY <2>5, <2>6
  <2>13. TableRight'
    BY <1>12, <1>17, <1>18, <2>1, <2>3, <2>7, <2>8 DEF TableRight
  <2>11. CASE request.Read
    <3>1. Filled(upto)'
      <4> SUFFICES ASSUME NEW o \in Transfer!Around
                   PROVE  bytes'[o] = IF o \in 0 .. upto - 1 THEN o + 1 ELSE 0
        <5>1. \A o \in Transfer!Around : Transfer!Mirror(o)' = o
          BY <1>2, <1>12, <2>9, SameLength DEF Transfer!Mirror
        <5> QED BY <2>9, <5>1 DEF Filled
      <4>1. bytes[o] = IF o \in 0 .. done - 1 THEN o + 1 ELSE 0
        <5>1. Transfer!Mirror(o) = o
          BY <1>2 DEF Transfer!Mirror
        <5> QED BY <2>4, <2>11, <5>1 DEF Filled
      <4>2. bytes'[o] = IF o \in done .. upto - 1 THEN o + 1 ELSE bytes[o]
        <5>1. bytes'[o] = IF o \in d.address .. d.address + count - 1
                          THEN done + o - d.address + 1 ELSE bytes[o]
          BY <1>12, <2>11
        <5>2. o \in Int
          BY <2>9
        <5> QED BY <2>5, <2>6, <2>10, <5>1, <5>2
      <4>3. o \in Int /\ done <= upto
        BY <2>5, <2>6, <2>9, <2>10
      <4> QED BY <2>5, <4>1, <4>2, <4>3
    <3>2. Filled(busAt.done)'
      BY <1>15, <2>10, <3>1
    <3> QED BY <1>12, <2>11, <2>13, <3>2 DEF Walked
  <2>12. CASE ~request.Read
    <3>1. /\ Fresh /\ sent \in Seq(Int) /\ Len(sent) = done
          /\ \A k \in 1 .. done : k <= n => sent[k] = k
      BY <1>3, <2>4, <2>12 DEF SentBytes
    <3>2. PICK s : s = [k \in 1 .. count |-> bytes[d.address + k - 1]]
      OBVIOUS
    <3>3. ASSUME NEW k \in 1 .. count
          PROVE  s[k] \in Int /\ (done + k <= n => s[k] = done + k)
      <4>1. PICK o \in 0 .. b - 1 : o = done + k - 1 /\ o = d.address + k - 1
        BY <2>5, <2>6
      <4>2. o \in Transfer!Around
        BY <1>3, <1>22, AroundIs
      <4>3. bytes[o] = IF o \in 0 .. n - 1 THEN o + 1 ELSE 0
        BY <1>3, <2>12, <3>1, <4>2 DEF Fresh
      <4>4. s[k] = bytes[o]
        BY <3>2, <4>1
      <4> QED BY <2>5, <4>1, <4>3, <4>4
    <3>4. s \in Seq(Int) /\ Len(s) = count
      <4>2. \A k \in 1 .. count : s[k] \in Int
        BY <3>3
      <4>3. s = [k \in 1 .. count |-> s[k]]
        BY <3>2
      <4>1. s \in [1 .. count -> Int]
        BY <4>2, <4>3
      <4> QED BY <2>6, <4>1
    <3>5. sent' = sent \o s
      BY <1>12, <2>12, <3>2
    <3>6. sent' \in Seq(Int) /\ Len(sent') = done + count
          /\ \A k \in 1 .. done + count :
                sent'[k] = IF k <= done THEN sent[k] ELSE s[k - done]
      <4>1. PICK t \in Seq(Int) : t = sent /\ Len(t) = done
        BY <3>1
      <4>2. t \o s \in Seq(Int) /\ Len(t \o s) = Len(t) + Len(s)
            /\ \A k \in 1 .. Len(t) + Len(s) :
                  (t \o s)[k] = IF k <= Len(t) THEN t[k] ELSE s[k - Len(t)]
        BY <3>4, JoinIs
      <4> QED BY <3>4, <3>5, <4>1, <4>2
    <3>7. ASSUME NEW k \in 1 .. done + count, k <= n
          PROVE  sent'[k] = k
      <4>1. CASE k <= done
        BY <2>5, <3>1, <3>6, <3>7, <4>1
      <4>2. CASE ~(k <= done)
        <5>1. k - done \in 1 .. count /\ done + (k - done) = k
          BY <2>5, <2>6, <4>2
        <5>2. s[k - done] = k
          BY <3>3, <3>7, <5>1
        <5> QED BY <3>6, <4>2, <5>2
      <4> QED BY <4>1, <4>2
    <3>8. Fresh'
      <4>1. \A o \in Transfer!Around : bytes'[o] = bytes[o]
        BY <1>12, <2>12
      <4> QED BY <1>12, <2>9, <3>1, <4>1 DEF Fresh
    <3>9. SentBytes(busAt.done)'
      BY <1>3, <1>12, <1>15, <3>6, <3>7 DEF SentBytes
    <3> QED BY <1>12, <2>12, <2>13, <3>8, <3>9 DEF Walked
  <2> QED BY <1>2, <2>11, <2>12
<1>21. DmaData'
  <2>1. status = "none"
    BY <1>1, <1>2 DEF TransferInv, DmaData
  <2> QED BY <1>1, <1>12, <1>20, <2>1 DEF DmaData
<1> QED BY <1>2, <1>12, <1>13, <1>14, <1>16, <1>19, <1>21, DmaSide

\* DwMmcCheckTrbResult finds the interrupt of the last descriptor.
LEMMA CheckDmaKeeps ==
    ASSUME TransferInv, Transfer!CheckDma
    PROVE  TransferInv'
<1>1. /\ phase = "dma" /\ phase' = "idle" /\ status' = "SUCCESS" /\ "RI" \in bits
      /\ bits' = bits \ {"RI"} /\ busAt' = Transfer!NoBus
      /\ UNCHANGED <<emmc, clock, request, bytes, received, timeout, intsts, full, fifo, sent, bad,
                     table, idmac, dirty>>
  BY DEF Transfer!CheckDma, Transfer!local, Transfer!dma, Transfer!Ends
<1>2. emmc /\ request.DataLen \in AnyLength /\ request.Read \in BOOLEAN
  BY <1>1 DEF TransferInv, RequestTyped, FifoPhases, BeforeCommand
<1>3. RequestTyped'
  BY <1>1 DEF TransferInv, RequestTyped
<1>4. LoopTyped'
  <2>1. intsts' \subseteq Flags' /\ bits' \subseteq Flags'
    BY <1>1 DEF TransferInv, LoopTyped, Flags, Transfer!Errors
  <2>2. Transfer!Longest' = Transfer!Longest
    BY DEF Transfer!Longest
  <2> QED BY <1>1, <2>1, <2>2 DEF TransferInv, LoopTyped, Polls
<1>5. WireTyped'
  BY <1>1, <1>2, NoBusIs DEF TransferInv, WireTyped, InTransfer, Polls
<1>6. TableTyped'
  BY <1>1 DEF TableTyped
<1>7. /\ Clean'
      /\ IF request.Read THEN Filled(Transfer!Extent)' ELSE SentBytes(Transfer!Extent)'
  <2>1. TableRight /\ Walked
    BY <1>1, <1>2 DEF TransferInv, DmaData
  <2>2. PICK n \in Nat : n = busAt.done /\ n = Transfer!Extent
    <3>1. Transfer!Extent \in Nat /\ Transfer!Extent = Transfer!BytCnt(request.DataLen)
      BY <1>2, LongestIs, ExtentIs
    <3> QED BY <1>1, <2>1, <3>1 DEF TableRight
  <2>3. RequestTyped
    BY DEF TransferInv
  <2>4. CASE request.Read
    <3>1. Filled(n)
      BY <2>1, <2>2, <2>4 DEF Walked
    <3>2. Clean
      BY <2>2, <2>3, <3>1, CleanSoFar
    <3>3. Filled(Transfer!Extent)
      BY <2>2, <3>1
    <3> QED BY <1>1, <2>4, <3>2, <3>3, WordsKept
  <2>5. CASE ~request.Read
    <3>1. Fresh /\ SentBytes(n)
      BY <2>1, <2>2, <2>5 DEF Walked
    <3>2. SentBytes(Transfer!Extent) /\ Clean
      BY <2>2, <2>3, <3>1, CleanSoFar
    <3> QED BY <1>1, <2>5, <3>2, WordsKept, SentKept
  <2> QED BY <1>2, <2>4, <2>5
<1>9. DmaData'
  BY <1>1, <1>7 DEF DmaData
<1> QED BY <1>1, <1>2, <1>3, <1>4, <1>5, <1>6, <1>9, DmaSide

\* Whatever step is taken, the invariant is kept.
LEMMA TransferInvNext ==
    ASSUME TransferInv, [Transfer!Next]_(Transfer!vars)
    PROVE  TransferInv'
<1>1. CASE Transfer!DwMmcHcClockSupply
  BY <1>1, ClockSupplyKeeps
<1>2. CASE Transfer!DwSdExecTrb
  <2>1. CASE \E read, be \in BOOLEAN, n \in Lengths : Transfer!Request(read, n, be)
    BY <2>1, RequestKeeps
  <2> QED BY <1>2, <2>1, BeforeCommandKeeps, IssueKeeps, CommandPollKeeps
      DEF Transfer!DwSdExecTrb
<1>3. CASE Transfer!TransferFifo
  BY <1>3, LooksKeep, MoveInKeeps, MoveOutKeeps, PushWordKeeps DEF Transfer!TransferFifo
<1>4. CASE Transfer!CheckFifo
  BY <1>4, CheckFifoKeeps
<1>5. CASE Transfer!Fifo
  BY <1>5, RaisingKeeps, CardSendsKeeps, CardTakesKeeps, DataOverKeeps, AutoStopKeeps,
     StutterKeeps
  DEF Transfer!Fifo
<1>6. CASE Transfer!Dma
  <2>1. CASE \E read \in BOOLEAN, n \in DmaLengths : Transfer!BuildDmaDescTable(read, n)
    BY <2>1, BuildDmaDescTableKeeps
  <2> QED BY <1>6, <2>1, IdmacKeeps, CheckDmaKeeps DEF Transfer!Dma
<1>7. CASE UNCHANGED Transfer!vars
  <2>1. UNCHANGED moved
    BY <1>7 DEF Transfer!vars, Transfer!driver, Transfer!local, Transfer!dma, Transfer!wire, moved
  <2> QED BY <2>1, StutterKeeps
<1> QED BY <1>1, <1>2, <1>3, <1>4, <1>5, <1>6, <1>7 DEF Transfer!Next

\* Whether the card holds its data line is yes or no.
LEMMA HeldIs ==
    /\ Transfer!Init => held \in BOOLEAN
    /\ held \in BOOLEAN /\ [Transfer!Next]_(Transfer!vars) => held' \in BOOLEAN
<1>1. ASSUME held \in BOOLEAN, Transfer!Fifo
      PROVE  held' \in BOOLEAN
  BY <1>1
  DEF Transfer!Fifo, Transfer!CommandDone, Transfer!CardSends, Transfer!CardTakes,
      Transfer!RequestData, Transfer!DataOver, Transfer!AutoStop, Transfer!BusError,
      Transfer!CardReady, Transfer!MayHold
<1>2. ASSUME Transfer!DwMmcHcClockSupply \/ Transfer!DwSdExecTrb \/ Transfer!TransferFifo
             \/ Transfer!CheckFifo \/ Transfer!Dma \/ UNCHANGED Transfer!vars
      PROVE  held' = held
  BY <1>2
  DEF Transfer!DwMmcHcClockSupply, Transfer!DwSdExecTrb, Transfer!TransferFifo,
      Transfer!CheckFifo, Transfer!Dma, Transfer!vars, Transfer!Request, Transfer!WaitIdle,
      Transfer!ClearInterrupts, Transfer!FifoReset, Transfer!Issue, Transfer!CommandPoll,
      Transfer!Poll, Transfer!MoveIn, Transfer!MoveOut, Transfer!PushWord, Transfer!Reread,
      Transfer!BuildDmaDescTable, Transfer!Idmac, Transfer!CheckDma
<1>3. Transfer!Init => held \in BOOLEAN
  BY DEF Transfer!Init
<1> QED BY <1>1, <1>2, <1>3 DEF Transfer!Next

\* The invariant says that the data is exact.
LEMMA TransferInvSays ==
    ASSUME TransferInv, held \in BOOLEAN
    PROVE  DataExact
<1>1. Transfer!TypeOK
  BY DEF TransferInv, RequestTyped, LoopTyped, WireTyped, FifoPhases, BeforeCommand, Flags,
     Transfer!TypeOK
<1>2. /\ request.DataLen \in Nat /\ request.DataLen \in AnyLength \cup {0}
      /\ request.Read \in BOOLEAN /\ emmc \in BOOLEAN /\ (emmc => ~request.UseBE)
      /\ phase \in {"idle"} \cup (IF emmc THEN {"dma"} ELSE FifoPhases)
      /\ RequestTyped
  BY DEF TransferInv, RequestTyped
<1>3. /\ Transfer!Extent \in Nat /\ request.DataLen <= Transfer!Extent
      /\ ~emmc => Transfer!Extent = Rounded /\ Transfer!Unit = 4
      /\ emmc => Transfer!Unit = 1
  BY <1>2, ExtentIs
<1>4. ASSUME ~dirty
      PROVE  /\ Clean
             /\ status = "SUCCESS" =>
                   IF request.Read THEN Filled(Transfer!Extent)
                   ELSE IF emmc THEN SentBytes(Transfer!Extent) ELSE SentAll
  <2>1. CASE phase = "idle"
    BY <1>2, <1>3, <1>4, <2>1 DEF TransferInv, FifoData, DmaData
  <2>2. CASE phase \in BeforeCommand
    BY <1>2, <1>4, <2>2, CleanSoFar DEF TransferInv, FifoData, BeforeCommand
  <2>3. CASE phase \in InTransfer
    BY <1>2, <1>4, <2>3, SoFarClean DEF TransferInv, FifoData, InTransfer, Polls
  <2>4. CASE phase = "dma"
    <3>1. emmc /\ TableRight /\ Walked /\ status = "none"
      BY <1>2, <2>4 DEF TransferInv, DmaData, FifoPhases, BeforeCommand
    <3>2. CASE request.Read
      <4>1. PICK n \in Int : n = busAt.done
        BY DEF TransferInv, WireTyped, BusStates
      <4>2. Filled(n)
        BY <3>1, <3>2, <4>1 DEF Walked
      <4>3. n <= Transfer!Extent
        BY <1>2, <2>4, <3>1, <4>1, WalkedLess
      <4> QED BY <1>2, <3>1, <4>2, <4>3, CleanSoFar
    <3>3. CASE ~request.Read
      BY <1>2, <3>1, <3>3, CleanSoFar DEF Walked
    <3> QED BY <1>2, <3>2, <3>3
  <2> QED BY <1>2, <2>1, <2>2, <2>3, <2>4 DEF FifoPhases, InTransfer, Polls
<1>5. Transfer!DataExact
  <2> SUFFICES ASSUME ~dirty
               PROVE  /\ \A o \in Transfer!Around \ (0 .. Transfer!Extent - 1) : bytes[o] = 0
                      /\ status = "SUCCESS" =>
                            IF request.Read
                            THEN \A k \in 0 .. request.DataLen - 1 :
                                    bytes[Transfer!Mirror(k)] = k + 1
                            ELSE /\ Len(sent) = Transfer!Extent \div Transfer!Unit
                                 /\ \A k \in 1 .. Transfer!Up(request.DataLen, Transfer!Unit) :
                                       sent[k] = Transfer!Unit * (k - 1) + 1
    BY DEF Transfer!DataExact
  <2>1. \A o \in Transfer!Around \ (0 .. Transfer!Extent - 1) : bytes[o] = 0
    BY <1>4 DEF Clean
  <2>2. ASSUME status = "SUCCESS", request.Read, NEW k \in 0 .. request.DataLen - 1
        PROVE  bytes[Transfer!Mirror(k)] = k + 1
    <3>1. Filled(Transfer!Extent)
      BY <1>4, <2>2
    <3>2. /\ Transfer!Mirror(Transfer!Mirror(k)) = k /\ k \in 0 .. Transfer!Extent - 1
          /\ Transfer!Mirror(k) \in Transfer!Around
      <4>1. k \in Int /\ k \in 0 .. Transfer!Extent - 1
        BY <1>2, <1>3
      <4>2. Transfer!Mirror(Transfer!Mirror(k)) = k
        BY <1>2, <4>1, MirrorIs
      <4>3. Transfer!Mirror(k) \in 0 .. Transfer!Extent - 1
        <5>1. CASE emmc
          BY <1>2, <4>1, <5>1, MirrorIs
        <5>2. CASE ~emmc
          BY <1>2, <1>3, <4>1, <5>2, MirrorIs
        <5> QED BY <5>1, <5>2
      <4>4. 0 .. Transfer!Extent - 1 \subseteq Transfer!Around
        BY <1>2, AroundIs, ExtentIs DEF Rounded, WordLen
      <4> QED BY <4>1, <4>2, <4>3, <4>4
    <3> QED BY <3>1, <3>2 DEF Filled
  <2>3. ASSUME status = "SUCCESS", ~request.Read, emmc
        PROVE  /\ Len(sent) = Transfer!Extent \div Transfer!Unit
               /\ \A k \in 1 .. Transfer!Up(request.DataLen, Transfer!Unit) :
                     sent[k] = Transfer!Unit * (k - 1) + 1
    <3>1. /\ Len(sent) = Transfer!Extent /\ Transfer!Unit = 1
          /\ \A k \in 1 .. Transfer!Extent : k <= request.DataLen => sent[k] = k
      BY <1>3, <1>4, <2>3 DEF SentBytes
    <3>2. Transfer!Up(request.DataLen, 1) = request.DataLen
      BY <1>2 DEF Transfer!Up
    <3>3. Transfer!Extent \div 1 = Transfer!Extent
      BY <1>3
    <3>4. \A k \in 1 .. request.DataLen : sent[k] = 1 * (k - 1) + 1
      BY <1>2, <1>3, <3>1
    <3> QED BY <3>1, <3>2, <3>3, <3>4
  <2>4. ASSUME status = "SUCCESS", ~request.Read, ~emmc
        PROVE  /\ Len(sent) = Transfer!Extent \div Transfer!Unit
               /\ \A k \in 1 .. Transfer!Up(request.DataLen, Transfer!Unit) :
                     sent[k] = Transfer!Unit * (k - 1) + 1
    <3>1. SentAll /\ Transfer!Unit = 4 /\ Transfer!Extent = 4 * WordLen /\ WordLen \in Nat
      BY <1>2, <1>3, <1>4, <2>4, WordsAre DEF Rounded, WordLen
    <3>2. Len(sent) = WordLen /\ Follow(sent, 0)
      <4>1. 4 * Len(sent) = 4 * WordLen /\ Len(sent) \in Nat /\ Follow(sent, 0)
        BY <3>1 DEF SentAll, Rounded
      <4> QED BY <3>1, <4>1
    <3>3. (4 * WordLen) \div 4 = WordLen
      BY <3>1
    <3>4. \A k \in 1 .. WordLen : sent[k] = 4 * (k - 1) + 1
      BY <3>1, <3>2 DEF Follow
    <3> QED BY <3>1, <3>2, <3>3, <3>4 DEF WordLen
  <2> QED BY <1>2, <2>1, <2>2, <2>3, <2>4
<1> QED BY <1>1, <1>5 DEF TransferInv, DataExact

\* With the card's data line, which is the environment's.
WholeInv == TransferInv /\ held \in BOOLEAN

\* For any lengths, any depth of the FIFO, any size of a descriptor's buffer and any
\* clocks: a transfer that is told it succeeded, in TransferFifo or by the DMA, moved
\* every byte of its request once, in order and in the order of bytes asked for; none
\* wrote further than its length rounded up to words, or to blocks by the DMA; and
\* DwMmcHcClockSupply's divisor is the least that is not too fast.
THEOREM DataIsExact == Transfer!Spec => []DataExact
<1>1. Transfer!Init => WholeInv
  BY TransferInvInit, HeldIs DEF WholeInv
<1>2. WholeInv /\ [Transfer!Next]_(Transfer!vars) => WholeInv'
  BY TransferInvNext, HeldIs DEF WholeInv
<1>3. WholeInv => DataExact
  BY TransferInvSays DEF WholeInv
<1> QED BY <1>1, <1>2, <1>3, PTL DEF Transfer!Spec
=============================================================================
