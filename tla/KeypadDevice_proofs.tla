------------------------ MODULE KeypadDevice_proofs ------------------------
(***************************************************************************)
(* For all thresholds and polling times: the state of a button's context   *)
(* tells what has been reported in the press going on, so that power is    *)
(* reported once and a volume button not lost; and its Time never runs     *)
(* ahead of the time since the last report, so that repeats keep their     *)
(* pace however the polls fall.                                            *)
(***************************************************************************)
EXTENDS KeypadDevice, TLAPS

\* What a context c says of its press, with s reported in it: nothing before
\* its end or its long press, and Repeat is set by a volume button's report.
Quiet(c, s, m) == s = <<>> /\ ~c.repeat /\ ~m

LongSaid(b, c, s, m) ==
    IF b = "power"
    THEN s \in {<<"RIGHT">>, <<"LEFT">>, <<"ESC">>} /\ ~c.repeat
    ELSE \/ m /\ s = <<>> /\ ~c.repeat
         \/ ~m /\ c.repeat /\ s \in {<<OwnKey(b)>>, <<OwnKey(b), OwnKey(b)>>}

PressOK(b, c, s, m) ==
    /\ c.state = "released" => Quiet(c, s, m) /\ ~c.longpress
    /\ c.state = "pressed" => IF c.longpress THEN LongSaid(b, c, s, m)
                                             ELSE Quiet(c, s, m)
    /\ c.state = "longpressRelease" => s = <<OwnKey(b)>> /\ ~c.longpress /\ ~m

PressInv == \A b \in Buttons : PressOK(b, ctx[b], said[b], muted[b])

\* Until its long press, and while it repeats, a context's Time is not ahead
\* of n, the time since its press began or was last reported.
PaceOK(c, n) ==
    c.state = "pressed" /\ (~c.longpress \/ c.repeat) => c.time <= n

\* The pins of one poll are sampled with the time that passed before it.
PaceInv == /\ turn # 0 => delta \in Deltas
           /\ \A b \in Buttons : PaceOK(ctx[b], since[b])

IInv == TypeOK /\ PressInv /\ PaceInv

\* What RepeatPaced says of one button b: context c, reports s and time n are
\* what a step leaves it.
PacedOf(b, c, s, n) ==
    s # <<>> /\ n = 0 =>
       \/ Later(since[b]) >= IF said[b] = <<>> THEN LongNs ELSE RepeatNs
       \/ said[b] = <<>> /\ c.state = "longpressRelease"

\* What Later gives is a time and not above its cap.
LEMMA LaterTime ==
    ASSUME TypeOK, NEW t \in 0 .. LongNs
    PROVE  Later(t) \in 0 .. LongNs
  BY TimeAssumption DEF TypeOK, Later

\* Later keeps the order of two times, and is never zero once time passed.
LEMMA LaterGrows ==
    ASSUME TypeOK, NEW t \in 0 .. LongNs, NEW u \in 0 .. LongNs
    PROVE  /\ t <= u => Later(t) <= Later(u)
           /\ delta \in Deltas => Later(t) # 0
<1>1. /\ LongNs \in Nat /\ LongNs # 0 /\ t \in Nat /\ u \in Nat /\ delta \in Nat
      /\ delta \in Deltas => delta # 0
  BY TimeAssumption DEF TypeOK
<1> QED BY <1>1 DEF Later

\* Sequences of no, one or two keys.
LEMMA EmptySeq == <<>> \in Seq(ReportKeys) /\ Len(<<>>) = 0
  OBVIOUS

LEMMA ShortSeqs ==
    ASSUME NEW k \in ReportKeys
    PROVE  /\ <<k>> \in Seq(ReportKeys) /\ Len(<<k>>) = 1
           /\ <<k, k>> \in Seq(ReportKeys) /\ Len(<<k, k>>) = 2
  OBVIOUS

\* LibKeyUpdateKeyStatus moves one button's context, and with it what was
\* reported: one case per branch (KeypadDeviceImplLib.c:93-167).
UpdateOf(b, c, s, n, m) ==
    /\ ctx' = [ctx EXCEPT ![b] = c]
    /\ said' = [said EXCEPT ![b] = s]
    /\ since' = [since EXCEPT ![b] = n]
    /\ muted' = [muted EXCEPT ![b] = m]
    /\ c \in Contexts /\ s \in Seq(ReportKeys) /\ Len(s) <= 2
    /\ n \in 0 .. LongNs /\ m \in BOOLEAN
    /\ PressOK(b, c, s, m)
    /\ PaceOK(c, n) /\ PacedOf(b, c, s, n)

LEMMA UpdateKeeps ==
    ASSUME IInv, turn # 0, NEW b \in Buttons, NEW pressed \in BOOLEAN,
           LibKeyUpdateKeyStatus(b, pressed)
    PROVE  \E c, s, n, m : UpdateOf(b, c, s, n, m)
<1> DEFINE c0 == ctx[b]
           s0 == said[b]
           l0 == Later(since[b])
           m0 == muted[b]
<1>1. /\ c0 \in Contexts /\ s0 \in Seq(ReportKeys) /\ Len(s0) <= 2
      /\ since[b] \in 0 .. LongNs /\ m0 \in BOOLEAN
      /\ ctx \in [Buttons -> Contexts] /\ said \in [Buttons -> Seq(ReportKeys)]
      /\ since \in [Buttons -> 0 .. LongNs] /\ muted \in [Buttons -> BOOLEAN]
      /\ PressOK(b, c0, s0, m0) /\ PaceOK(c0, since[b])
  BY DEF IInv, TypeOK, PressInv, PaceInv
<1>2. /\ Time(b) \in 0 .. LongNs /\ l0 \in 0 .. LongNs /\ 0 \in 0 .. LongNs
  BY <1>1, LaterTime, TimeAssumption DEF Time, Contexts, IInv
<1>a. /\ l0 # 0
      /\ c0.state = "pressed" /\ (~c0.longpress \/ c0.repeat) => Time(b) <= l0
  <2>1. c0.time \in 0 .. LongNs /\ delta \in Deltas
    BY <1>1 DEF Contexts, IInv, PaceInv
  <2>2. /\ c0.time <= since[b] => Later(c0.time) <= Later(since[b])
        /\ Later(since[b]) # 0
    BY <1>1, <2>1, LaterGrows DEF IInv
  <2> QED BY <1>1, <2>2 DEF PaceOK, Time
\* A step without a report leaves either no reports or a time that is not 0.
<1>b. \A c : PacedOf(b, c, s0, l0) /\ (\A n : PacedOf(b, c, <<>>, n))
  BY <1>a DEF PacedOf
<1>3. /\ OwnKey(b) \in ReportKeys /\ PowerCombo \in ReportKeys
      /\ PowerCombo \in {"RIGHT", "LEFT", "ESC"}
  BY DEF OwnKey, Scan, Char, ReportKeys, PowerCombo, Buttons
<1>4. /\ c0.state \in States /\ c0.repeat \in BOOLEAN /\ c0.longpress \in BOOLEAN
      /\ Rest \in Contexts
  BY <1>1, <1>2 DEF Contexts, States, Rest
<1>5. CASE StayReleased(b)
  <2>1. s0 = <<>>
    BY <1>1, <1>5 DEF StayReleased, PressOK, Quiet
  <2>2. PacedOf(b, c0, s0, since[b])
    BY <1>b, <2>1
  <2>3. UpdateOf(b, c0, s0, since[b], m0)
    BY <1>1, <1>5, <2>2 DEF StayReleased, UpdateOf
  <2> QED BY <2>3
<1>6. CASE PressBegins(b)
  <2> DEFINE c == [c0 EXCEPT !.state = "pressed", !.time = 0]
  <2>1. c \in Contexts /\ c.state = "pressed" /\ c.repeat = c0.repeat
        /\ c.longpress = c0.longpress /\ c.time = 0
    BY <1>1, <1>2 DEF Contexts, States
  <2>2. PressOK(b, c, <<>>, FALSE)
    BY <1>1, <1>6, <2>1 DEF PressBegins, PressOK, Quiet
  <2> HIDE DEF c
  <2>3. UpdateOf(b, c, <<>>, 0, FALSE)
    <3>1. ctx' = [ctx EXCEPT ![b] = c] /\ c \in Contexts
      BY <1>6, <2>1 DEF PressBegins, Become, c
    <3>2. Forget(b) /\ Len(<<>>) <= 2
      BY <1>6, EmptySeq DEF PressBegins
    <3>3. /\ said' = [said EXCEPT ![b] = <<>>]
          /\ since' = [since EXCEPT ![b] = 0]
          /\ muted' = [muted EXCEPT ![b] = FALSE]
      BY <3>2 DEF Forget
    <3>4. PaceOK(c, 0)
      BY <2>1 DEF PaceOK
    <3>5. PacedOf(b, c, <<>>, 0)
      BY <1>b
    <3> QED BY <1>2, <2>2, <3>1, <3>2, <3>3, <3>4, <3>5, EmptySeq DEF UpdateOf
  <2> QED BY <2>3
<1>7. CASE KeyRepeats(b)
  <2> DEFINE c == [c0 EXCEPT !.time = 0]
             s == IF s0 = <<>> THEN <<OwnKey(b)>> ELSE <<s0[1], OwnKey(b)>>
  <2>1. c \in Contexts /\ c.state = c0.state /\ c.repeat = c0.repeat
        /\ c.longpress = c0.longpress /\ c.time = 0
    BY <1>1, <1>2 DEF Contexts, States
  <2>2. c0.longpress /\ b # "power" /\ ~m0
        /\ s0 \in {<<OwnKey(b)>>, <<OwnKey(b), OwnKey(b)>>}
    BY <1>1, <1>7 DEF KeyRepeats, MayRepeat, PressOK, Quiet, LongSaid
  <2>3. s = <<OwnKey(b), OwnKey(b)>>
    BY <2>2
  <2>4. PressOK(b, c, s, m0)
    BY <1>1, <1>7, <2>1, <2>2, <2>3
    DEF KeyRepeats, MayRepeat, PressOK, LongSaid
  <2>5. PaceOK(c, 0) /\ PacedOf(b, c, s, 0)
    <3>1. Time(b) >= RepeatNs /\ Time(b) <= l0 /\ s0 # <<>>
      BY SMTT(40), <1>a, <1>7, <2>2 DEF KeyRepeats, MayRepeat
    <3>2. l0 >= RepeatNs
      BY <1>2, <3>1, TimeAssumption
    <3> QED BY <2>1, <3>1, <3>2 DEF PaceOK, PacedOf
  <2>6. UpdateOf(b, c, s, 0, m0)
    BY <1>1, <1>2, <1>3, <1>7, <2>1, <2>3, <2>4, <2>5, ShortSeqs
    DEF KeyRepeats, Become, Report, UpdateOf
  <2> QED BY <2>6
<1>8. CASE LongPress(b)
  <2>1. c0.state = "pressed" /\ ~c0.longpress /\ s0 = <<>> /\ ~c0.repeat /\ ~m0
    BY <1>1, <1>8 DEF LongPress, IsLong, PressOK, Quiet
  <2>a. l0 >= LongNs
    <3>1. Time(b) >= LongNs /\ Time(b) <= l0
      BY <1>a, <1>8, <2>1 DEF LongPress, IsLong
    <3> QED BY <1>2, <3>1, TimeAssumption
  <2>b. \A c, s : PacedOf(b, c, s, 0)
    BY <2>1, <2>a DEF PacedOf
  <2>2. CASE b = "power" /\ Report(b, PowerCombo)
             /\ Become(b, [c0 EXCEPT !.time = Time(b), !.longpress = TRUE])
             /\ UNCHANGED muted
    <3> DEFINE c == [c0 EXCEPT !.time = Time(b), !.longpress = TRUE]
    <3>1. c \in Contexts /\ c.state = "pressed" /\ c.longpress /\ ~c.repeat
      BY <1>1, <1>2, <2>1 DEF Contexts
    <3>3. PressOK(b, c, <<PowerCombo>>, m0)
      BY <1>3, <2>2, <3>1 DEF PressOK, LongSaid
    <3>4. PaceOK(c, 0) /\ PacedOf(b, c, <<PowerCombo>>, 0)
      BY <2>b, <3>1 DEF PaceOK
    <3>5. UpdateOf(b, c, <<PowerCombo>>, 0, m0)
      BY <1>1, <1>2, <1>3, <2>1, <2>2, <3>1, <3>3, <3>4, ShortSeqs
      DEF Become, Report, UpdateOf
    <3> QED BY <3>5
  <2>3. CASE b \in Volume /\ Report(b, OwnKey(b))
             /\ Become(b, [c0 EXCEPT !.time = 0, !.repeat = TRUE, !.longpress = TRUE])
             /\ UNCHANGED muted
    <3> DEFINE c == [c0 EXCEPT !.time = 0, !.repeat = TRUE, !.longpress = TRUE]
    <3>1. c \in Contexts /\ c.state = "pressed" /\ c.longpress /\ c.repeat
          /\ c.time = 0
      BY <1>1, <1>2, <2>1 DEF Contexts
    <3>3. PressOK(b, c, <<OwnKey(b)>>, m0)
      BY <2>1, <2>3, <3>1 DEF PressOK, LongSaid, Volume
    <3>4. PaceOK(c, 0) /\ PacedOf(b, c, <<OwnKey(b)>>, 0)
      BY <2>b, <3>1 DEF PaceOK
    <3>5. UpdateOf(b, c, <<OwnKey(b)>>, 0, m0)
      BY <1>1, <1>2, <1>3, <2>1, <2>3, <3>1, <3>3, <3>4, ShortSeqs
      DEF Become, Report, UpdateOf
    <3> QED BY <3>5
  <2>4. CASE b \in Volume /\ Silent(b) /\ muted' = [muted EXCEPT ![b] = TRUE]
             /\ Become(b, [c0 EXCEPT !.time = Time(b), !.longpress = TRUE])
    <3> DEFINE c == [c0 EXCEPT !.time = Time(b), !.longpress = TRUE]
    <3>1. c \in Contexts /\ c.state = "pressed" /\ c.longpress /\ ~c.repeat
      BY <1>1, <1>2, <2>1 DEF Contexts
    <3>2. PressOK(b, c, s0, TRUE)
      BY <2>1, <2>4, <3>1 DEF PressOK, LongSaid, Volume
    <3>3. PaceOK(c, l0) /\ PacedOf(b, c, s0, l0)
      BY <1>b, <3>1 DEF PaceOK
    <3>4. UpdateOf(b, c, s0, l0, TRUE)
      BY <1>1, <1>2, <2>4, <3>1, <3>2, <3>3 DEF Become, Silent, UpdateOf
    <3> QED BY <3>4
  <2> QED BY <1>8, <2>2, <2>3, <2>4 DEF LongPress
<1>9. CASE StayPressed(b) \/ (LongPressEnds(b) /\ Time(b) < ReleaseNs)
  <2> DEFINE c == [c0 EXCEPT !.time = Time(b)]
  <2>1. c \in Contexts /\ c.state = c0.state /\ c.repeat = c0.repeat
        /\ c.longpress = c0.longpress /\ c.time = Time(b)
    BY <1>1, <1>2 DEF Contexts, States
  <2>2. PressOK(b, c, s0, m0)
    BY <1>1, <2>1 DEF PressOK, LongSaid, Quiet
  <2>3. ~(Time(b) >= ReleaseNs) \/ StayPressed(b)
    BY <1>2, <1>9, TimeAssumption
  <2>4. PaceOK(c, l0) /\ PacedOf(b, c, s0, l0)
    BY <1>a, <1>b, <2>1 DEF PaceOK
  <2>5. UpdateOf(b, c, s0, l0, m0)
    BY <1>1, <1>2, <1>9, <2>1, <2>2, <2>3, <2>4
    DEF StayPressed, LongPressEnds, Become, Silent, UpdateOf
  <2> QED BY <2>5
<1>10. CASE ShortPress(b)
  <2> DEFINE c == [c0 EXCEPT !.time = Time(b), !.state = "longpressRelease"]
  <2>1. c \in Contexts /\ c.state = "longpressRelease" /\ ~c.longpress
    BY <1>1, <1>2, <1>10 DEF ShortPress, Contexts, States
  <2>2. s0 = <<>> /\ ~m0
    BY <1>1, <1>10 DEF ShortPress, PressOK, Quiet
  <2>4. PressOK(b, c, <<OwnKey(b)>>, m0)
    BY <2>1, <2>2 DEF PressOK
  <2>5. PaceOK(c, 0) /\ PacedOf(b, c, <<OwnKey(b)>>, 0)
    BY <2>1, <2>2 DEF PaceOK, PacedOf
  <2>6. UpdateOf(b, c, <<OwnKey(b)>>, 0, m0)
    BY <1>1, <1>2, <1>3, <1>10, <2>1, <2>2, <2>4, <2>5, ShortSeqs
    DEF ShortPress, Become, Report, UpdateOf
  <2> QED BY <2>6
<1>11. CASE Become(b, Rest) /\ Forget(b)
  <2>1. PressOK(b, Rest, <<>>, FALSE)
    BY DEF PressOK, Rest, Quiet
  <2>2. ctx' = [ctx EXCEPT ![b] = Rest] /\ Len(<<>>) <= 2
    BY <1>11, EmptySeq DEF Become
  <2>3. /\ said' = [said EXCEPT ![b] = <<>>]
        /\ since' = [since EXCEPT ![b] = 0]
        /\ muted' = [muted EXCEPT ![b] = FALSE]
    BY <1>11 DEF Forget
  <2>4. PaceOK(Rest, 0) /\ PacedOf(b, Rest, <<>>, 0)
    BY <1>b DEF PaceOK, Rest
  <2>5. UpdateOf(b, Rest, <<>>, 0, FALSE)
    BY <1>2, <1>4, <2>1, <2>2, <2>3, <2>4, EmptySeq DEF UpdateOf
  <2> QED BY <2>5
<1>12. \/ StayReleased(b) \/ PressBegins(b) \/ KeyRepeats(b) \/ LongPress(b)
       \/ StayPressed(b) \/ (LongPressEnds(b) /\ Time(b) < ReleaseNs)
       \/ ShortPress(b) \/ (Become(b, Rest) /\ Forget(b))
  BY <1>2, TimeAssumption DEF LibKeyUpdateKeyStatus, LongPressEnds, ReleaseEnds
<1> QED BY <1>5, <1>6, <1>7, <1>8, <1>9, <1>10, <1>11, <1>12

\* The invariant is inductive.
LEMMA InitIInv == Init => IInv
  BY TimeAssumption
  DEF Init, IInv, TypeOK, PressInv, PressOK, Quiet, PaceInv, PaceOK, Rest, Contexts,
      States, KeyList

LEMMA NextIInv == IInv /\ [Next]_vars => IInv'
<1> SUFFICES ASSUME IInv, [Next]_vars PROVE IInv'
  OBVIOUS
<1>1. ASSUME NEW d \in Deltas, GetKeys(d) PROVE IInv'
  BY <1>1 DEF GetKeys, IInv, TypeOK, PressInv, PaceInv, KeyList
<1>2. CASE Sample
  <2>1. PICK pressed \in BOOLEAN : LibKeyUpdateKeyStatus(KeyList[turn], pressed)
    BY <1>2 DEF Sample
  <2> DEFINE b == KeyList[turn]
  <2>2. /\ b \in Buttons /\ turn' \in 0 .. Len(KeyList) /\ delta' = delta
        /\ turn # 0 /\ delta \in Deltas
    BY <1>2 DEF Sample, KeyList, Buttons, IInv, TypeOK, PaceInv
  <2>3. PICK c, s, n, m : UpdateOf(b, c, s, n, m)
    <3>1. LibKeyUpdateKeyStatus(b, pressed)
      BY <2>1
    <3> HIDE DEF b
    <3> QED BY <2>2, <3>1, UpdateKeeps
  <2>4. bits' \subseteq {<<"scan", "DOWN">>, <<"scan", "UP">>, <<"char", "null">>}
    BY <2>1, <2>2 DEF LibKeyUpdateKeyStatus, KeySetState, BitsOf, Scan, Char,
                      Buttons, IInv, TypeOK
  <2> HIDE DEF b
  <2>5. TypeOK'
    BY <2>2, <2>3, <2>4 DEF UpdateOf, IInv, TypeOK
  <2>6. PressInv'
    BY <2>2, <2>3 DEF UpdateOf, IInv, TypeOK, PressInv
  <2>7. PaceInv'
    BY <2>2, <2>3 DEF UpdateOf, IInv, TypeOK, PaceInv
  <2> QED BY <2>5, <2>6, <2>7 DEF IInv
<1>3. CASE Reset
  BY <1>3, TimeAssumption
  DEF Reset, IInv, TypeOK, PressInv, PressOK, Quiet, PaceInv, PaceOK, Rest, Contexts,
      States
<1>4. CASE UNCHANGED vars
  BY <1>4 DEF vars, IInv, TypeOK, PressInv, PaceInv
<1> QED BY <1>1, <1>2, <1>3, <1>4 DEF Next

THEOREM Inductive == Spec => []IInv
  BY InitIInv, NextIInv, PTL DEF Spec

\* Every context, bitmap and report has its type.
THEOREM TypeCorrect == Spec => []TypeOK
<1>1. IInv => TypeOK BY DEF IInv
<1> QED BY <1>1, Inductive, PTL

\* A step that ends a press ends it from a state PressInv speaks of: after a
\* short press, or after a long one.
LEMMA EndsFrom ==
    ASSUME IInv, [Next]_vars, NEW b \in Buttons, Ends(b)
    PROVE  \/ ctx[b].state = "longpressRelease"
           \/ ctx[b].state = "pressed" /\ ctx[b].longpress
<1>1. ctx[b].state \in States /\ ctx[b].longpress \in BOOLEAN
  BY DEF IInv, TypeOK, Contexts
<1>2. Sample
  BY DEF Next, vars, Ends, GetKeys, Reset
<1>3. PICK pressed \in BOOLEAN : LibKeyUpdateKeyStatus(KeyList[turn], pressed)
  BY <1>2 DEF Sample
<1>4. KeyList[turn] \in Buttons
  BY <1>2 DEF Sample, KeyList, Buttons, IInv, TypeOK
<1>5. ctx \in [Buttons -> Contexts]
  BY DEF IInv, TypeOK
<1>6. SUFFICES ASSUME ctx[b].state = "pressed", ~ctx[b].longpress
               PROVE  FALSE
  BY <1>1 DEF Ends, States
<1>7. ctx'[b].state = "released"
  BY DEF Ends
<1>8. KeyList[turn] = b
  <2> DEFINE k == KeyList[turn]
  <2>1. \E c : ctx' = [ctx EXCEPT ![k] = c]
    BY ZenonT(60), <1>2, <1>3, <1>4, UpdateKeeps DEF UpdateOf, Sample
  <2> QED BY <1>4, <1>5, <1>6, <1>7, <2>1
<1> QED
  BY ZenonT(60), <1>3, <1>5, <1>6, <1>7, <1>8
  DEF LibKeyUpdateKeyStatus, StayReleased, PressBegins, KeyRepeats, MayRepeat,
      LongPress, StayPressed, ShortPress, LongPressEnds, ReleaseEnds, Become,
      Contexts

\* A press of power is reported once, as enter when it was short and as
\* another key when it was long.
THEOREM PowerReportedOnce == Spec => PowerOnce
<1>1. IInv /\ [Next]_vars =>
        [Ends("power") => /\ Len(said["power"]) = 1
                          /\ said["power"] = <<"CR">> <=> ~ctx["power"].longpress]_vars
  <2> SUFFICES ASSUME IInv, [Next]_vars, Ends("power")
               PROVE  /\ Len(said["power"]) = 1
                      /\ said["power"] = <<"CR">> <=> ~ctx["power"].longpress
    OBVIOUS
  <2>1. "power" \in Buttons /\ OwnKey("power") = "CR"
    BY DEF Buttons, OwnKey, Char
  <2>2. PressOK("power", ctx["power"], said["power"], muted["power"])
    BY <2>1 DEF IInv, PressInv
  <2>3. CASE ctx["power"].state = "longpressRelease"
    BY <2>1, <2>2, <2>3 DEF PressOK
  <2>4. CASE ctx["power"].state = "pressed" /\ ctx["power"].longpress
    <3>1. said["power"] \in {<<"RIGHT">>, <<"LEFT">>, <<"ESC">>}
      BY <2>2, <2>4 DEF PressOK, LongSaid
    <3> QED BY <2>4, <3>1
  <2> QED BY <2>1, <2>3, <2>4, EndsFrom
<1> QED BY <1>1, Inductive, PTL DEF Spec, PowerOnce

\* A press of a volume button is reported as that button's key, unless power
\* was held when it became long.
THEOREM VolumeNotLost == Spec => VolumeHeard
<1> DEFINE Heard(b) ==
        /\ \A i \in DOMAIN said[b] : said[b][i] = OwnKey(b)
        /\ said[b] = <<>> <=> muted[b]
<1>1. IInv /\ [Next]_vars => [\A b \in Volume : Ends(b) => Heard(b)]_vars
  <2> SUFFICES ASSUME IInv, [Next]_vars, NEW b \in Volume, Ends(b)
               PROVE  Heard(b)
    OBVIOUS
  <2>1. b \in Buttons /\ b # "power" /\ muted[b] \in BOOLEAN
    BY DEF Buttons, Volume, IInv, TypeOK
  <2>2. PressOK(b, ctx[b], said[b], muted[b])
    BY <2>1 DEF IInv, PressInv
  <2>3. CASE ctx[b].state = "longpressRelease"
    BY <2>2, <2>3 DEF PressOK
  <2>4. CASE ctx[b].state = "pressed" /\ ctx[b].longpress
    <3>1. \/ muted[b] /\ said[b] = <<>>
          \/ ~muted[b] /\ said[b] \in {<<OwnKey(b)>>, <<OwnKey(b), OwnKey(b)>>}
      BY <2>1, <2>2, <2>4 DEF PressOK, LongSaid
    <3> QED BY <3>1
  <2> QED BY <2>1, <2>3, <2>4, EndsFrom
<1> QED BY <1>1, Inductive, PTL DEF Spec, VolumeHeard

\* A button that stays down is not reported before LongNs, and then not
\* faster than every RepeatNs: the step is of one of the branches, each of
\* which reports only when Time allows it, and Time is not ahead of since.
THEOREM RepeatsKeepPace == Spec => RepeatPaced
<1> DEFINE Paced(b) ==
        turn # 0 /\ KeyList[turn] = b /\ said'[b] # <<>> /\ since'[b] = 0 =>
            \/ Later(since[b]) >= IF said[b] = <<>> THEN LongNs ELSE RepeatNs
            \/ said[b] = <<>> /\ ctx'[b].state = "longpressRelease"
<1>1. IInv /\ [Next]_vars => [\A b \in Buttons : Paced(b)]_vars
  <2> SUFFICES ASSUME IInv, Next, NEW b \in Buttons, turn # 0, KeyList[turn] = b,
                      said'[b] # <<>>, since'[b] = 0
               PROVE  \/ Later(since[b]) >= IF said[b] = <<>> THEN LongNs ELSE RepeatNs
                      \/ said[b] = <<>> /\ ctx'[b].state = "longpressRelease"
    BY DEF vars
  <2>1. Sample
    BY DEF Next, GetKeys, Reset
  <2>2. PICK pressed \in BOOLEAN : LibKeyUpdateKeyStatus(b, pressed)
    BY <2>1 DEF Sample
  <2>3. PICK c, s, n, m : UpdateOf(b, c, s, n, m)
    BY <2>2, UpdateKeeps
  <2>4. ctx'[b] = c /\ said'[b] = s /\ since'[b] = n
    BY <2>3 DEF UpdateOf, IInv, TypeOK
  <2>5. PacedOf(b, c, s, n)
    BY <2>3 DEF UpdateOf
  <2> QED BY <2>4, <2>5 DEF PacedOf
<1> QED BY <1>1, Inductive, PTL DEF Spec, RepeatPaced
=============================================================================
