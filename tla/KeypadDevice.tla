---------------------------- MODULE KeypadDevice ----------------------------
(***************************************************************************)
(* Library/KeypadDeviceImplLib: three buttons as EFI keys.  Each poll      *)
(* (GetKeys) samples the pins one by one and moves that button's KEY_      *)
(* CONTEXT: a short press is reported when it ends, a long press of a      *)
(* volume button repeats, a long press of power is another key, chosen by  *)
(* the volume button held with it.                                         *)
(*                                                                         *)
(* GetKeys runs at TPL_NOTIFY (KeypadTimerHandler), so Reset comes between *)
(* polls.  What the user does is the pin each sample sees; how often the   *)
(* clients and the timer poll is the time between polls.                   *)
(***************************************************************************)
EXTENDS Integers, Sequences

CONSTANTS
    ReleaseNs,   \* MS2NS(10), how long after its report a key stays pressed
    RepeatNs,    \* MS2NS(100)
    LongNs,      \* MS2NS(500)
    Deltas       \* times that may pass between two ticks of the timer

ASSUME TimeAssumption ==
    /\ {ReleaseNs, RepeatNs, LongNs} \subseteq Nat \ {0}
    /\ ReleaseNs <= LongNs /\ RepeatNs <= LongNs
    /\ Deltas \subseteq Nat \ {0}

VARIABLES
    ctx,      \* KEY_CONTEXT of each button
    bits,     \* gBitmapScanCodes and gBitmapUnicodeChars
    turn,     \* index in KeyList GetKeys has come to, or 0
    delta,    \* GetKeys' Delta
    said,     \* history: first and last key reported in the press going on
    since,    \* history: time since the press began or was last reported
    muted     \* history: power was seen held at the button's long press

vars == <<ctx, bits, turn, delta, said, since, muted>>

KeyList == <<"down", "up", "power">>
Buttons == {"down", "up", "power"}
Volume  == {"down", "up"}

\* KeyData.Key of each context; "null" is 0.
Scan(b) == CASE b = "down" -> "DOWN" [] b = "up" -> "UP" [] OTHER -> "null"
Char(b) == IF b = "power" THEN "CR" ELSE "null"
OwnKey(b) == IF b = "power" THEN Char(b) ELSE Scan(b)
ReportKeys == {"DOWN", "UP", "CR", "RIGHT", "LEFT", "ESC"}

States == {"released", "pressed", "longpressRelease"}
Contexts == [state : States, time : 0 .. LongNs, repeat : BOOLEAN,
             longpress : BOOLEAN]
Rest == [state |-> "released", time |-> 0, repeat |-> FALSE, longpress |-> FALSE]

TypeOK ==
    /\ ctx \in [Buttons -> Contexts]
    /\ bits \subseteq {<<"scan", "DOWN">>, <<"scan", "UP">>, <<"char", "null">>}
    /\ turn \in 0 .. Len(KeyList)
    /\ delta \in Deltas \cup {0}
    /\ said \in [Buttons -> Seq(ReportKeys)]
    /\ \A b \in Buttons : Len(said[b]) <= 2
    /\ since \in [Buttons -> 0 .. LongNs]
    /\ muted \in [Buttons -> BOOLEAN]

Init ==
    /\ ctx = [b \in Buttons |-> Rest]
    /\ bits = {}
    /\ turn = 0
    /\ delta = 0
    /\ said = [b \in Buttons |-> <<>>]
    /\ since = [b \in Buttons |-> 0]
    /\ muted = [b \in Buttons |-> FALSE]

-----------------------------------------------------------------------------
(* The bitmaps.  Both are indexed by the scan code, the one of characters   *)
(* too: power has scan code 0.                                              *)

\* Mutant of BitsOf: without the test that the scan code is not zero.
BitsOfUnguarded(scan, char) ==
    {<<"scan", scan>>} \cup (IF char = "null" THEN {} ELSE {<<"char", scan>>})

BitsOf(scan, char) == (IF scan = "null" THEN {} ELSE {<<"scan", scan>>})
                      \cup (IF char = "null" THEN {} ELSE {<<"char", scan>>})

KeySetState(b, pressed) ==
    bits' = IF pressed THEN bits \cup BitsOf(Scan(b), Char(b))
                       ELSE bits \ BitsOf(Scan(b), Char(b))

\* Read after KeySetState of this button and of those before it in KeyList.
KeyGetState(scan, char) == BitsOf(scan, char) \subseteq bits'

\* No threshold is above LongNs: more time than that makes no difference.
Later(t) == IF t + delta > LongNs THEN LongNs ELSE t + delta
Time(b) == Later(ctx[b].time)

-----------------------------------------------------------------------------
(* LibKeyUpdateKeyStatus, one operator per branch.                          *)

Become(b, c) == ctx' = [ctx EXCEPT ![b] = c]

Report(b, key) ==
    /\ said' = [said EXCEPT ![b] = IF @ = <<>> THEN <<key>> ELSE <<@[1], key>>]
    /\ since' = [since EXCEPT ![b] = 0]

Silent(b) == /\ since' = [since EXCEPT ![b] = Later(@)]
             /\ UNCHANGED said

Forget(b) == /\ said' = [said EXCEPT ![b] = <<>>]
             /\ since' = [since EXCEPT ![b] = 0]
             /\ muted' = [muted EXCEPT ![b] = FALSE]

\* KEYSTATE_RELEASED.  Time is set to zero by the press, so the time before
\* it is not kept.
StayReleased(b) == ctx[b].state = "released" /\ UNCHANGED <<ctx, said, since, muted>>

PressBegins(b) ==
    /\ ctx[b].state = "released"
    /\ Become(b, [ctx[b] EXCEPT !.state = "pressed", !.time = 0])
    /\ Forget(b)

\* KEYSTATE_PRESSED, still pressed.
MayRepeat(b) == ctx[b].repeat /\ Time(b) >= RepeatNs

\* Mutant of KeyRepeats: does not start the next interval.
KeyRepeatsAtOnce(b) ==
    /\ ctx[b].state = "pressed" /\ MayRepeat(b)
    /\ Become(b, [ctx[b] EXCEPT !.time = Time(b)])
    /\ Report(b, OwnKey(b))
    /\ UNCHANGED muted

KeyRepeats(b) ==
    /\ ctx[b].state = "pressed" /\ MayRepeat(b)
    /\ Become(b, [ctx[b] EXCEPT !.time = 0])
    /\ Report(b, OwnKey(b))
    /\ UNCHANGED muted

IsLong(b) == ~MayRepeat(b) /\ ~ctx[b].longpress /\ Time(b) >= LongNs

PowerCombo == IF KeyGetState("DOWN", "null") THEN "RIGHT"
              ELSE IF KeyGetState("UP", "null") THEN "LEFT"
              ELSE "ESC"

\* Mutant of LongPress: forgets that the press was reported.
LongPressUnmarked(b) ==
    /\ ctx[b].state = "pressed" /\ IsLong(b)
    /\ \/ /\ b = "power"
          /\ Report(b, PowerCombo)
          /\ Become(b, [ctx[b] EXCEPT !.time = Time(b)])
          /\ UNCHANGED muted
       \/ /\ b \in Volume
          /\ Report(b, OwnKey(b))
          /\ Become(b, [ctx[b] EXCEPT !.time = 0, !.repeat = TRUE, !.longpress = TRUE])
          /\ UNCHANGED muted

\* Mutant of LongPress: takes every button held long for a part of a combo.
LongPressMute(b) ==
    /\ ctx[b].state = "pressed" /\ IsLong(b)
    /\ Silent(b)
    /\ Become(b, [ctx[b] EXCEPT !.time = Time(b), !.longpress = TRUE])
    /\ muted' = [muted EXCEPT ![b] = KeyGetState("null", "CR")]

LongPress(b) ==
    /\ ctx[b].state = "pressed" /\ IsLong(b)
    /\ \/ /\ b = "power"
          /\ Report(b, PowerCombo)
          /\ Become(b, [ctx[b] EXCEPT !.time = Time(b), !.longpress = TRUE])
          /\ UNCHANGED muted
       \/ /\ b \in Volume /\ ~KeyGetState("null", "CR")
          /\ Report(b, OwnKey(b))
          /\ Become(b, [ctx[b] EXCEPT !.time = 0, !.repeat = TRUE, !.longpress = TRUE])
          /\ UNCHANGED muted
       \/ /\ b \in Volume /\ KeyGetState("null", "CR")
          /\ Silent(b)
          /\ Become(b, [ctx[b] EXCEPT !.time = Time(b), !.longpress = TRUE])
          /\ muted' = [muted EXCEPT ![b] = TRUE]

StayPressed(b) ==
    /\ ctx[b].state = "pressed" /\ ~MayRepeat(b) /\ ~IsLong(b)
    /\ Become(b, [ctx[b] EXCEPT !.time = Time(b)])
    /\ Silent(b)
    /\ UNCHANGED muted

\* KEYSTATE_PRESSED, no longer pressed.
ShortPress(b) ==
    /\ ctx[b].state = "pressed" /\ ~ctx[b].longpress
    /\ Become(b, [ctx[b] EXCEPT !.time = Time(b), !.state = "longpressRelease"])
    /\ Report(b, OwnKey(b))
    /\ UNCHANGED muted

\* Mutant of LongPressEnds: waits in a fresh interval at every poll.
LongPressEndsNever(b) ==
    /\ ctx[b].state = "pressed" /\ ctx[b].longpress
    /\ IF delta >= LongNs
       THEN Become(b, Rest) /\ Forget(b)
       ELSE Become(b, [ctx[b] EXCEPT !.time = 0]) /\ Silent(b) /\ UNCHANGED muted

LongPressEnds(b) ==
    /\ ctx[b].state = "pressed" /\ ctx[b].longpress
    /\ IF Time(b) >= ReleaseNs
       THEN Become(b, Rest) /\ Forget(b)
       ELSE Become(b, [ctx[b] EXCEPT !.time = Time(b)]) /\ Silent(b) /\ UNCHANGED muted

\* KEYSTATE_LONGPRESS_RELEASE, whatever the pin says.
ReleaseEnds(b) ==
    /\ ctx[b].state = "longpressRelease"
    /\ Become(b, Rest)
    /\ Forget(b)

LibKeyUpdateKeyStatus(b, pressed) ==
    /\ KeySetState(b, pressed)
    /\ \/ pressed /\ (PressBegins(b) \/ KeyRepeats(b) \/ LongPress(b) \/ StayPressed(b))
       \/ ~pressed /\ (StayReleased(b) \/ ShortPress(b) \/ LongPressEnds(b))
       \/ ReleaseEnds(b)

-----------------------------------------------------------------------------
\* KeypadDeviceImplGetKeys is entered ...
GetKeys(d) ==
    /\ turn = 0
    /\ turn' = 1
    /\ delta' = d
    /\ UNCHANGED <<ctx, bits, said, since, muted>>

\* ... and samples the next pin of KeyList.
Sample ==
    /\ turn # 0
    /\ \E pressed \in BOOLEAN : LibKeyUpdateKeyStatus(KeyList[turn], pressed)
    /\ turn' = IF turn = Len(KeyList) THEN 0 ELSE turn + 1
    /\ UNCHANGED delta

\* KeypadDeviceImplReset initialises the contexts; the bitmaps stay.
Reset ==
    /\ turn = 0
    /\ ctx' = [b \in Buttons |-> Rest]
    /\ said' = [b \in Buttons |-> <<>>]
    /\ since' = [b \in Buttons |-> 0]
    /\ muted' = [b \in Buttons |-> FALSE]
    /\ UNCHANGED <<bits, turn, delta>>

Next == (\E d \in Deltas : GetKeys(d)) \/ Sample \/ Reset

Spec == Init /\ [][Next]_vars

\* The 20 ms timer keeps polling, and time passes between its ticks.
FairSpec == /\ Spec
            /\ WF_vars(Sample)
            /\ SF_vars(\E d \in Deltas : GetKeys(d))

-----------------------------------------------------------------------------
(* Properties.                                                             *)

Ends(b) == ctx[b].state # "released" /\ ctx'[b].state = "released" /\ turn # 0

\* A press of power is reported exactly once, as enter when it was short and
\* as another key when it was long, however the polls fall and whatever the
\* volume buttons do.
PowerOnce ==
    [][Ends("power") =>
         /\ Len(said["power"]) = 1
         /\ said["power"] = <<"CR">> <=> ~ctx["power"].longpress]_vars

\* A press of a volume button is not lost: when it ends its own key has been
\* reported, except that power was held when the press became long.
VolumeHeard ==
    [][\A b \in Volume : Ends(b) =>
         /\ \A i \in DOMAIN said[b] : said[b][i] = OwnKey(b)
         /\ said[b] = <<>> <=> muted[b]]_vars

\* A button that stays down is not reported before LongNs, and then not
\* faster than every RepeatNs, at whatever times the timer ticks.
RepeatPaced ==
    [][\A b \in Buttons :
         turn # 0 /\ KeyList[turn] = b /\ said'[b] # <<>> /\ since'[b] = 0 =>
            \/ Later(since[b]) >= IF said[b] = <<>> THEN LongNs ELSE RepeatNs
            \/ said[b] = <<>> /\ ctx'[b].state = "longpressRelease"]_vars

\* A button that is let go for good ends up released, after a long press
\* with repeats as well as after a short one.
Released == \A b \in Buttons :
    <>[](BitsOf(Scan(b), Char(b)) \cap bits = {}) => <>[](ctx[b].state = "released")
=============================================================================
