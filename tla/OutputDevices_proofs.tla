------------------------ MODULE OutputDevices_proofs ------------------------
(***************************************************************************)
(* OutputDevices: the virtual graphics output tells its clients what its   *)
(* devices are and show, for all devices, resolutions and pictures; the    *)
(* debug output stays on the screen and in its colours, for all screens,   *)
(* fonts and images; the virtual text consoles know their devices' numbers *)
(* of every mode they tell, and are in the same, for all devices and       *)
(* sizes; and a block transfer paints its rectangle and no other byte, for *)
(* all screens, pixel formats and pictures.                                *)
(***************************************************************************)
EXTENDS OutputDevices, SequenceTheorems, WellFoundedInduction, TLAPS

(***************************************************************************)
(* Numbers and recursion.                                                  *)
(***************************************************************************)

\* A set of naturals has a least element.
LEMMA LeastNat ==
    ASSUME NEW S, S \subseteq Nat, S # {}
    PROVE  \E x \in S : \A y \in S : x <= y
<1> DEFINE R == OpToRel(<, Nat)
<1>1. IsWellFoundedOn(R, Nat)
  BY NatLessThanWellFounded
<1>2. ASSUME NEW x \in Nat, NEW y \in Nat, x < y
      PROVE  <<x, y>> \in R
  <2> DEFINE p == <<x, y>>
  <2>1. p \in Nat \X Nat /\ p[1] = x /\ p[2] = y
    OBVIOUS
  <2> HIDE DEF p
  <2>2. p[1] < p[2]
    BY <1>2, <2>1
  <2>3. p \in {q \in Nat \X Nat : q[1] < q[2]}
    BY <2>1, <2>2
  <2>4. p \in R
    BY <2>3, Zenon DEF OpToRel
  <2> QED
    BY <2>4 DEF p
<1> HIDE DEF R
<1>3. PICK x \in S : \A y \in S : ~(<<y, x>> \in R)
  BY <1>1, WFMin
<1>4. ASSUME NEW y \in S
      PROVE  x <= y
  <2>1. x \in Nat /\ y \in Nat /\ ~(<<y, x>> \in R)
    BY <1>3
  <2>2. ~(y < x)
    BY <1>2, <2>1
  <2> QED
    BY <2>1, <2>2
<1> QED
  BY <1>4

\* What holds at zero and passes from every number to the next holds at n.
LEMMA CountUp ==
    ASSUME NEW n \in Nat, NEW S, 0 \in S, \A k \in 0 .. n - 1 : k \in S => k + 1 \in S
    PROVE  \A k \in 0 .. n : k \in S
<1> SUFFICES ASSUME NEW m \in 0 .. n, m \notin S
             PROVE  FALSE
  OBVIOUS
<1> DEFINE Out == {k \in 0 .. n : k \notin S}
<1>1. Out \subseteq Nat /\ Out # {}
  OBVIOUS
<1>2. PICK x \in Out : \A y \in Out : x <= y
  BY <1>1, LeastNat
<1>3. x - 1 \in 0 .. n - 1 /\ x - 1 \notin Out
  BY <1>2
<1>4. x \in S
  BY <1>3
<1> QED
  BY <1>2, <1>4

\* n steps, each a function of what the one before left, and f that makes them.
StepsOf(n, T) == [1 .. n -> [T -> T]]
Runs(f, n, T, base, G) ==
    f \in [0 .. n -> T] /\ f[0] = base /\ \A i \in 1 .. n : f[i] = G[i][f[i - 1]]

\* A recursion over a finite range has a solution.
LEMMA RunExists ==
    ASSUME NEW n \in Nat, NEW T, NEW base \in T, NEW G \in StepsOf(n, T)
    PROVE  \E f : Runs(f, n, T, base, G)
<1> USE DEF StepsOf
<1> DEFINE Solves(f, k) == f[0] = base /\ \A i \in 1 .. k : f[i] = G[i][f[i - 1]]
           S == {k \in 0 .. n : \E f \in [0 .. k -> T] : Solves(f, k)}
<1>1. 0 \in S
  <2> DEFINE e == [i \in 0 .. 0 |-> base]
  <2>1. e \in [0 .. 0 -> T] /\ Solves(e, 0)
    OBVIOUS
  <2> HIDE DEF e, Solves
  <2> QED BY <2>1
<1>2. ASSUME NEW k \in 0 .. n - 1, k \in S
      PROVE  k + 1 \in S
  <2>1. PICK f \in [0 .. k -> T] : Solves(f, k)
    BY <1>2
  <2>2. G[k + 1][f[k]] \in T
    <3>1. k + 1 \in 1 .. n /\ f[k] \in T
      OBVIOUS
    <3>2. G[k + 1] \in [T -> T]
      BY <3>1
    <3> QED BY <3>1, <3>2
  <2> DEFINE e == [i \in 0 .. k + 1 |-> IF i <= k THEN f[i] ELSE G[k + 1][f[k]]]
  <2>3. /\ e \in [0 .. k + 1 -> T] /\ \A i \in 0 .. k : e[i] = f[i]
        /\ e[k + 1] = G[k + 1][f[k]]
    BY <2>2
  <2> HIDE DEF e
  <2>4. ASSUME NEW i \in 1 .. k + 1
        PROVE  e[i] = G[i][e[i - 1]]
    <3>1. CASE i = k + 1
      BY <2>3, <3>1
    <3>2. CASE i # k + 1
      <4>1. i \in 1 .. k /\ i \in 0 .. k /\ i - 1 \in 0 .. k
        BY <3>2
      <4>2. f[i] = G[i][f[i - 1]]
        BY <2>1, <4>1
      <4> QED BY <2>3, <4>1, <4>2
    <3> QED BY <3>1, <3>2
  <2>5. Solves(e, k + 1)
    BY <2>1, <2>3, <2>4
  <2> HIDE DEF Solves
  <2> QED BY <2>3, <2>5
<1> HIDE DEF S
<1>3. \A k \in 0 .. n : k \in S
  BY <1>1, <1>2, CountUp
<1> QED BY <1>3 DEF S, Runs

(***************************************************************************)
(* ConSplitterGop.                                                         *)
(***************************************************************************)

\* The devices are in the list once each, in modes that they have, and the
\* protocol is there as long as one of them is.
GopSound ==
    /\ Gop!TypeOK
    /\ \A d \in GopDevices : gopMode[d] < Len(DeviceModes[d])
    /\ max <= Len(buffer)
    /\ \A i, j \in DOMAIN gops : gops[i] = gops[j] => i = j
    /\ installed <=> gops # <<>>

\* ResolutionShared, whether a mode is set or not.
Shared ==
    gops # <<>> /\ max > 0 =>
        /\ gopLagging = {} /\ ~forced => current < max /\ buffer[current + 1] = info
        /\ \A d \in Gop!Held(gops) \ gopLagging : Gop!Now(d) = info

\* A single device's modes are the virtual ones, until one is removed.
Lent == Len(gops) = 1 /\ ~shrunk => buffer = DeviceModes[gops[1]] /\ max = Len(buffer)

GopInv ==
    /\ GopSound /\ Shared /\ Lent
    /\ Gop!ModesAreCommon /\ Gop!FrameBufferIsLive /\ Gop!PictureShared

\* The modes of a device are resolutions, and there is one at least.
LEMMA DeviceModesAre ==
    ASSUME NEW d \in GopDevices
    PROVE  /\ DeviceModes[d] \in Seq(Gop!Resolutions) /\ Len(DeviceModes[d]) \in Nat \ {0}
           /\ DOMAIN DeviceModes[d] = 1 .. Len(DeviceModes[d])
           /\ \A i \in 1 .. Len(DeviceModes[d]) : DeviceModes[d][i] \in Gop!Resolutions
<1>1. DeviceModes[d] \in Seq(Gop!Resolutions) /\ DeviceModes[d] # <<>>
  BY OutputAssumption DEF Gop!GopAssumption
<1> DEFINE s == DeviceModes[d]
           R == Gop!Resolutions
<1> HIDE DEF s, R
<1>2. s \in Seq(R) /\ s # <<>>
  BY <1>1 DEF s, R
<1>3. Len(s) \in Nat /\ DOMAIN s = 1 .. Len(s) /\ Len(s) # 0
  BY <1>2, LenProperties, EmptySeq
<1>4. \A i \in 1 .. Len(s) : s[i] \in R
  BY <1>2, <1>3
<1> QED BY <1>2, <1>3, <1>4 DEF s, R

\* The least number of a nonempty set of naturals.
LEMMA GopMin ==
    ASSUME NEW S, S \subseteq Nat, S # {}
    PROVE  Gop!Min(S) \in S /\ \A y \in S : Gop!Min(S) <= y
  BY LeastNat DEF Gop!Min

\* The number of a resolution on a device is that of the resolution, if it is
\* there.
LEMMA Numbered ==
    ASSUME NEW d \in GopDevices, NEW r
    PROVE  /\ Gop!NumberOn(d, r) \in Nat
           /\ Gop!Has(d, r) <=> r \in Gop!Held(DeviceModes[d])
           /\ Gop!Has(d, r) => /\ Gop!NumberOn(d, r) < Len(DeviceModes[d])
                               /\ DeviceModes[d][Gop!NumberOn(d, r) + 1] = r
<1> DEFINE s == DeviceModes[d]
           at == {i \in DOMAIN s : s[i] = r}
<1>1. Len(s) \in Nat /\ DOMAIN s = 1 .. Len(s)
  BY DeviceModesAre
<1>2. at = {} <=> r \notin Gop!Held(s)
  BY DEF Gop!Held
<1>3. Gop!NumberOn(d, r) = IF at = {} THEN Len(s) ELSE Gop!Min(at) - 1
  BY DEF Gop!NumberOn
<1>4. CASE at = {}
  BY <1>1, <1>2, <1>3, <1>4 DEF Gop!Has
<1>5. CASE at # {}
  <2>1. at \subseteq Nat
    BY <1>1
  <2>2. Gop!Min(at) \in at
    <3> HIDE DEF at
    <3> QED BY <1>5, <2>1, GopMin
  <2> DEFINE k == Gop!Min(at)
  <2>3. k \in 1 .. Len(s) /\ s[k] = r /\ Gop!NumberOn(d, r) = k - 1
    BY <1>1, <1>3, <1>5, <2>2
  <2> HIDE DEF k, at, s
  <2>4. /\ Gop!NumberOn(d, r) \in Nat /\ Gop!NumberOn(d, r) < Len(s)
        /\ s[Gop!NumberOn(d, r) + 1] = r
    BY <1>1, <2>3
  <2> QED BY <1>2, <1>5, <2>4 DEF Gop!Has, s
<1> QED BY <1>4, <1>5

\* The matched modes are resolutions of the set that were modes before.
LEMMA Matched ==
    ASSUME GopSound, NEW those
    PROVE  /\ Gop!MatchedModes(those) \in Seq(Gop!Resolutions)
           /\ Len(Gop!MatchedModes(those)) <= max
           /\ \A n \in 1 .. Len(Gop!MatchedModes(those)) :
                /\ Gop!MatchedModes(those)[n] \in those
                /\ \E k \in 1 .. max : buffer[k] = Gop!MatchedModes(those)[n]
<1> DEFINE R == Gop!Resolutions
           T == Seq(R)
           e == <<>>
           Keeps(n, s) == IF buffer[n] \in those \ Gop!Held(s) THEN Append(s, buffer[n]) ELSE s
           G == [n \in 1 .. max |-> [s \in T |-> Keeps(n, s)]]
           Solves(g) == g = [n \in 0 .. max |-> IF n = 0 THEN e ELSE Keeps(n, g[n - 1])]
           matched == CHOOSE g : Solves(g)
<1>1. /\ max \in Nat /\ buffer \in Seq(R) /\ Len(buffer) \in Nat
      /\ \A n \in 1 .. max : buffer[n] \in R
  <2>1. max \in Nat /\ buffer \in Seq(R) /\ max <= Len(buffer)
    BY DEF GopSound, Gop!TypeOK
  <2> HIDE DEF R
  <2>2. Len(buffer) \in Nat /\ DOMAIN buffer = 1 .. Len(buffer)
    BY <2>1, LenProperties
  <2> QED BY <2>1, <2>2
<1> HIDE DEF R
<1>2. e \in T /\ Len(e) = 0
  BY EmptySeq
<1> HIDE DEF e, Solves, matched
<1>3. ASSUME NEW n \in 1 .. max, NEW s \in T
      PROVE  Keeps(n, s) \in T
  BY <1>1, <1>3, AppendProperties
<1>4. G \in StepsOf(max, T)
  BY <1>3 DEF StepsOf
<1>5. PICK f : Runs(f, max, T, e, G)
  <2> HIDE DEF G, T
  <2> QED BY <1>1, <1>2, <1>4, RunExists
<1>6. /\ f \in [0 .. max -> T] /\ f[0] = e
      /\ \A i \in 1 .. max : f[i] = Keeps(i, f[i - 1])
  <2>1. /\ f \in [0 .. max -> T] /\ f[0] = e
        /\ \A i \in 1 .. max : f[i] = G[i][f[i - 1]]
    BY <1>5 DEF Runs
  <2>2. ASSUME NEW i \in 1 .. max
        PROVE  f[i] = Keeps(i, f[i - 1])
    <3>1. f[i - 1] \in T /\ f[i] = G[i][f[i - 1]]
      <4> HIDE DEF G, T
      <4> QED BY <1>1, <2>1
    <3>2. G[i][f[i - 1]] = Keeps(i, f[i - 1])
      <4> HIDE DEF Keeps, T
      <4> QED BY <3>1
    <3> QED BY <3>1, <3>2
  <2> QED BY <2>1, <2>2
<1>7. Solves(f)
  <2>1. f = [n \in 0 .. max |-> IF n = 0 THEN e ELSE Keeps(n, f[n - 1])]
    <3> HIDE DEF Keeps, T
    <3> QED BY <1>1, <1>6
  <2> QED BY <2>1 DEF Solves
<1>8. Solves(matched)
  BY <1>7 DEF matched
<1>9. /\ matched[0] = e /\ \A i \in 1 .. max : matched[i] = Keeps(i, matched[i - 1])
      /\ Gop!MatchedModes(those) = matched[max]
  <2>1. matched = [n \in 0 .. max |-> IF n = 0 THEN e ELSE Keeps(n, matched[n - 1])]
    BY <1>8 DEF Solves
  <2>2. matched[0] = e /\ \A i \in 1 .. max : matched[i] = Keeps(i, matched[i - 1])
    <3> HIDE DEF Keeps
    <3> QED BY <1>1, <2>1
  <2>3. Gop!MatchedModes(those) = matched[max]
    BY DEF Gop!MatchedModes, matched, Solves, e
  <2> QED BY <2>2, <2>3
<1> HIDE DEF G
<1> DEFINE Good(s, k) == /\ s \in T /\ Len(s) <= k
                         /\ \A n \in 1 .. Len(s) :
                              s[n] \in those /\ \E m \in 1 .. max : buffer[m] = s[n]
           U == {k \in 0 .. max : Good(matched[k], k)}
<1>10. 0 \in U
  <2>1. Good(e, 0)
    BY <1>2
  <2> HIDE DEF Good
  <2> QED BY <1>1, <1>9, <2>1
<1>11. ASSUME NEW k \in 0 .. max - 1, k \in U
       PROVE  k + 1 \in U
  <2> DEFINE s == matched[k]
             b == buffer[k + 1]
  <2>1. /\ k + 1 \in 1 .. max /\ k + 1 \in 0 .. max /\ Good(s, k)
        /\ matched[k + 1] = IF b \in those \ Gop!Held(s) THEN Append(s, b) ELSE s
    <3>1. k + 1 \in 1 .. max /\ k + 1 - 1 = k /\ k + 1 \in 0 .. max
      BY <1>1
    <3>2. matched[k + 1] = Keeps(k + 1, matched[k])
      <4> HIDE DEF Keeps
      <4> QED BY <1>9, <3>1
    <3> QED BY <1>11, <3>1, <3>2
  <2>2. b \in R /\ Len(s) \in Nat /\ Len(s) <= k /\ s \in T
    BY <1>1, <2>1, LenProperties
  <2>3. \A n \in 1 .. Len(s) : s[n] \in those /\ \E m \in 1 .. max : buffer[m] = s[n]
    BY <2>1
  <2>4. b = buffer[k + 1]
    OBVIOUS
  <2> HIDE DEF s, b, Keeps
  <2>5. CASE ~(b \in those \ Gop!Held(s))
    <3>1. Good(s, k + 1)
      BY <2>2, <2>3
    <3> HIDE DEF Good
    <3> QED BY <2>1, <2>5, <3>1
  <2>6. CASE b \in those \ Gop!Held(s)
    <3> DEFINE t == Append(s, b)
    <3>1. /\ t \in T /\ Len(t) = Len(s) + 1 /\ t[Len(s) + 1] = b
          /\ \A n \in 1 .. Len(s) : t[n] = s[n]
      BY <2>2, AppendProperties
    <3>2. matched[k + 1] = t
      BY <2>1, <2>6
    <3> HIDE DEF t
    <3>3. Len(t) <= k + 1
      BY <2>2, <3>1
    <3>4. ASSUME NEW n \in 1 .. Len(t)
          PROVE  t[n] \in those /\ \E m \in 1 .. max : buffer[m] = t[n]
      <4>1. CASE n \in 1 .. Len(s)
        BY <2>3, <3>1, <4>1
      <4>2. CASE n = Len(s) + 1
        BY <2>1, <2>4, <2>6, <3>1, <4>2
      <4> QED BY <2>2, <3>1, <4>1, <4>2
    <3>5. Good(t, k + 1)
      BY <3>1, <3>3, <3>4
    <3> HIDE DEF Good
    <3> QED BY <2>1, <3>2, <3>5
  <2> QED BY <2>5, <2>6
<1> HIDE DEF U
<1>12. \A k \in 0 .. max : k \in U
  BY <1>1, <1>10, <1>11, CountUp
<1>13. Good(matched[max], max)
  BY <1>1, <1>12 DEF U
<1> QED BY <1>9, <1>13 DEF R

\* The numbers of a list, what it holds and when it is empty.
LEMMA HeldIn ==
    ASSUME NEW S, NEW s \in Seq(S)
    PROVE  /\ Len(s) \in Nat /\ DOMAIN s = 1 .. Len(s)
           /\ \A i \in 1 .. Len(s) : s[i] \in S /\ s[i] \in Gop!Held(s)
           /\ \A x \in Gop!Held(s) : x \in S /\ \E i \in 1 .. Len(s) : s[i] = x
           /\ s = <<>> <=> Len(s) = 0
<1>1. Len(s) \in Nat /\ DOMAIN s = 1 .. Len(s) /\ \A i \in 1 .. Len(s) : s[i] \in S
  BY LenProperties
<1>2. s = <<>> <=> Len(s) = 0
  BY EmptySeq
<1> QED BY <1>1, <1>2 DEF Gop!Held

\* One more device.
LEMMA OneMore ==
    ASSUME NEW S, NEW s \in Seq(S), NEW d \in S
    PROVE  /\ Append(s, d) \in Seq(S) /\ Len(Append(s, d)) = Len(s) + 1
           /\ Gop!Held(Append(s, d)) = Gop!Held(s) \cup {d}
           /\ (\A i, j \in DOMAIN s : s[i] = s[j] => i = j) /\ d \notin Gop!Held(s) =>
                \A i, j \in DOMAIN Append(s, d) : Append(s, d)[i] = Append(s, d)[j] => i = j
<1> DEFINE t == Append(s, d)
<1>1. /\ t \in Seq(S) /\ Len(t) = Len(s) + 1 /\ t[Len(s) + 1] = d
      /\ \A i \in 1 .. Len(s) : t[i] = s[i]
  BY AppendProperties
<1> HIDE DEF t
<1>2. /\ Len(s) \in Nat /\ DOMAIN s = 1 .. Len(s)
      /\ \A x \in Gop!Held(s) : \E i \in 1 .. Len(s) : s[i] = x
      /\ \A i \in 1 .. Len(s) : s[i] \in Gop!Held(s)
  BY HeldIn
<1>3. /\ DOMAIN t = 1 .. Len(s) + 1
      /\ \A x \in Gop!Held(t) : \E i \in 1 .. Len(s) + 1 : t[i] = x
      /\ \A i \in 1 .. Len(s) + 1 : t[i] \in Gop!Held(t)
  BY <1>1, HeldIn
<1>4. Gop!Held(t) = Gop!Held(s) \cup {d}
  <2>1. ASSUME NEW x \in Gop!Held(t)
        PROVE  x \in Gop!Held(s) \cup {d}
    <3>1. PICK i \in 1 .. Len(s) + 1 : t[i] = x
      BY <1>3
    <3>2. i \in 1 .. Len(s) \/ i = Len(s) + 1
      BY <1>2
    <3> QED BY <1>1, <1>2, <3>1, <3>2
  <2>2. ASSUME NEW x \in Gop!Held(s) \cup {d}
        PROVE  x \in Gop!Held(t)
    <3>1. CASE x \in Gop!Held(s)
      <4>1. PICK i \in 1 .. Len(s) : s[i] = x
        BY <1>2, <3>1
      <4>2. i \in 1 .. Len(s) + 1 /\ t[i] = x
        BY <1>1, <1>2, <4>1
      <4> QED BY <1>3, <4>2
    <3>2. CASE x = d
      <4>1. Len(s) + 1 \in 1 .. Len(s) + 1
        BY <1>2
      <4> QED BY <1>1, <1>3, <3>2, <4>1
    <3> QED BY <3>1, <3>2
  <2> QED BY <2>1, <2>2
<1>5. ASSUME \A i, j \in DOMAIN s : s[i] = s[j] => i = j, d \notin Gop!Held(s),
             NEW i \in DOMAIN t, NEW j \in DOMAIN t, t[i] = t[j]
      PROVE  i = j
  <2>1. (i \in 1 .. Len(s) \/ i = Len(s) + 1) /\ (j \in 1 .. Len(s) \/ j = Len(s) + 1)
    BY <1>2, <1>3
  <2> QED BY <1>1, <1>2, <1>5, <2>1
<1> QED BY <1>1, <1>4, <1>5 DEF t

\* One device less, as CopyMem moves those behind it.
LEMMA OneLess ==
    ASSUME NEW S, NEW s \in Seq(S), NEW k \in DOMAIN s, NEW t,
           \A i, j \in DOMAIN s : s[i] = s[j] => i = j,
           t = [i \in 1 .. Len(s) - 1 |-> IF i < k THEN s[i] ELSE s[i + 1]]
    PROVE  /\ t \in Seq(S) /\ Len(t) = Len(s) - 1
           /\ Gop!Held(t) = Gop!Held(s) \ {s[k]}
           /\ \A i, j \in DOMAIN t : t[i] = t[j] => i = j
<1>1. /\ Len(s) \in Nat /\ DOMAIN s = 1 .. Len(s) /\ k \in 1 .. Len(s)
      /\ \A i \in 1 .. Len(s) : s[i] \in S /\ s[i] \in Gop!Held(s)
      /\ \A x \in Gop!Held(s) : \E i \in 1 .. Len(s) : s[i] = x
  BY HeldIn
<1>2. /\ DOMAIN t = 1 .. Len(s) - 1
      /\ \A i \in 1 .. Len(s) - 1 : t[i] = IF i < k THEN s[i] ELSE s[i + 1]
  OBVIOUS
<1>3. ASSUME NEW i \in 1 .. Len(s) - 1
      PROVE  \E m \in 1 .. Len(s) :
                /\ m # k /\ t[i] = s[m]
                /\ (i < k => m = i) /\ (~(i < k) => m = i + 1)
  <2>1. CASE i < k
    <3>1. i \in 1 .. Len(s) /\ i # k /\ t[i] = s[i]
      BY <1>1, <1>2, <2>1
    <3> QED BY <2>1, <3>1
  <2>2. CASE ~(i < k)
    <3>1. i + 1 \in 1 .. Len(s) /\ i + 1 # k /\ t[i] = s[i + 1]
      BY <1>1, <1>2, <2>2
    <3> QED BY <2>2, <3>1
  <2> QED BY <2>1, <2>2
<1>4. t \in Seq(S) /\ Len(t) = Len(s) - 1
  <2>1. \A i \in 1 .. Len(s) - 1 : t[i] \in S
    BY <1>1, <1>3
  <2>2. t \in [1 .. Len(s) - 1 -> S] /\ Len(s) - 1 \in Nat
    BY <1>1, <1>2, <2>1
  <2>3. t \in Seq(S)
    BY <2>2, SeqDef
  <2>4. Len(t) \in Nat /\ DOMAIN t = 1 .. Len(t)
    BY <2>3, LenProperties
  <2> QED BY <1>1, <1>2, <2>3, <2>4
<1>5. Gop!Held(t) = Gop!Held(s) \ {s[k]}
  <2>1. ASSUME NEW x \in Gop!Held(t)
        PROVE  x \in Gop!Held(s) \ {s[k]}
    <3>1. PICK i \in 1 .. Len(s) - 1 : t[i] = x
      BY <1>2, <2>1 DEF Gop!Held
    <3> QED BY ZenonT(60), <1>1, <1>3, <3>1
  <2>2. ASSUME NEW x \in Gop!Held(s) \ {s[k]}
        PROVE  x \in Gop!Held(t)
    <3>1. PICK m \in 1 .. Len(s) : s[m] = x
      BY <1>1, <2>2
    <3>2. PICK i \in 1 .. Len(s) - 1 : t[i] = x
      <4>1. CASE m < k
        BY <1>1, <1>2, <3>1, <4>1
      <4>2. CASE ~(m < k)
        <5>1. m # k /\ m - 1 \in 1 .. Len(s) - 1 /\ ~(m - 1 < k) /\ m - 1 + 1 = m
          BY <1>1, <2>2, <3>1, <4>2
        <5> QED BY <1>2, <3>1, <5>1
      <4> QED BY <4>1, <4>2
    <3> QED BY <1>2, <3>2 DEF Gop!Held
  <2> QED BY <2>1, <2>2
<1>6. ASSUME NEW i \in DOMAIN t, NEW j \in DOMAIN t, t[i] = t[j]
      PROVE  i = j
  <2>1. PICK m \in 1 .. Len(s) : t[i] = s[m] /\ (i < k => m = i) /\ (~(i < k) => m = i + 1) /\ m # k
    BY <1>2, <1>3
  <2>2. PICK n \in 1 .. Len(s) : t[j] = s[n] /\ (j < k => n = j) /\ (~(j < k) => n = j + 1) /\ n # k
    BY <1>2, <1>3
  <2>3. m = n
    BY ZenonT(60), <1>1, <1>6, <2>1, <2>2
  <2> QED BY <1>1, <1>2, <2>1, <2>2, <2>3
<1> QED BY <1>4, <1>5, <1>6

\* The modes and the pictures of devices of which some are set.
SetFrom(m, p) ==
    /\ m \in [GopDevices -> Nat] /\ \A d \in GopDevices : m[d] < Len(DeviceModes[d])
    /\ p \in [GopDevices -> Pictures \cup {BlackPicture}]

LEMMA SomeSet ==
    ASSUME NEW m, NEW p, SetFrom(m, p), NEW list \in Seq(GopDevices), NEW r, NEW failing,
           NEW set, set = Gop!Reached(list, r, failing)
    PROVE  /\ set \subseteq Gop!Held(list)
           /\ SetFrom(Gop!ModesAt(m, set, r), Gop!PicturesAt(p, set))
           /\ \A d \in set : DeviceModes[d][Gop!ModesAt(m, set, r)[d] + 1] = r
<1>1. set \subseteq Gop!Held(list) /\ Gop!Held(list) \subseteq GopDevices
  BY HeldIn DEF Gop!Reached
<1>2. \A d \in set : Gop!Has(d, r)
  BY DEF Gop!Reached
<1>3. \A d \in set : /\ Gop!NumberOn(d, r) \in Nat /\ Gop!NumberOn(d, r) < Len(DeviceModes[d])
                     /\ DeviceModes[d][Gop!NumberOn(d, r) + 1] = r
  BY <1>1, <1>2, Numbered
<1>4. PICK now : /\ now = Gop!ModesAt(m, set, r)
                 /\ now = [d \in GopDevices |-> IF d \in set THEN Gop!NumberOn(d, r) ELSE m[d]]
  BY DEF Gop!ModesAt
<1>5. PICK shown : /\ shown = Gop!PicturesAt(p, set)
                   /\ shown = [d \in GopDevices |-> IF d \in set THEN BlackPicture ELSE p[d]]
  BY DEF Gop!PicturesAt
<1>6. now \in [GopDevices -> Nat] /\ \A d \in GopDevices : now[d] < Len(DeviceModes[d])
  BY <1>3, <1>4 DEF SetFrom
<1>7. shown \in [GopDevices -> Pictures \cup {BlackPicture}]
  BY <1>5 DEF SetFrom
<1>8. \A d \in set : DeviceModes[d][now[d] + 1] = r
  BY <1>1, <1>3, <1>4
<1> QED BY <1>1, <1>4, <1>5, <1>6, <1>7, <1>8 DEF SetFrom

\* Devices that are set to a resolution are in it, and show nothing.
LEMMA DevicesSet ==
    ASSUME GopSound, NEW m, NEW p, SetFrom(m, p),
           NEW list \in Seq(GopDevices), NEW r, NEW failing,
           Gop!DevicesFrom(m, p, list, r, failing)
    PROVE  /\ gopMode' \in [GopDevices -> Nat]
           /\ \A d \in GopDevices : gopMode'[d] < Len(DeviceModes[d])
           /\ picture' \in [GopDevices -> Pictures \cup {BlackPicture}]
           /\ drawn' = BlackPicture
           /\ behind' \subseteq GopDevices /\ gopLagging' \subseteq GopDevices
           /\ \A d \in Gop!Held(list) \ behind' : picture'[d] = BlackPicture
           /\ \A d \in Gop!Held(list) \ gopLagging' : DeviceModes[d][gopMode'[d] + 1] = r
<1>1. PICK set : set = Gop!Reached(list, r, failing)
  OBVIOUS
<1>2. /\ gopMode' = Gop!ModesAt(m, set, r) /\ picture' = Gop!PicturesAt(p, set)
      /\ gopLagging' = (gopLagging \ set) \cup (Gop!Held(list) \ set)
      /\ drawn' = BlackPicture
      /\ behind' = {d \in Gop!Held(list) : picture'[d] # BlackPicture}
  BY <1>1 DEF Gop!DevicesFrom
<1>3. /\ set \subseteq Gop!Held(list) /\ SetFrom(gopMode', picture')
      /\ \A d \in set : DeviceModes[d][gopMode'[d] + 1] = r
  BY <1>1, <1>2, SomeSet
<1>4. Gop!Held(list) \subseteq GopDevices /\ gopLagging \subseteq GopDevices
  BY HeldIn DEF GopSound, Gop!TypeOK
<1>5. behind' \subseteq GopDevices /\ gopLagging' \subseteq GopDevices
  BY <1>2, <1>3, <1>4
<1>6. \A d \in Gop!Held(list) \ behind' : picture'[d] = BlackPicture
  BY <1>2
<1>7. \A d \in Gop!Held(list) \ gopLagging' : DeviceModes[d][gopMode'[d] + 1] = r
  BY <1>2, <1>3
<1> QED BY <1>2, <1>3, <1>5, <1>6, <1>7 DEF SetFrom

\* What they start from is sound.
LEMMA SetFromNow == GopSound => SetFrom(gopMode, picture)
BY DEF GopSound, Gop!TypeOK, SetFrom

\* The mode to take is one of those there are.
LEMMA PreferredIn ==
    ASSUME NEW d \in GopDevices, NEW S, NEW list \in Seq(S)
    PROVE  /\ list # <<>> => Gop!Preferred(d, list) \in 1 .. Len(list)
           /\ list = <<>> => Gop!Preferred(d, list) = 1
<1> DEFINE At(r) == {i \in DOMAIN list : list[i] = r}
<1>1. Len(list) \in Nat /\ DOMAIN list = 1 .. Len(list) /\ (list = <<>> <=> Len(list) = 0)
  BY HeldIn
<1>2. Gop!Preferred(d, list) =
         IF At(Gop!Now(d)) # {} THEN Gop!Min(At(Gop!Now(d)))
         ELSE IF At(SmallMode) # {} THEN Gop!Min(At(SmallMode)) ELSE 1
  BY DEF Gop!Preferred
<1>3. \A r : At(r) # {} => Gop!Min(At(r)) \in 1 .. Len(list)
  <2> SUFFICES ASSUME NEW r, At(r) # {}
               PROVE  Gop!Min(At(r)) \in 1 .. Len(list)
    OBVIOUS
  <2>1. At(r) \subseteq Nat /\ At(r) \subseteq 1 .. Len(list)
    BY <1>1
  <2> HIDE DEF At
  <2> QED BY <2>1, GopMin
<1>4. list = <<>> => \A r : At(r) = {}
  BY <1>1
<1> HIDE DEF At
<1>5. list # <<>> => 1 \in 1 .. Len(list)
  BY <1>1
<1> QED BY <1>2, <1>3, <1>4, <1>5

\* The invariant of the next state, without the operators that hide its primes.
LEMMA GopAfter ==
    ASSUME GopSound',
           \A n \in 1 .. max' : \A d \in Gop!Held(gops)' : forced' \/ Gop!Has(d, buffer'[n]),
           gops' # <<>> /\ max' > 0 =>
              /\ gopLagging' = {} /\ ~forced' => current' < max' /\ buffer'[current' + 1] = info'
              /\ \A d \in Gop!Held(gops)' \ gopLagging' : DeviceModes[d][gopMode'[d] + 1] = info',
           Len(gops') = 1 /\ ~shrunk' => buffer' = DeviceModes[gops'[1]] /\ max' = Len(buffer'),
           gops' # <<>> /\ frame' # BlackPicture => gops' = <<frame'>>,
           \A d \in Gop!Held(gops)' \ behind' : picture'[d] = drawn'
    PROVE  GopInv'
<1>1. Gop!ModesAreCommon'
  BY DEF Gop!ModesAreCommon, Gop!Has, Gop!NumberOn
<1>2. Shared'
  BY DEF Shared, Gop!Now
<1>3. Lent'
  BY DEF Lent
<1>4. Gop!FrameBufferIsLive'
  BY DEF Gop!FrameBufferIsLive, Gop!NoFrameBuffer, GopSound
<1>5. Gop!PictureShared'
  BY DEF Gop!PictureShared
<1> QED BY <1>1, <1>2, <1>3, <1>4, <1>5 DEF GopInv

\* The types of the virtual graphics output.
LEMMA GopTypes ==
    ASSUME GopSound
    PROVE  /\ gops \in Seq(GopDevices) /\ buffer \in Seq(Gop!Resolutions)
           /\ max \in Nat /\ max <= Len(buffer) /\ current \in Nat
           /\ \A n \in 1 .. max : buffer[n] \in Gop!Resolutions
           /\ Gop!Held(gops) \subseteq GopDevices
           /\ \A d \in GopDevices :
                /\ gopMode[d] \in Nat /\ gopMode[d] + 1 \in 1 .. Len(DeviceModes[d])
                /\ Gop!Now(d) \in Gop!Resolutions
                /\ picture[d] \in Pictures \cup {BlackPicture}
<1>1. /\ gops \in Seq(GopDevices) /\ buffer \in Seq(Gop!Resolutions)
      /\ max \in Nat /\ max <= Len(buffer) /\ current \in Nat
      /\ gopMode \in [GopDevices -> Nat]
      /\ \A d \in GopDevices : gopMode[d] < Len(DeviceModes[d])
      /\ picture \in [GopDevices -> Pictures \cup {BlackPicture}]
  BY DEF GopSound, Gop!TypeOK
<1>2. \A n \in 1 .. max : buffer[n] \in Gop!Resolutions
  BY <1>1, HeldIn
<1>3. Gop!Held(gops) \subseteq GopDevices
  BY <1>1, HeldIn
<1>4. ASSUME NEW d \in GopDevices
      PROVE  /\ gopMode[d] \in Nat /\ gopMode[d] + 1 \in 1 .. Len(DeviceModes[d])
             /\ Gop!Now(d) \in Gop!Resolutions
  <2>1. gopMode[d] \in Nat /\ gopMode[d] < Len(DeviceModes[d])
    BY <1>1
  <2>2. /\ Len(DeviceModes[d]) \in Nat
        /\ \A i \in 1 .. Len(DeviceModes[d]) : DeviceModes[d][i] \in Gop!Resolutions
    BY DeviceModesAre
  <2>3. gopMode[d] + 1 \in 1 .. Len(DeviceModes[d])
    BY <2>1, <2>2
  <2> QED BY <2>1, <2>2, <2>3 DEF Gop!Now
<1> QED BY <1>1, <1>2, <1>3, <1>4

\* SetMode keeps the invariant.
LEMMA GopSetModeKeeps ==
    ASSUME GopInv, NEW n \in 0 .. max - 1, Gop!SetMode(n)
    PROVE  GopInv'
<1>1. GopSound
  BY DEF GopInv
<1>2. PICK r, failing : /\ r = buffer[n + 1] /\ Gop!DevicesTo(gops, r, failing)
                        /\ Gop!Shows(gops, n, r)
  BY DEF Gop!SetMode
<1>3. /\ installed /\ UNCHANGED <<gops, installed, buffer, max, forced, shrunk>>
  BY DEF Gop!SetMode
<1>4. /\ gops \in Seq(GopDevices) /\ buffer \in Seq(Gop!Resolutions) /\ max \in Nat
      /\ n \in Nat /\ n < max /\ r \in Gop!Resolutions
  BY <1>1, <1>2, GopTypes
<1>5. /\ gopMode' \in [GopDevices -> Nat]
      /\ \A d \in GopDevices : gopMode'[d] < Len(DeviceModes[d])
      /\ picture' \in [GopDevices -> Pictures \cup {BlackPicture}]
      /\ drawn' = BlackPicture
      /\ behind' \subseteq GopDevices /\ gopLagging' \subseteq GopDevices
      /\ \A d \in Gop!Held(gops) \ behind' : picture'[d] = BlackPicture
      /\ \A d \in Gop!Held(gops) \ gopLagging' : DeviceModes[d][gopMode'[d] + 1] = r
  BY <1>1, <1>2, <1>4, SetFromNow, DevicesSet DEF Gop!DevicesTo
<1>6. /\ current' = n
      /\ Len(gops) = 1 => info' = DeviceModes[gops[1]][gopMode'[gops[1]] + 1] /\ frame' = gops[1]
      /\ Len(gops) # 1 => info' = r /\ frame' = frame
  BY <1>2, Zenon DEF Gop!Shows
<1>7. gops # <<>>
  BY <1>1, <1>3 DEF GopSound
<1>8. /\ info' \in Gop!Resolutions /\ frame' \in GopDevices \cup {BlackPicture}
      /\ \A d \in Gop!Held(gops) \ gopLagging' : DeviceModes[d][gopMode'[d] + 1] = info'
      /\ gopLagging' = {} => info' = r
      /\ frame' # BlackPicture => gops = <<frame'>>
  <2>1. CASE Len(gops) = 1
    <3> DEFINE e == gops[1]
    <3>1. e \in GopDevices /\ e \in Gop!Held(gops) /\ gops = <<e>> /\ Gop!Held(gops) = {e}
      <4>1. /\ e \in GopDevices /\ e \in Gop!Held(gops)
            /\ \A x \in Gop!Held(gops) : x = e
        <5>1. \A i \in 1 .. Len(gops) : gops[i] \in GopDevices /\ gops[i] \in Gop!Held(gops)
          BY <1>4, HeldIn
        <5>2. \A x \in Gop!Held(gops) : \E i \in 1 .. Len(gops) : gops[i] = x
          BY <1>4, HeldIn
        <5> QED BY <2>1, <5>1, <5>2
      <4>2. gops = <<e>>
        BY <1>4, <2>1
      <4> QED BY <4>1, <4>2
    <3> HIDE DEF e
    <3>2. info' = DeviceModes[e][gopMode'[e] + 1] /\ frame' = e
      BY <1>6, <2>1 DEF e
    <3>3. gopMode'[e] + 1 \in 1 .. Len(DeviceModes[e])
      BY <1>5, <3>1, DeviceModesAre
    <3>4. info' \in Gop!Resolutions
      BY <3>1, <3>2, <3>3, DeviceModesAre
    <3> QED BY <1>5, <3>1, <3>2, <3>4
  <2>2. CASE Len(gops) # 1
    <3>1. frame # BlackPicture => gops = <<frame>>
      BY <1>3 DEF GopInv, Gop!FrameBufferIsLive, Gop!NoFrameBuffer
    <3>2. frame = BlackPicture
      BY <2>2, <3>1
    <3> QED BY <1>4, <1>5, <1>6, <2>2, <3>2
  <2> QED BY <2>1, <2>2
<1>9. GopSound'
  <2>1. Gop!TypeOK'
    BY <1>1, <1>3, <1>4, <1>5, <1>6, <1>8 DEF GopSound, Gop!TypeOK, Gop!NoFrameBuffer
  <2> QED BY <1>1, <1>3, <1>5, <2>1 DEF GopSound
<1>10. \A m \in 1 .. max' : \A d \in Gop!Held(gops)' : forced' \/ Gop!Has(d, buffer'[m])
  BY <1>3 DEF GopInv, Gop!ModesAreCommon, Gop!Held
<1>11. Gop!Held(gops)' = Gop!Held(gops)
  BY <1>3 DEF Gop!Held
<1>12. Len(gops') = 1 /\ ~shrunk' => buffer' = DeviceModes[gops'[1]] /\ max' = Len(buffer')
  BY <1>3 DEF GopInv, Lent
<1>13. gopLagging' = {} => current' < max' /\ buffer'[current' + 1] = info'
  BY <1>2, <1>3, <1>4, <1>6, <1>8
<1> QED BY <1>3, <1>5, <1>8, <1>9, <1>10, <1>11, <1>12, <1>13, GopAfter

\* The first device lends what it has.
LEMMA GopFirstKeeps ==
    ASSUME GopInv, NEW d \in GopDevices, Gop!AddFirst(d)
    PROVE  GopInv'
<1>1. /\ GopSound /\ gops = <<>> /\ gops' = <<d>>
      /\ buffer' = DeviceModes[d] /\ max' = Len(DeviceModes[d])
      /\ current' = Gop!NumberOn(d, Gop!Now(d)) /\ info' = Gop!Now(d) /\ frame' = d
      /\ installed' = TRUE /\ drawn' = picture[d] /\ behind' = {} /\ gopLagging' = {}
      /\ forced' = FALSE /\ shrunk' = FALSE /\ gopMode' = gopMode /\ picture' = picture
  BY DEF GopInv, Gop!AddFirst
<1>2. /\ DeviceModes[d] \in Seq(Gop!Resolutions) /\ Len(DeviceModes[d]) \in Nat
      /\ DOMAIN DeviceModes[d] = 1 .. Len(DeviceModes[d])
  BY DeviceModesAre
<1>3. /\ Gop!Now(d) \in Gop!Resolutions /\ picture[d] \in Pictures \cup {BlackPicture}
      /\ gopMode[d] + 1 \in 1 .. Len(DeviceModes[d])
  BY <1>1, GopTypes
<1>4. Gop!Now(d) \in Gop!Held(DeviceModes[d])
  BY <1>2, <1>3 DEF Gop!Now, Gop!Held
<1>5. /\ Gop!NumberOn(d, Gop!Now(d)) \in Nat
      /\ Gop!NumberOn(d, Gop!Now(d)) < Len(DeviceModes[d])
      /\ DeviceModes[d][Gop!NumberOn(d, Gop!Now(d)) + 1] = Gop!Now(d)
  BY <1>4, Numbered
<1>6. <<d>> \in Seq(GopDevices) /\ Len(<<d>>) = 1 /\ Gop!Held(<<d>>) = {d}
  BY DEF Gop!Held
<1>7. Gop!Held(gops)' = {d}
  BY <1>1, <1>6 DEF Gop!Held
<1>8. GopSound'
  <2>1. Gop!TypeOK'
    BY <1>1, <1>2, <1>3, <1>5, <1>6 DEF GopSound, Gop!TypeOK, Gop!NoFrameBuffer
  <2> QED BY <1>1, <1>2, <1>6, <2>1 DEF GopSound
<1>9. \A m \in 1 .. max' : \A e \in Gop!Held(gops)' : forced' \/ Gop!Has(e, buffer'[m])
  <2> SUFFICES ASSUME NEW m \in 1 .. Len(DeviceModes[d])
               PROVE  Gop!Has(d, DeviceModes[d][m])
    BY <1>1, <1>7
  <2>1. DeviceModes[d][m] \in Gop!Held(DeviceModes[d])
    BY <1>2 DEF Gop!Held
  <2> QED BY <2>1, Numbered
<1>10. current' < max' /\ buffer'[current' + 1] = info'
  BY <1>1, <1>5
<1>11. \A e \in Gop!Held(gops)' : DeviceModes[e][gopMode'[e] + 1] = info'
  BY <1>1, <1>7 DEF Gop!Now
<1>12. \A e \in Gop!Held(gops)' : picture'[e] = drawn'
  BY <1>1, <1>7
<1>13. buffer' = DeviceModes[gops'[1]] /\ max' = Len(buffer')
  BY <1>1
<1> QED BY <1>1, <1>8, <1>9, <1>10, <1>11, <1>12, <1>13, GopAfter

\* A device that leaves is forgotten.
LEMMA GopDeleteKeeps ==
    ASSUME GopInv, NEW d \in GopDevices, Gop!DeleteDevice(d)
    PROVE  GopInv'
<1> GopSound
  BY DEF GopInv
<1>1. /\ gops \in Seq(GopDevices)
      /\ \A i, j \in DOMAIN gops : gops[i] = gops[j] => i = j
      /\ shrunk' = TRUE /\ behind' = behind \ {d}
      /\ UNCHANGED <<buffer, max, current, info, frame, gopMode, picture, drawn,
                     gopLagging, forced>>
  <2>1. gops \in Seq(GopDevices) /\ \A i, j \in DOMAIN gops : gops[i] = gops[j] => i = j
    BY DEF GopSound, Gop!TypeOK
  <2>2. /\ shrunk' = TRUE /\ behind' = behind \ {d}
        /\ UNCHANGED <<buffer, max, current, info, frame, gopMode, picture, drawn,
                       gopLagging, forced>>
    BY Zenon DEF Gop!DeleteDevice
  <2> QED BY <2>1, <2>2
<1> PICK list : list = gops'
  OBVIOUS
<1>2. PICK k \in DOMAIN gops :
         /\ gops[k] = d
         /\ list = [i \in 1 .. Len(gops) - 1 |-> IF i < k THEN gops[i] ELSE gops[i + 1]]
  BY DEF Gop!DeleteDevice
<1>3. /\ list \in Seq(GopDevices) /\ Len(list) = Len(gops) - 1
      /\ Gop!Held(list) = Gop!Held(gops) \ {d}
      /\ \A i, j \in DOMAIN list : list[i] = list[j] => i = j
  <2> PICK s \in Seq(GopDevices) : s = gops
    BY <1>1
  <2>1. /\ k \in DOMAIN s /\ \A i, j \in DOMAIN s : s[i] = s[j] => i = j
        /\ list = [i \in 1 .. Len(s) - 1 |-> IF i < k THEN s[i] ELSE s[i + 1]]
    BY <1>1, <1>2
  <2>2. /\ list \in Seq(GopDevices) /\ Len(list) = Len(s) - 1
        /\ Gop!Held(list) = Gop!Held(s) \ {s[k]}
        /\ \A i, j \in DOMAIN list : list[i] = list[j] => i = j
    BY SMTT(40), <2>1, OneLess
  <2> QED BY <1>2, <2>2
<1>4. installed' = (list # <<>>)
  BY <1>2 DEF Gop!DeleteDevice
<1>5. Gop!Held(gops)' = Gop!Held(list)
  BY <1>2 DEF Gop!Held
<1>6. gops # <<>>
  BY <1>2
<1>7. GopSound'
  <2>1. installed' \in BOOLEAN /\ (installed' <=> gops' # <<>>)
    BY <1>2, <1>4, Zenon
  <2>2. Gop!TypeOK'
    BY <1>1, <1>2, <1>3, <2>1 DEF GopSound, Gop!TypeOK, Gop!NoFrameBuffer
  <2>3. \A i, j \in DOMAIN gops' : gops'[i] = gops'[j] => i = j
    BY <1>2, <1>3
  <2> QED BY <1>1, <2>1, <2>2, <2>3 DEF GopSound
<1>8. \A m \in 1 .. max' : \A e \in Gop!Held(gops)' : forced' \/ Gop!Has(e, buffer'[m])
  BY <1>1, <1>3, <1>5 DEF GopInv, Gop!ModesAreCommon
<1>9. max' > 0 =>
        /\ gopLagging' = {} /\ ~forced' => current' < max' /\ buffer'[current' + 1] = info'
        /\ \A e \in Gop!Held(gops)' \ gopLagging' : DeviceModes[e][gopMode'[e] + 1] = info'
  BY <1>1, <1>3, <1>5, <1>6 DEF GopInv, Shared, Gop!Now
<1>10. gops' # <<>> /\ frame' # BlackPicture => gops' = <<frame'>>
  <2> SUFFICES ASSUME frame # BlackPicture
               PROVE  gops' = <<>>
    BY <1>1
  <2>1. gops = <<frame>>
    BY <1>6 DEF GopInv, GopSound, Gop!FrameBufferIsLive, Gop!NoFrameBuffer
  <2>2. Len(list) = 0
    BY <1>3, <2>1
  <2> QED BY <1>2, <1>3, <2>2, HeldIn
<1>11. \A e \in Gop!Held(gops)' \ behind' : picture'[e] = drawn'
  BY <1>1, <1>3, <1>5 DEF GopInv, Gop!PictureShared
<1> QED BY <1>1, <1>7, <1>8, <1>9, <1>10, <1>11, GopAfter

\* A picture is drawn on all devices but those that fail.
LEMMA GopDrawKeeps ==
    ASSUME GopInv, NEW p \in Pictures, Gop!Draw(p)
    PROVE  GopInv'
<1>1. /\ GopSound /\ Gop!Held(gops) \subseteq GopDevices
      /\ picture \in [GopDevices -> Pictures \cup {BlackPicture}]
  BY GopTypes DEF GopInv, GopSound, Gop!TypeOK
<1>2. PICK failing \in SUBSET (FaultyGops \cap Gop!Held(gops)) :
         /\ picture' = [d \in GopDevices |->
                          IF d \in Gop!Held(gops) \ failing THEN p ELSE picture[d]]
         /\ behind' = failing
  BY DEF Gop!Draw
<1>3. /\ drawn' = p
      /\ UNCHANGED <<gops, installed, buffer, max, current, info, frame, gopMode,
                     gopLagging, forced, shrunk>>
  BY DEF Gop!Draw, Gop!virtual
<1>4. GopSound'
  <2>1. picture' \in [GopDevices -> Pictures \cup {BlackPicture}]
    BY <1>1, <1>2
  <2>2. Gop!TypeOK'
    BY <1>1, <1>2, <1>3, <2>1 DEF GopSound, Gop!TypeOK, Gop!NoFrameBuffer
  <2> QED BY <1>1, <1>3, <2>2 DEF GopSound
<1>5. Gop!Held(gops)' = Gop!Held(gops)
  BY <1>3 DEF Gop!Held
<1>6. \A m \in 1 .. max' : \A e \in Gop!Held(gops)' : forced' \/ Gop!Has(e, buffer'[m])
  BY <1>3, <1>5 DEF GopInv, Gop!ModesAreCommon
<1>7. gops' # <<>> /\ max' > 0 =>
        /\ gopLagging' = {} /\ ~forced' => current' < max' /\ buffer'[current' + 1] = info'
        /\ \A e \in Gop!Held(gops)' \ gopLagging' : DeviceModes[e][gopMode'[e] + 1] = info'
  BY <1>3, <1>5 DEF GopInv, Shared, Gop!Now
<1>8. Len(gops') = 1 /\ ~shrunk' => buffer' = DeviceModes[gops'[1]] /\ max' = Len(buffer')
  BY <1>3 DEF GopInv, Lent
<1>9. gops' # <<>> /\ frame' # BlackPicture => gops' = <<frame'>>
  BY <1>3 DEF GopInv, GopSound, Gop!FrameBufferIsLive, Gop!NoFrameBuffer
<1>10. \A e \in Gop!Held(gops)' \ behind' : picture'[e] = drawn'
  BY <1>1, <1>2, <1>3, <1>5
<1> QED BY <1>4, <1>6, <1>7, <1>8, <1>9, <1>10, GopAfter

\* The modes in common are modes of all devices, old ones and the new one.
LEMMA CommonIs ==
    ASSUME GopInv, NEW d \in GopDevices, NEW list, list = Gop!Common(d)
    PROVE  /\ list \in Seq(Gop!Resolutions) /\ Len(list) \in Nat /\ Len(list) <= max
           /\ list = <<>> <=> Len(list) = 0
           /\ \A n \in 1 .. Len(list) :
                /\ list[n] \in Gop!Resolutions /\ Gop!Has(d, list[n])
                /\ \A e \in Gop!Held(gops) : forced \/ Gop!Has(e, list[n])
<1>1. GopSound
  BY DEF GopInv
<1> DEFINE those == Gop!Held(DeviceModes[d])
<1>2. list = Gop!MatchedModes(those)
  BY DEF Gop!Common
<1> HIDE DEF those
<1>3. /\ list \in Seq(Gop!Resolutions) /\ Len(list) <= max
      /\ \A n \in 1 .. Len(list) :
           list[n] \in those /\ \E k \in 1 .. max : buffer[k] = list[n]
  BY <1>1, <1>2, Matched
<1>4. /\ Len(list) \in Nat /\ (list = <<>> <=> Len(list) = 0)
      /\ \A n \in 1 .. Len(list) : list[n] \in Gop!Resolutions
  BY <1>3, HeldIn
<1>5. ASSUME NEW n \in 1 .. Len(list)
      PROVE  Gop!Has(d, list[n]) /\ \A e \in Gop!Held(gops) : forced \/ Gop!Has(e, list[n])
  <2>1. Gop!Has(d, list[n])
    BY <1>3, Numbered DEF those
  <2>2. PICK k \in 1 .. max : buffer[k] = list[n]
    BY <1>3
  <2>3. \A e \in Gop!Held(gops) : forced \/ Gop!Has(e, buffer[k])
    BY DEF GopInv, Gop!ModesAreCommon
  <2> QED BY <2>1, <2>2, <2>3
<1> QED BY <1>3, <1>4, <1>5

\* What a device that joins the others leaves: the modes in common, the one that
\* is set among them, and the new device in it if it could be set.
Joined(d, list, modes) ==
    /\ gops' = Append(gops, d) /\ max' = Len(list) /\ frame' = BlackPicture
    /\ shrunk' = FALSE /\ installed' = installed
    /\ modes \in Seq(Gop!Resolutions)
    /\ list # <<>> => modes = list
    /\ list = <<>> => Len(modes) = 1

\* The rest of the invariant after a device has joined.
LEMMA JoinedKeeps ==
    ASSUME GopInv, NEW d \in GopDevices, gops # <<>>, d \notin Gop!Held(gops),
           NEW list, list = Gop!Common(d), NEW modes, Joined(d, list, modes),
           buffer' \in Seq(Gop!Resolutions), Len(buffer') = Len(modes),
           forced' \in BOOLEAN, forced => forced', ~forced' => buffer' = modes,
           current' \in Nat, info' \in Gop!Resolutions,
           gopMode' \in [GopDevices -> Nat],
           \A e \in GopDevices : gopMode'[e] < Len(DeviceModes[e]),
           picture' \in [GopDevices -> Pictures \cup {BlackPicture}],
           drawn' \in Pictures \cup {BlackPicture},
           behind' \subseteq GopDevices, gopLagging' \subseteq GopDevices,
           \A e \in (Gop!Held(gops) \cup {d}) \ behind' : picture'[e] = drawn',
           list # <<>> =>
              /\ gopLagging' = {} /\ ~forced' => current' < Len(list) /\ modes[current' + 1] = info'
              /\ \A e \in (Gop!Held(gops) \cup {d}) \ gopLagging' :
                   DeviceModes[e][gopMode'[e] + 1] = info'
    PROVE  GopInv'
<1>1. GopSound /\ gops \in Seq(GopDevices) /\ installed /\ max \in Nat
  BY GopTypes DEF GopInv, GopSound
<1>2. \A i, j \in DOMAIN gops : gops[i] = gops[j] => i = j
  BY <1>1 DEF GopSound
<1>3. PICK new : new = gops'
  OBVIOUS
<1>4. /\ new \in Seq(GopDevices) /\ Len(new) = Len(gops) + 1 /\ Len(gops) \in Nat \ {0}
      /\ Gop!Held(new) = Gop!Held(gops) \cup {d}
      /\ \A i, j \in DOMAIN new : new[i] = new[j] => i = j
  <2>1. new = Append(gops, d)
    BY <1>3 DEF Joined
  <2>2. Len(gops) \in Nat \ {0}
    BY <1>1, HeldIn
  <2> QED BY SMTT(40), <1>1, <1>2, <2>1, <2>2, OneMore
<1>5. /\ Len(list) \in Nat /\ list \in Seq(Gop!Resolutions) /\ (list = <<>> <=> Len(list) = 0)
      /\ \A n \in 1 .. Len(list) :
            /\ Gop!Has(d, list[n])
            /\ \A e \in Gop!Held(gops) : forced \/ Gop!Has(e, list[n])
  BY CommonIs
<1>6. /\ max' = Len(list) /\ frame' = BlackPicture /\ shrunk' = FALSE /\ installed' = installed
      /\ (list # <<>> => modes = list) /\ (list = <<>> => Len(modes) = 1)
  BY DEF Joined
<1>7. new # <<>>
  BY <1>4, HeldIn
<1>8. GopSound'
  <2>1. Gop!TypeOK'
    BY <1>1, <1>3, <1>4, <1>5, <1>6 DEF Gop!TypeOK, Gop!NoFrameBuffer
  <2>2. max' <= Len(buffer')
    BY <1>5, <1>6
  <2> QED BY <1>1, <1>3, <1>4, <1>6, <1>7, <2>1, <2>2 DEF GopSound
<1>9. Gop!Held(gops)' = Gop!Held(gops) \cup {d}
  BY ZenonT(60), <1>3, <1>4 DEF Gop!Held
<1>10. ASSUME NEW n \in 1 .. max', NEW e \in Gop!Held(gops)', ~forced'
       PROVE  Gop!Has(e, buffer'[n])
  <2>1. n \in 1 .. Len(list) /\ list # <<>>
    BY <1>5, <1>6
  <2>2. buffer'[n] = list[n] /\ ~forced
    BY <1>6, <1>10, <2>1
  <2> QED BY <1>5, <1>9, <2>1, <2>2
<1>11. \A n \in 1 .. max' : \A e \in Gop!Held(gops)' : forced' \/ Gop!Has(e, buffer'[n])
  BY <1>10
<1>12. max' > 0 =>
         /\ gopLagging' = {} /\ ~forced' => current' < max' /\ buffer'[current' + 1] = info'
         /\ \A e \in Gop!Held(gops)' \ gopLagging' : DeviceModes[e][gopMode'[e] + 1] = info'
  <2> SUFFICES ASSUME Len(list) > 0
               PROVE  /\ gopLagging' = {} /\ ~forced' =>
                            current' < Len(list) /\ buffer'[current' + 1] = info'
                      /\ \A e \in Gop!Held(gops)' \ gopLagging' :
                            DeviceModes[e][gopMode'[e] + 1] = info'
    BY <1>6
  <2>1. list # <<>>
    BY <1>5
  <2>2. \A e \in Gop!Held(gops)' \ gopLagging' : DeviceModes[e][gopMode'[e] + 1] = info'
    BY <1>9, <2>1
  <2> QED BY <2>1, <2>2
<1>13. Len(gops') # 1
  BY <1>3, <1>4
<1>14. \A e \in Gop!Held(gops)' \ behind' : picture'[e] = drawn'
  BY <1>9
<1> QED BY <1>6, <1>8, <1>11, <1>12, <1>13, <1>14, GopAfter

\* The consoles are in the mode to take: only the new device may be set.
LEMMA GopJoinKeeps ==
    ASSUME GopInv, NEW d \in GopDevices, gops # <<>>, d \notin Gop!Held(gops),
           NEW list, list = Gop!Common(d), NEW modes, Joined(d, list, modes),
           NEW n \in 1 .. Len(modes), modes[n] = info,
           Gop!JoinMode(d, info, n - 1), buffer' = modes
    PROVE  GopInv'
<1>1. GopSound /\ gopMode \in [GopDevices -> Nat] /\ info \in Gop!Resolutions
      /\ picture \in [GopDevices -> Pictures \cup {BlackPicture}]
      /\ drawn \in Pictures \cup {BlackPicture}
      /\ behind \subseteq GopDevices /\ gopLagging \subseteq GopDevices /\ forced \in BOOLEAN
      /\ \A e \in GopDevices : gopMode[e] < Len(DeviceModes[e])
  BY DEF GopInv, GopSound, Gop!TypeOK
<1>2. /\ current' = n - 1 /\ info' = info /\ behind' = behind \cup {d} /\ forced' = forced
      /\ drawn' = drawn
  BY DEF Gop!JoinMode
<1>3. \/ /\ Gop!Now(d) = info /\ gopMode' = gopMode /\ picture' = picture
         /\ gopLagging' = gopLagging \ {d}
      \/ /\ gopLagging' = gopLagging \cup {d} /\ gopMode' = gopMode /\ picture' = picture
      \/ /\ Gop!Has(d, info)
         /\ gopMode' = [gopMode EXCEPT ![d] = Gop!NumberOn(d, info)]
         /\ picture' = [picture EXCEPT ![d] = BlackPicture]
         /\ gopLagging' = gopLagging \ {d}
  BY DEF Gop!JoinMode
<1>4. Gop!Held(gops) \subseteq GopDevices
  BY <1>1, GopTypes
<1>5. Gop!Has(d, info) => /\ Gop!NumberOn(d, info) \in Nat
                          /\ Gop!NumberOn(d, info) < Len(DeviceModes[d])
                          /\ DeviceModes[d][Gop!NumberOn(d, info) + 1] = info
  BY Numbered
<1>6. gopMode' \in [GopDevices -> Nat]
  BY <1>1, <1>3, <1>5
<1>7. \A e \in GopDevices : gopMode'[e] < Len(DeviceModes[e])
  BY <1>1, <1>3, <1>5
<1>8. /\ picture' \in [GopDevices -> Pictures \cup {BlackPicture}]
      /\ \A e \in GopDevices \ {d} : picture'[e] = picture[e] /\ gopMode'[e] = gopMode[e]
  BY <1>1, <1>3
<1>9. gopLagging' \subseteq GopDevices /\ behind' \subseteq GopDevices
      /\ \A e \in gopLagging : e # d => e \in gopLagging'
  BY <1>1, <1>2, <1>3
<1>10. \A e \in (Gop!Held(gops) \cup {d}) \ behind' : picture'[e] = drawn'
  BY <1>2, <1>4, <1>8 DEF GopInv, Gop!PictureShared
<1>11. \A e \in Gop!Held(gops) \ gopLagging : list # <<>> => DeviceModes[e][gopMode[e] + 1] = info
  <2>1. list # <<>> => max > 0
    <3>1. max \in Nat
      BY <1>1, GopTypes
    <3> QED BY <3>1, CommonIs
  <2> QED BY <2>1 DEF GopInv, Shared, Gop!Now
<1>12. d \notin gopLagging' => DeviceModes[d][gopMode'[d] + 1] = info
  BY <1>1, <1>3, <1>5 DEF Gop!Now
<1>13. ASSUME list # <<>>, NEW e \in (Gop!Held(gops) \cup {d}) \ gopLagging'
       PROVE  DeviceModes[e][gopMode'[e] + 1] = info'
  <2>1. CASE e = d
    BY <1>2, <1>12, <1>13, <2>1
  <2>2. CASE e # d
    BY <1>2, <1>4, <1>8, <1>9, <1>11, <1>13, <2>2
  <2> QED BY <2>1, <2>2
<1>14. modes \in Seq(Gop!Resolutions) /\ Len(modes) \in Nat /\ (list # <<>> => modes = list)
  BY HeldIn DEF Joined
<1>15. current' \in Nat /\ (list # <<>> => current' < Len(list) /\ modes[current' + 1] = info')
  BY <1>2, <1>14
<1>16. Len(buffer') = Len(modes) /\ (~forced' => buffer' = modes) /\ (forced => forced')
  BY <1>2
<1>17. list # <<>> =>
         /\ gopLagging' = {} /\ ~forced' => current' < Len(list) /\ modes[current' + 1] = info'
         /\ \A e \in (Gop!Held(gops) \cup {d}) \ gopLagging' :
              DeviceModes[e][gopMode'[e] + 1] = info'
  BY <1>13, <1>15
<1> QED BY <1>1, <1>2, <1>6, <1>7, <1>8, <1>9, <1>10, <1>14, <1>15, <1>16, <1>17, JoinedKeeps

\* All are set, to the mode to take or to 800 x 600 that is written over one.
LEMMA GopForceKeeps ==
    ASSUME GopInv, NEW d \in GopDevices, gops # <<>>, d \notin Gop!Held(gops),
           NEW list, list = Gop!Common(d), NEW modes, Joined(d, list, modes),
           NEW n \in 1 .. Len(modes), Gop!ForceMode(d, modes, n, Len(list))
    PROVE  GopInv'
<1>1. GopSound /\ gops \in Seq(GopDevices) /\ modes \in Seq(Gop!Resolutions)
  BY DEF GopInv, GopSound, Gop!TypeOK, Joined
<1>2. /\ gopMode \in [GopDevices -> Nat] /\ info \in Gop!Resolutions
      /\ picture \in [GopDevices -> Pictures \cup {BlackPicture}]
      /\ drawn \in Pictures \cup {BlackPicture}
      /\ behind \subseteq GopDevices /\ gopLagging \subseteq GopDevices /\ forced \in BOOLEAN
      /\ \A e \in GopDevices : gopMode[e] < Len(DeviceModes[e])
  BY <1>1 DEF GopSound, Gop!TypeOK
<1>3. PICK new : new = gops'
  OBVIOUS
<1>4. new \in Seq(GopDevices) /\ Gop!Held(new) = Gop!Held(gops) \cup {d}
  <2>1. new = Append(gops, d)
    BY <1>3 DEF Joined
  <2> QED BY <1>1, <2>1, OneMore
<1>5. PICK first, failing \in SUBSET (FaultyGops \cap Gop!Held(new)) :
        LET r     == modes[n]
            fails == \/ Len(list) = 0
                     \/ \E e \in Gop!Held(new) : e \in first \/ ~Gop!Has(e, r)
            last  == IF fails THEN SmallMode ELSE r
        IN  /\ buffer' = IF fails THEN [modes EXCEPT ![1] = SmallMode] ELSE modes
            /\ forced' = (forced \/ fails)
            /\ IF Len(list) = 0
               THEN /\ current' = Gop!Unset
                    /\ gopLagging' = gopLagging \cup {d} /\ behind' = behind \cup {d}
                    /\ UNCHANGED <<info, gopMode, picture, drawn>>
               ELSE /\ current' = (IF fails THEN 0 ELSE n - 1)
                    /\ info' = last
                    /\ IF fails
                       THEN LET set == Gop!Reached(new, r, first)
                            IN  Gop!DevicesFrom(Gop!ModesAt(gopMode, set, r),
                                                Gop!PicturesAt(picture, set),
                                                new, SmallMode, failing)
                       ELSE Gop!DevicesTo(new, r, {})
  BY <1>3 DEF Gop!ForceMode
<1> DEFINE fails == Len(list) = 0 \/ \E e \in Gop!Held(new) : e \in first \/ ~Gop!Has(e, modes[n])
           last == IF fails THEN SmallMode ELSE modes[n]
<1>15. Len(list) # 0 =>
         \E m, p, missed : SetFrom(m, p) /\ Gop!DevicesFrom(m, p, new, last, missed)
  <2> SUFFICES ASSUME Len(list) # 0
               PROVE  \E m, p, missed : SetFrom(m, p) /\ Gop!DevicesFrom(m, p, new, last, missed)
    OBVIOUS
  <2>1. SetFrom(gopMode, picture)
    BY <1>1, SetFromNow
  <2>2. CASE fails
    <3>1. PICK set : set = Gop!Reached(new, modes[n], first)
      OBVIOUS
    <3>2. PICK m, p : m = Gop!ModesAt(gopMode, set, modes[n]) /\ p = Gop!PicturesAt(picture, set)
      OBVIOUS
    <3>3. SetFrom(m, p)
      BY <1>4, <2>1, <3>1, <3>2, SomeSet
    <3>4. Gop!DevicesFrom(m, p, new, SmallMode, failing)
      BY <1>5, <2>2, <3>1, <3>2
    <3> QED BY <2>2, <3>3, <3>4
  <2>3. CASE ~fails
    <3>1. Gop!DevicesTo(new, modes[n], {})
      BY <1>5, <2>3
    <3> QED BY <2>1, <2>3, <3>1 DEF Gop!DevicesTo
  <2> QED BY <2>2, <2>3
<1>6. /\ buffer' = IF fails THEN [modes EXCEPT ![1] = SmallMode] ELSE modes
      /\ forced' = (forced \/ fails)
      /\ Len(list) = 0 =>
           /\ current' = 65535 /\ gopLagging' = gopLagging \cup {d} /\ behind' = behind \cup {d}
           /\ info' = info /\ gopMode' = gopMode /\ picture' = picture /\ drawn' = drawn
      /\ Len(list) # 0 =>
           /\ current' = (IF fails THEN 0 ELSE n - 1)
           /\ info' = last
  BY <1>5 DEF Gop!Unset
<1>7. last \in Gop!Resolutions /\ SmallMode \in Gop!Resolutions
  <2>1. SmallMode \in Gop!Resolutions
    BY DEF Gop!Resolutions
  <2>2. modes[n] \in Gop!Resolutions
    <3>1. \A i \in 1 .. Len(modes) : modes[i] \in Gop!Resolutions
      BY <1>1, HeldIn
    <3> QED BY <3>1
  <2> QED BY <2>1, <2>2
<1>8. Len(list) = 0 => fails
  OBVIOUS
<1>9. ~fails => last = modes[n]
  OBVIOUS
<1> HIDE DEF fails, last
<1>10. forced' \in BOOLEAN /\ (forced => forced') /\ (~forced' => ~fails)
  <2>1. forced' = (forced \/ fails)
    BY <1>6
  <2> QED BY <1>2, <2>1, Zenon
<1>11. /\ buffer' \in Seq(Gop!Resolutions) /\ Len(buffer') = Len(modes)
       /\ (~forced' => buffer' = modes)
  <2>1. CASE ~fails
    BY <1>1, <1>6, <2>1
  <2>2. CASE fails
    <3> DEFINE R == Gop!Resolutions
    <3>1. modes \in Seq(R) /\ SmallMode \in R /\ buffer' = [modes EXCEPT ![1] = SmallMode]
      BY <1>1, <1>6, <1>7, <2>2
    <3> HIDE DEF R
    <3>2. 1 \in 1 .. Len(modes)
      BY <1>1, HeldIn
    <3>3. buffer' \in Seq(R) /\ Len(buffer') = Len(modes)
      BY <3>1, <3>2, ExceptSeq
    <3> QED BY <1>10, <2>2, <3>3 DEF R
  <2> QED BY <2>1, <2>2
<1>12. Len(list) \in Nat /\ (list = <<>> <=> Len(list) = 0) /\ (list # <<>> => modes = list)
  BY CommonIs DEF Joined
<1>13. CASE list = <<>>
  <2>1. /\ current' \in Nat /\ info' \in Gop!Resolutions
        /\ gopMode' \in [GopDevices -> Nat]
        /\ \A e \in GopDevices : gopMode'[e] < Len(DeviceModes[e])
        /\ picture' \in [GopDevices -> Pictures \cup {BlackPicture}]
        /\ drawn' \in Pictures \cup {BlackPicture}
        /\ behind' \subseteq GopDevices /\ gopLagging' \subseteq GopDevices
    BY <1>2, <1>6, <1>12, <1>13
  <2>2. \A e \in (Gop!Held(gops) \cup {d}) \ behind' : picture'[e] = drawn'
    BY <1>6, <1>12, <1>13 DEF GopInv, Gop!PictureShared
  <2> QED BY <1>10, <1>11, <1>13, <2>1, <2>2, JoinedKeeps
<1>14. CASE list # <<>>
  <2>1. current' = (IF fails THEN 0 ELSE n - 1) /\ info' = last
    BY <1>6, <1>12, <1>14
  <2>7. PICK m, p, missed : SetFrom(m, p) /\ Gop!DevicesFrom(m, p, new, last, missed)
    BY <1>12, <1>14, <1>15
  <2>2. /\ gopMode' \in [GopDevices -> Nat]
        /\ \A e \in GopDevices : gopMode'[e] < Len(DeviceModes[e])
        /\ picture' \in [GopDevices -> Pictures \cup {BlackPicture}]
        /\ drawn' = BlackPicture
        /\ behind' \subseteq GopDevices /\ gopLagging' \subseteq GopDevices
        /\ \A e \in Gop!Held(new) \ behind' : picture'[e] = BlackPicture
        /\ \A e \in Gop!Held(new) \ gopLagging' : DeviceModes[e][gopMode'[e] + 1] = last
    BY <1>1, <1>4, <2>7, DevicesSet
  <2>3. current' \in Nat /\ (~forced' => current' < Len(list) /\ modes[current' + 1] = info')
    <3>1. CASE fails
      BY <1>10, <2>1, <3>1
    <3>2. CASE ~fails
      <4>1. n \in Nat /\ n \in 1 .. Len(list) /\ current' = n - 1 /\ info' = modes[n]
        BY <1>9, <1>12, <1>14, <2>1, <3>2
      <4> QED BY <1>12, <4>1
    <3> QED BY <3>1, <3>2
  <2>4. \A e \in (Gop!Held(gops) \cup {d}) \ behind' : picture'[e] = drawn'
    BY <1>4, <2>2
  <2>5. \A e \in (Gop!Held(gops) \cup {d}) \ gopLagging' :
           DeviceModes[e][gopMode'[e] + 1] = info'
    BY <1>4, <2>1, <2>2
  <2>6. info' \in Gop!Resolutions /\ drawn' \in Pictures \cup {BlackPicture}
    BY <1>7, <2>1, <2>2
  <2> QED BY <1>10, <1>11, <1>14, <2>2, <2>3, <2>4, <2>5, <2>6, JoinedKeeps
<1> QED BY <1>13, <1>14

\* A device that joins the others keeps the invariant.
LEMMA GopNextKeeps ==
    ASSUME GopInv, NEW d \in GopDevices, Gop!AddNext(d)
    PROVE  GopInv'
<1>1. PICK list : list = Gop!Common(d)
  OBVIOUS
<1>2. /\ gops # <<>> /\ d \notin Gop!Held(gops) /\ gops' = Append(gops, d)
      /\ max' = Len(list) /\ frame' = BlackPicture /\ shrunk' = FALSE /\ installed' = installed
  BY <1>1 DEF Gop!AddNext, Gop!NoFrameBuffer
<1>3. PICK junk \in Gop!Resolutions :
        LET modes == IF list = <<>> THEN <<junk>> ELSE list
            n     == Gop!Preferred(d, list)
        IN  IF modes[n] = info
            THEN Gop!JoinMode(d, modes[n], n - 1) /\ buffer' = modes
            ELSE Gop!ForceMode(d, modes, n, Len(list))
  BY <1>1 DEF Gop!AddNext
<1>4. PICK modes, n : /\ modes = IF list = <<>> THEN <<junk>> ELSE list
                      /\ n = Gop!Preferred(d, list)
  OBVIOUS
<1>5. /\ modes[n] = info => Gop!JoinMode(d, info, n - 1) /\ buffer' = modes
      /\ modes[n] # info => Gop!ForceMode(d, modes, n, Len(list))
  BY <1>3, <1>4
<1>6. list \in Seq(Gop!Resolutions) /\ Len(list) \in Nat /\ (list = <<>> <=> Len(list) = 0)
  BY <1>1, CommonIs
<1>7. modes \in Seq(Gop!Resolutions) /\ (list = <<>> => Len(modes) = 1)
  <2> DEFINE R == Gop!Resolutions
  <2>1. junk \in R
    OBVIOUS
  <2> HIDE DEF R
  <2>2. <<junk>> \in Seq(R) /\ Len(<<junk>>) = 1
    BY <2>1
  <2> QED BY <1>4, <1>6, <2>2 DEF R
<1>8. n \in 1 .. Len(modes)
  <2>1. list # <<>> => n \in 1 .. Len(list)
    BY <1>4, <1>6, PreferredIn
  <2>2. list = <<>> => n = 1
    BY <1>4, <1>6, PreferredIn
  <2> QED BY <1>4, <1>7, <2>1, <2>2
<1>9. Joined(d, list, modes)
  BY <1>2, <1>4, <1>7 DEF Joined
<1>10. CASE modes[n] = info
  BY <1>1, <1>2, <1>5, <1>8, <1>9, <1>10, GopJoinKeeps
<1>11. CASE modes[n] # info
  BY <1>1, <1>2, <1>5, <1>8, <1>9, <1>11, GopForceKeeps
<1> QED BY <1>10, <1>11

\* Every step of the virtual graphics output keeps the invariant.
LEMMA GopStepKeeps == GopInv /\ [Gop!Next]_Gop!vars => GopInv'
<1> SUFFICES ASSUME GopInv, [Gop!Next]_Gop!vars
             PROVE  GopInv'
  OBVIOUS
<1>1. ASSUME NEW d \in GopDevices, Gop!AddFirst(d)
      PROVE  GopInv'
  BY <1>1, GopFirstKeeps
<1>2. ASSUME NEW d \in GopDevices, Gop!AddNext(d)
      PROVE  GopInv'
  BY <1>2, GopNextKeeps
<1>3. ASSUME NEW d \in GopDevices, Gop!DeleteDevice(d)
      PROVE  GopInv'
  BY <1>3, GopDeleteKeeps
<1>4. ASSUME NEW n \in 0 .. max - 1, Gop!SetMode(n)
      PROVE  GopInv'
  BY <1>4, GopSetModeKeeps
<1>5. ASSUME NEW p \in Pictures, Gop!Draw(p)
      PROVE  GopInv'
  BY <1>5, GopDrawKeeps
<1>6. CASE UNCHANGED Gop!vars
  <2>1. UNCHANGED <<gops, installed, buffer, max, current, info, frame, gopMode, picture,
                    drawn, behind, gopLagging, forced, shrunk>>
    BY <1>6 DEF Gop!vars, Gop!virtual, Gop!history
  <2>2. GopSound'
    BY <2>1 DEF GopInv, GopSound, Gop!TypeOK, Gop!NoFrameBuffer
  <2>3. Shared' /\ Lent'
    BY <2>1 DEF GopInv, Shared, Lent, Gop!Held, Gop!Now
  <2>4. Gop!ModesAreCommon'
    <3>1. \A n \in 1 .. max' : \A d \in Gop!Held(gops)' : forced' \/ Gop!Has(d, buffer'[n])
      BY <2>1 DEF GopInv, Gop!ModesAreCommon, Gop!Held
    <3> QED BY <3>1 DEF Gop!ModesAreCommon, Gop!Has, Gop!NumberOn
  <2>5. Gop!FrameBufferIsLive' /\ Gop!PictureShared'
    BY <2>1 DEF GopInv, Gop!FrameBufferIsLive, Gop!PictureShared, Gop!Held, Gop!NoFrameBuffer
  <2> QED BY <2>2, <2>3, <2>4, <2>5 DEF GopInv
<1> QED BY <1>1, <1>2, <1>3, <1>4, <1>5, <1>6 DEF Gop!Next

\* The virtual graphics output before there is a device.
LEMMA GopStarts == Gop!Init => GopInv
<1> SUFFICES ASSUME Gop!Init
             PROVE  GopInv
  OBVIOUS
<1>1. /\ gops = <<>> /\ installed = FALSE /\ buffer = <<SmallMode>> /\ max = 1 /\ current = 0
      /\ info = SmallMode /\ frame = BlackPicture /\ gopMode = [d \in GopDevices |-> 0]
      /\ picture = [d \in GopDevices |-> BlackPicture] /\ drawn = BlackPicture
      /\ behind = {} /\ gopLagging = {} /\ forced = FALSE /\ shrunk = FALSE
  BY DEF Gop!Init, Gop!NoFrameBuffer
<1>2. Gop!Held(gops) = {}
  BY <1>1 DEF Gop!Held
<1>3. buffer \in Seq(Gop!Resolutions) /\ SmallMode \in Gop!Resolutions /\ Len(buffer) = 1
  <2> DEFINE R == Gop!Resolutions
  <2>1. SmallMode \in R
    BY DEF Gop!Resolutions
  <2> HIDE DEF R
  <2>2. <<SmallMode>> \in Seq(R) /\ Len(<<SmallMode>>) = 1
    BY <2>1
  <2> QED BY <1>1, <2>1, <2>2 DEF R
<1>4. gops \in Seq(GopDevices) /\ Len(gops) = 0
  BY <1>1, EmptySeq
<1>5. GopSound
  <2>1. Gop!TypeOK
    BY <1>1, <1>3, <1>4 DEF Gop!TypeOK, Gop!NoFrameBuffer
  <2>2. ASSUME NEW d \in GopDevices
        PROVE  gopMode[d] < Len(DeviceModes[d])
    <3>1. gopMode[d] = 0
      BY <1>1
    <3>2. Len(DeviceModes[d]) \in Nat \ {0}
      BY DeviceModesAre
    <3> QED BY <3>1, <3>2
  <2> QED BY <1>1, <1>3, <2>1, <2>2 DEF GopSound
<1> QED BY <1>1, <1>2, <1>4, <1>5 DEF GopInv, Shared, Lent, Gop!ModesAreCommon,
           Gop!FrameBufferIsLive, Gop!PictureShared

\* The invariant says more than the property.
LEMMA GopInvShares == GopInv => GraphicsShared
<1> SUFFICES ASSUME GopInv
             PROVE  GraphicsShared
  OBVIOUS
<1>1. GopSound /\ gops \in Seq(GopDevices) /\ max \in Nat
  BY GopTypes DEF GopInv
<1>2. Gop!ResolutionShared
  BY <1>1 DEF GopInv, GopSound, Shared, Gop!ResolutionShared
<1>3. Gop!QueryTellsModeUntilRemoval
  <2> SUFFICES ASSUME ~shrunk, installed, NEW n \in 0 .. max - 1
               PROVE  /\ Len(gops) = 1 => n < Len(DeviceModes[gops[1]])
                      /\ Gop!QueryMode(n) = buffer[n + 1]
    BY DEF Gop!QueryTellsModeUntilRemoval, Gop!QueryTellsMode
  <2>1. Len(gops) = 1 => buffer = DeviceModes[gops[1]] /\ max = Len(buffer)
    BY DEF GopInv, Lent
  <2> QED BY <1>1, <2>1 DEF Gop!QueryMode
<1> QED BY <1>2, <1>3 DEF GopInv, GopSound, GraphicsShared

\* ConSplitterAddGraphicsOutputMode, SetMode, QueryMode and Blt of the virtual
\* graphics output: whatever the devices, their modes and the order in which they
\* come, go and fail, the modes a client is told are modes of every device until
\* one is overwritten, all that did not fail are in the resolution it is told, a
\* frame buffer is shown only of a device that is alone, all show what was drawn,
\* and a query says what a mode sets until a device is removed.
THEOREM GraphicsOutputShared == Gop!Spec => []GraphicsShared
<1>1. Gop!Init => GopInv
  BY GopStarts
<1>2. GopInv /\ [Gop!Next]_Gop!vars => GopInv'
  BY GopStepKeeps
<1>3. GopInv => GraphicsShared
  BY GopInvShares
<1> QED BY <1>1, <1>2, <1>3, PTL DEF Gop!Spec

(***************************************************************************)
(* FrameBufferSerial.                                                      *)
(***************************************************************************)

Columns == Serial!MaxX \div ScaleFactor
Rows == {ScaleFactor * k : k \in Nat}

Phases == {"char", "line", "reset"}
Colors == {"none", "white", "yellow"}
Writes == [phase : Phases, image : Images, text : Seq(STRING),
           interruptState : BOOLEAN, critical : BOOLEAN,
           currentForeground : Colors, intstate : BOOLEAN]

Active(t, i) == write[t] # Serial!Idle /\ write[t].image = i
Ending(t, i) == write[t].phase \in {"line", "reset"} /\ write[t].image = i
Critical(t, i) == Active(t, i) /\ write[t].critical
Undisturbed == ~interrupts /\ write["notification"] = Serial!Idle

\* The inductive invariant.  The cursor is on a cell of the screen, but for a
\* column more or less where a line ends, and one line more for each thread that
\* is ending one; nothing can interrupt the application where it may stand
\* behind the last column, and nothing may initialize an image it writes to.
WritesTyped == write \in [Serial!Threads -> Writes \cup {Serial!Idle}]
EndsInside ==
    \A t \in Serial!Threads, i \in Images : Ending(t, i) => initialized[i] /\ write[t].text # <<>>
InLine(i) ==
    \/ pos[i][1] < Columns
    \/ \E t \in Serial!Threads : /\ write[t].phase = "line" /\ write[t].image = i
                                 /\ t = "app" => Undisturbed
LastRow(i) ==
    IF Ending("notification", i) THEN Serial!MaxY
    ELSE IF Ending("app", i) THEN Serial!MaxY - ScaleFactor ELSE Serial!MaxY - 2 * ScaleFactor
InRows(i) == pos[i][2] \in Rows /\ pos[i][2] <= LastRow(i)
White(i) ==
    initialized[i] =>
        /\ printColour[i] = "white" \/ Critical("app", i) \/ Critical("notification", i)
        /\ Critical("app", i) => write["app"].currentForeground = "white"
        /\ Critical("notification", i) =>
             write["notification"].currentForeground = "white" \/ Critical("app", i)
NotYet(i) == ~initialized[i] /\ Active("app", i) => Undisturbed

PrintTyped == Serial!TypeOK /\ WritesTyped
CursorInv == \A i \in Images : InLine(i) /\ InRows(i)
ColourInv == \A i \in Images : White(i) /\ NotYet(i)
SerialInv == PrintTyped /\ EndsInside /\ CursorInv /\ Serial!GlyphsInside /\ ColourInv

-----------------------------------------------------------------------------
(* Cells and pixels.                                                        *)

\* The quotient times the divisor does not exceed the dividend.
LEMMA Quotient ==
  ASSUME NEW a \in Nat, NEW b \in Nat \ {0}
  PROVE  a \div b \in Nat /\ b * (a \div b) <= a
  BY Z3

\* Without a remainder it is the dividend.
LEMMA Divides ==
  ASSUME NEW a \in Nat, NEW b \in Nat \ {0}, a % b = 0
  PROVE  a = b * (a \div b)
  BY Z3

\* A product grows with its factor,
LEMMA Scaled ==
  ASSUME NEW a \in Nat, NEW b \in Nat, NEW c \in Nat, a <= b PROVE c * a <= c * b
  BY Z3

\* and so does the factor with the product.
LEMMA Unscaled ==
  ASSUME NEW a \in Nat, NEW b \in Nat, NEW c \in Nat, c * a < c * b PROVE a + 1 <= b
  BY Z3

\* A product with one more.
LEMMA TimesOneMore ==
  ASSUME NEW a \in Nat, NEW c \in Nat PROVE c * (a + 1) = c * a + c /\ c * a \in Nat
  BY Z3

\* The screen in cells, as FrameBufferSerialPortLib's constructor works it out,
\* holds no more than the screen in pixels does.
LEMMA ScreenSizes ==
  ASSUME Serial!SerialAssumption
  PROVE  /\ ScaleFactor \in Nat \ {0} /\ Columns \in Nat
         /\ Serial!MaxX \in Nat /\ Serial!MaxY \in Nat
         /\ (FontWidth + 1) * Serial!MaxX <= ScreenWidth /\ FontHeight * Serial!MaxY <= ScreenHeight
         /\ ScaleFactor * Columns <= Serial!MaxX /\ Serial!MaxY > 2 * ScaleFactor
<1>1. Serial!MaxX \in Nat /\ (FontWidth + 1) * Serial!MaxX <= ScreenWidth
  <2>1. FontWidth + 1 \in Nat \ {0} /\ ScreenWidth \in Nat
    BY DEF Serial!SerialAssumption
  <2> QED BY <2>1, Quotient DEF Serial!MaxX
<1>2. Serial!MaxY \in Nat /\ FontHeight * Serial!MaxY <= ScreenHeight - 1
  <2>1. ScreenHeight - 1 \in Nat /\ FontHeight \in Nat \ {0}
    BY DEF Serial!SerialAssumption
  <2> QED BY <2>1, Quotient DEF Serial!MaxY
<1>3. Columns \in Nat /\ ScaleFactor * Columns <= Serial!MaxX
  BY <1>1, Quotient DEF Serial!SerialAssumption, Columns
<1>4. FontHeight * Serial!MaxY <= ScreenHeight
  BY <1>2, TimesOneMore DEF Serial!SerialAssumption
<1> QED BY <1>1, <1>2, <1>3, <1>4 DEF Serial!SerialAssumption

\* A line of the screen has a column,
LEMMA ColumnsPositive == ASSUME Serial!SerialAssumption PROVE 0 < Columns
<1>1. Serial!MaxX \in Nat /\ ScaleFactor \in Nat \ {0} /\ Serial!MaxX >= ScaleFactor
  BY ScreenSizes DEF Serial!SerialAssumption
<1>2. Serial!MaxX \div ScaleFactor > 0
  BY <1>1, Z3
<1> QED BY <1>2 DEF Columns

\* The lines the cursor goes through.
LEMMA RowFacts ==
  ASSUME Serial!SerialAssumption, NEW y \in Rows
  PROVE  /\ y \in Nat /\ y + ScaleFactor \in Rows
         /\ ~(y >= Serial!MaxY - ScaleFactor) => y <= Serial!MaxY - 2 * ScaleFactor
<1>1. PICK k \in Nat : y = ScaleFactor * k
  BY DEF Rows
<1>2. ScaleFactor \in Nat \ {0} /\ Serial!MaxY \in Nat /\ Serial!MaxY % ScaleFactor = 0
  BY ScreenSizes DEF Serial!SerialAssumption
<1>3. y \in Nat /\ y + ScaleFactor = ScaleFactor * (k + 1)
  BY <1>1, <1>2, TimesOneMore
<1> DEFINE m == Serial!MaxY \div ScaleFactor
<1>4. m \in Nat /\ Serial!MaxY = ScaleFactor * m
  BY <1>2, Quotient, Divides
<1> HIDE DEF m
<1>5. ASSUME ~(y >= Serial!MaxY - ScaleFactor) PROVE y <= Serial!MaxY - 2 * ScaleFactor
  <2>1. ScaleFactor * (k + 1) < ScaleFactor * m
    BY <1>2, <1>3, <1>4, <1>5
  <2>2. k + 2 <= m
    BY <1>2, <1>4, <2>1, Unscaled
  <2>3. ScaleFactor * (k + 2) <= ScaleFactor * m
    BY <1>2, <1>4, <2>2, Scaled
  <2>4. ScaleFactor * (k + 2) = y + 2 * ScaleFactor
    BY <1>1, <1>2, Z3
  <2> QED BY <1>2, <1>3, <1>4, <2>3, <2>4
<1> QED BY <1>3, <1>5 DEF Rows

\* The cursor starts in a line of cells.
LEMMA ZeroRow == ASSUME Serial!SerialAssumption PROVE 0 \in Rows
  BY ScreenSizes DEF Rows

\* A glyph at a cell of the screen has its pixels on the screen.
LEMMA CellOnScreen ==
  ASSUME Serial!SerialAssumption, NEW p \in Nat \X Nat,
         p[1] < Columns, p[2] + ScaleFactor <= Serial!MaxY
  PROVE  Serial!OnScreen(p)
<1> DEFINE x == p[1]
           y == p[2]
<1>1. x \in Nat /\ y \in Nat
  OBVIOUS
<1>2. FontWidth \in Nat /\ FontHeight \in Nat /\ ScreenWidth \in Nat /\ ScreenHeight \in Nat
  BY DEF Serial!SerialAssumption
<1>3. /\ ScaleFactor \in Nat /\ Serial!MaxX \in Nat /\ Serial!MaxY \in Nat /\ Columns \in Nat
      /\ (FontWidth + 1) * Serial!MaxX <= ScreenWidth /\ FontHeight * Serial!MaxY <= ScreenHeight
      /\ ScaleFactor * Columns <= Serial!MaxX
  BY ScreenSizes
<1> HIDE DEF x, y
<1>4. x * ScaleFactor * (FontWidth + 1) + FontWidth * ScaleFactor <= ScreenWidth
  <2>1. x < Columns
    BY DEF x
  <2>2. ScaleFactor * (x + 1) <= ScaleFactor * Columns
    BY <1>1, <1>3, <2>1, Scaled
  <2>3. ScaleFactor * (x + 1) \in Nat /\ ScaleFactor * (x + 1) <= Serial!MaxX
    BY <1>1, <1>3, <2>2, TimesOneMore
  <2>4. (FontWidth + 1) * (ScaleFactor * (x + 1)) <= (FontWidth + 1) * Serial!MaxX
    BY <1>2, <1>3, <2>3, Scaled
  <2>5. x * ScaleFactor * (FontWidth + 1) + FontWidth * ScaleFactor + ScaleFactor
           = (FontWidth + 1) * (ScaleFactor * (x + 1))
    BY <1>1, <1>2, <1>3, Z3
  <2>6. (FontWidth + 1) * Serial!MaxX \in Nat /\ x * ScaleFactor * (FontWidth + 1) \in Nat
        /\ FontWidth * ScaleFactor \in Nat
    BY <1>1, <1>2, <1>3, Z3
  <2> QED BY <1>2, <1>3, <2>4, <2>5, <2>6
<1>5. y * FontHeight + FontHeight * ScaleFactor <= ScreenHeight
  <2>1. y + ScaleFactor <= Serial!MaxY
    BY DEF y
  <2>2. FontHeight * (y + ScaleFactor) <= FontHeight * Serial!MaxY
    BY <1>1, <1>2, <1>3, <2>1, Scaled
  <2>3. y * FontHeight + FontHeight * ScaleFactor = FontHeight * (y + ScaleFactor)
    BY <1>1, <1>2, <1>3, Z3
  <2>4. FontHeight * Serial!MaxY \in Nat /\ FontHeight * (y + ScaleFactor) \in Nat
    BY <1>1, <1>2, <1>3, Z3
  <2> QED BY <1>2, <1>3, <2>2, <2>3, <2>4
<1> QED BY <1>4, <1>5 DEF Serial!OnScreen, x, y

-----------------------------------------------------------------------------
(* Every action keeps the invariant.                                        *)

\* A thread is idle or in a write.
LEMMA WriteFacts ==
  ASSUME WritesTyped, NEW t \in Serial!Threads
  PROVE  /\ write[t] = Serial!Idle <=> write[t].phase = "idle"
         /\ write[t] # Serial!Idle => write[t] \in Writes
  BY DEF WritesTyped, Writes, Serial!Idle, Phases

\* The invariant holds at the start,
LEMMA SerialStarts == ASSUME Serial!SerialAssumption, Serial!Init PROVE SerialInv
<1>1. /\ write \in [Serial!Threads -> {Serial!Idle}]
      /\ \A t \in Serial!Threads : write[t].phase = "idle"
  BY DEF Serial!Init, Serial!Idle
<1>2. PrintTyped
  BY <1>1 DEF Serial!Init, PrintTyped, Serial!TypeOK, WritesTyped
<1>3. CursorInv
  <2> SUFFICES ASSUME NEW i \in Images PROVE InLine(i) /\ InRows(i)
    BY DEF CursorInv
  <2>1. pos[i][1] = 0 /\ pos[i][2] = 0
    BY DEF Serial!Init
  <2> QED BY <1>1, <2>1, ScreenSizes, ColumnsPositive, ZeroRow
          DEF InLine, InRows, LastRow, Ending, Serial!Threads
<1>4. EndsInside /\ Serial!GlyphsInside /\ ColourInv
  BY <1>1 DEF Serial!Init, EndsInside, Serial!GlyphsInside, ColourInv, White, NotYet,
              Ending, Active, Serial!Threads
<1> QED BY <1>2, <1>3, <1>4 DEF SerialInv

\* when the application enables or disables interrupts,
LEMMA SwitchKeeps ==
  ASSUME Serial!SerialAssumption, SerialInv, Serial!SwitchInterrupts PROVE SerialInv'
<1>1. UNCHANGED <<initialized, pos, printColour, write, glyph>> /\ interrupts' = ~interrupts
      /\ \A t \in Serial!Threads : write[t] = Serial!Idle /\ write[t].phase = "idle"
  BY DEF Serial!SwitchInterrupts, Serial!Idle
<1>2. PrintTyped' /\ EndsInside' /\ Serial!GlyphsInside'
  BY <1>1 DEF SerialInv, PrintTyped, Serial!TypeOK, WritesTyped, EndsInside,
              Serial!GlyphsInside, Ending
<1>3. CursorInv'
  BY <1>1 DEF SerialInv, CursorInv, InLine, InRows, LastRow, Ending, Serial!Threads
<1>4. ColourInv'
  BY <1>1 DEF SerialInv, ColourInv, White, NotYet, Active, Critical, Serial!Threads
<1> QED BY <1>2, <1>3, <1>4 DEF SerialInv

\* when an image initializes its port: nobody is writing to it,
LEMMA InitializeKeeps ==
  ASSUME Serial!SerialAssumption, SerialInv, NEW t \in Serial!Threads, NEW i \in Images,
         Serial!SerialPortInitialize(t, i)
  PROVE  SerialInv'
<1>1. /\ ~initialized[i] /\ initialized' = [initialized EXCEPT ![i] = TRUE]
      /\ pos' = [pos EXCEPT ![i] = <<0, 0>>] /\ printColour' = [printColour EXCEPT ![i] = "white"]
      /\ UNCHANGED <<interrupts, write, glyph>>
  BY DEF Serial!SerialPortInitialize
<1>2. PrintTyped' /\ EndsInside' /\ Serial!GlyphsInside'
  BY <1>1 DEF SerialInv, PrintTyped, Serial!TypeOK, WritesTyped, EndsInside,
              Serial!GlyphsInside, Ending
<1>3. CursorInv'
  <2> SUFFICES ASSUME NEW j \in Images PROVE InLine(j)' /\ InRows(j)'
    BY DEF CursorInv
  <2>1. CASE j = i
    <3>1. pos'[j][1] = 0 /\ pos'[j][2] = 0
      BY <1>1, <2>1 DEF SerialInv, PrintTyped, Serial!TypeOK
    <3>2. ~Ending("app", j)' /\ ~Ending("notification", j)'
      BY <1>1, <2>1 DEF SerialInv, EndsInside, Ending, Serial!Threads
    <3> QED BY <3>1, <3>2, ScreenSizes, ColumnsPositive, ZeroRow DEF InLine, InRows, LastRow
  <2>2. CASE j # i
    BY <1>1, <2>2 DEF SerialInv, PrintTyped, Serial!TypeOK, CursorInv, InLine, InRows, LastRow,
                      Ending, Undisturbed
  <2> QED BY <2>1, <2>2
<1>4. ColourInv'
  <2> SUFFICES ASSUME NEW j \in Images PROVE White(j)' /\ NotYet(j)'
    BY DEF ColourInv
  <2>1. CASE j = i
    <3>1. initialized'[j] /\ printColour'[j] = "white"
      BY <1>1, <2>1 DEF SerialInv, PrintTyped, Serial!TypeOK
    <3>2. ~Active("app", j) /\ ~Active("notification", j)
      <4>1. write[t] = Serial!Idle /\ Serial!CanRun(t) /\ (t = "notification" => interrupts)
        BY WriteFacts DEF Serial!SerialPortInitialize, Serial!InPhase, SerialInv, PrintTyped
      <4> QED BY <1>1, <2>1, <4>1 DEF SerialInv, ColourInv, NotYet, Active, Undisturbed,
                                          Serial!CanRun, Serial!Threads
    <3> QED BY <1>1, <3>1, <3>2 DEF White, NotYet, Critical, Active
  <2>2. CASE j # i
    BY <1>1, <2>2 DEF SerialInv, PrintTyped, Serial!TypeOK, ColourInv, White, NotYet, Active,
                      Critical, Undisturbed
  <2> QED BY <2>1, <2>2
<1> QED BY <1>2, <1>3, <1>4 DEF SerialInv

\* and when a write begins, in yellow or not.
LEMMA BeginKeeps ==
  ASSUME Serial!SerialAssumption, SerialInv, NEW t \in Serial!Threads, NEW i \in Images,
         NEW given \in Texts, NEW critical \in BOOLEAN, Serial!Begin(t, i, given, critical)
  PROVE  SerialInv'
<1> DEFINE w == Serial!Writing(i, given, critical)
<1>1. /\ write[t] = Serial!Idle /\ Serial!CanRun(t) /\ (t = "notification" => interrupts)
      /\ write' = [write EXCEPT ![t] = w] /\ ~interrupts' /\ interrupts' \in BOOLEAN
      /\ printColour' = IF critical THEN [printColour EXCEPT ![i] = "yellow"] ELSE printColour
      /\ UNCHANGED <<initialized, pos, glyph>>
  BY WriteFacts DEF Serial!Begin, Serial!InPhase, SerialInv, PrintTyped
<1>2. /\ w \in Writes /\ w.phase = "char" /\ w # Serial!Idle /\ w.image = i
      /\ w.critical = critical /\ w.currentForeground = printColour[i]
  <2>1. given \in Seq(STRING)
    BY DEF Serial!SerialAssumption
  <2> QED BY <2>1 DEF Serial!Writing, Writes, Phases, Colors, Serial!Idle, SerialInv,
                      PrintTyped, Serial!TypeOK
<1> HIDE DEF w
<1>3. write'[t] = w /\ \A u \in Serial!Threads \ {t} : write'[u] = write[u]
  BY <1>1 DEF SerialInv, PrintTyped, WritesTyped
<1>4. PrintTyped'
  BY <1>1, <1>2 DEF SerialInv, PrintTyped, Serial!TypeOK, WritesTyped
<1>5. \A u \in Serial!Threads, j \in Images : Ending(u, j)' <=> Ending(u, j)
  BY <1>1, <1>2, <1>3 DEF Ending, Serial!Idle
<1>6. EndsInside' /\ Serial!GlyphsInside'
  BY <1>1, <1>2, <1>3 DEF SerialInv, EndsInside, Serial!GlyphsInside, Ending
<1>7. CursorInv'
  <2> SUFFICES ASSUME NEW j \in Images PROVE InLine(j)' /\ InRows(j)'
    BY DEF CursorInv
  <2>1. InRows(j)'
    BY <1>1, <1>5 DEF SerialInv, CursorInv, InRows, LastRow, Serial!Threads
  <2>2. ASSUME NEW u \in Serial!Threads, write[u].phase = "line", write[u].image = j,
               u = "app" => Undisturbed
        PROVE  write'[u].phase = "line" /\ write'[u].image = j /\ (u = "app" => Undisturbed')
    <3>1. u # t /\ write'[u] = write[u]
      BY <1>1, <1>3, <2>2 DEF Serial!Idle
    <3>2. u = "app" => t = "notification"
      BY <3>1 DEF Serial!Threads
    <3> QED BY <1>1, <2>2, <3>1, <3>2 DEF Undisturbed
  <2>3. InLine(j)'
    BY <1>1, <2>2 DEF SerialInv, CursorInv, InLine, Serial!Threads
  <2> QED BY <2>1, <2>3
<1>8. ColourInv'
  <2> SUFFICES ASSUME NEW j \in Images PROVE White(j)' /\ NotYet(j)'
    BY DEF ColourInv
  <2>1. NotYet(j)'
    BY <1>1, <1>2, <1>3 DEF SerialInv, ColourInv, NotYet, Active, Undisturbed, Serial!CanRun,
                            Serial!Threads
  <2>2. CASE j # i
    BY <1>1, <1>2, <1>3, <2>1, <2>2
       DEF SerialInv, PrintTyped, Serial!TypeOK, ColourInv, White, Active, Critical, Serial!Threads
  <2>3. CASE j = i
    <3>1. CASE t = "app"
      BY <1>1, <1>2, <1>3, <2>1, <2>3, <3>1
         DEF SerialInv, PrintTyped, Serial!TypeOK, ColourInv, White, Active, Critical,
             Serial!Threads, Serial!CanRun
    <3>2. CASE t = "notification"
      BY <1>1, <1>2, <1>3, <2>1, <2>3, <3>2
         DEF SerialInv, PrintTyped, Serial!TypeOK, ColourInv, White, Active, Critical,
             Serial!Threads
    <3> QED BY <3>1, <3>2 DEF Serial!Threads
  <2> QED BY <2>1, <2>2, <2>3
<1> QED BY <1>4, <1>6, <1>7, <1>8 DEF SerialInv

\* What the steps inside of a write have in common: one thread goes on to w, and
\* the cursor of its image is moved.  The colours are as they were.
WriteStep(t, i, w) ==
    /\ Serial!CanRun(t) /\ write[t] # Serial!Idle /\ write[t].image = i
    /\ w \in Writes /\ w.image = i /\ w.critical = write[t].critical
    /\ w.currentForeground = write[t].currentForeground
    /\ write' = [write EXCEPT ![t] = w]
    /\ w.phase \in {"line", "reset"} => initialized[i] /\ w.text # <<>>
    /\ pos' \in [Images -> Nat \X Nat] /\ \A j \in Images \ {i} : pos'[j] = pos[j]
    /\ interrupts' \in BOOLEAN /\ (~initialized[i] => interrupts' = interrupts)
    /\ UNCHANGED <<initialized, printColour>>

\* A step within a write keeps what does not speak of the cursor or the colour.
LEMMA StepKeeps ==
  ASSUME SerialInv, NEW t \in Serial!Threads, NEW i \in Images, NEW w, WriteStep(t, i, w),
         glyph' \subseteq Nat \X Nat
  PROVE  /\ PrintTyped' /\ EndsInside' /\ ColourInv'
         /\ write'[t] = w /\ \A u \in Serial!Threads \ {t} : write'[u] = write[u]
         /\ \A j \in Images \ {i} : InLine(j)' /\ InRows(j)'
<1>1. write'[t] = w /\ \A u \in Serial!Threads \ {t} : write'[u] = write[u]
  BY DEF WriteStep, SerialInv, PrintTyped, WritesTyped
<1>2. w # Serial!Idle /\ write[t] \in Writes
  BY WriteFacts DEF WriteStep, Writes, Serial!Idle, Phases, SerialInv, PrintTyped
<1>3. PrintTyped'
  BY DEF WriteStep, SerialInv, PrintTyped, Serial!TypeOK, WritesTyped
<1>4. EndsInside'
  BY <1>1 DEF WriteStep, SerialInv, EndsInside, Ending
<1>5. \A u \in Serial!Threads, j \in Images :
         /\ Active(u, j)' <=> Active(u, j)
         /\ Critical(u, j)' <=> Critical(u, j)
         /\ Critical(u, j) => write'[u].currentForeground = write[u].currentForeground
  BY <1>1, <1>2 DEF WriteStep, Active, Critical
<1>6. ColourInv'
  <2> SUFFICES ASSUME NEW j \in Images PROVE White(j)' /\ NotYet(j)'
    BY DEF ColourInv
  <2>1. White(j)'
    BY <1>5 DEF SerialInv, ColourInv, White, WriteStep, Serial!Threads
  <2>2. ASSUME ~initialized[j], Active("app", j) PROVE Undisturbed'
    <3>1. Undisturbed
      BY <2>2 DEF SerialInv, ColourInv, NotYet
    <3>2. t = "app" /\ i = j
      BY <2>2, <3>1 DEF WriteStep, Undisturbed, Active, Serial!Threads
    <3> QED BY <1>1, <2>2, <3>1, <3>2 DEF Undisturbed, WriteStep, Serial!Threads
  <2>3. NotYet(j)'
    BY <1>5, <2>2 DEF NotYet, WriteStep, Serial!Threads
  <2> QED BY <2>1, <2>3
<1>7. ASSUME NEW j \in Images \ {i} PROVE InLine(j)' /\ InRows(j)'
  <2>1. \A u \in Serial!Threads : Ending(u, j)' <=> Ending(u, j)
    BY <1>1, <1>7 DEF WriteStep, Ending
  <2>2. InRows(j)'
    BY <1>7, <2>1 DEF SerialInv, CursorInv, InRows, LastRow, WriteStep, Serial!Threads
  <2>3. ASSUME NEW u \in Serial!Threads, write[u].phase = "line", write[u].image = j,
               u = "app" => Undisturbed
        PROVE  write'[u].phase = "line" /\ write'[u].image = j /\ (u = "app" => Undisturbed')
    <3>1. u # t /\ write'[u] = write[u]
      BY <1>1, <1>7, <2>3 DEF WriteStep
    <3>2. u # "app"
      BY <2>3, <3>1 DEF WriteStep, Undisturbed, Serial!Threads
    <3> QED BY <2>3, <3>1, <3>2
  <2>4. InLine(j)'
    BY <1>7, <2>3 DEF SerialInv, CursorInv, InLine, WriteStep
  <2> QED BY <2>2, <2>4
<1> QED BY <1>1, <1>3, <1>4, <1>6, <1>7

\* Behind the last column stands only a thread that is at a line's end.
LEMMA InColumn ==
  ASSUME SerialInv, NEW t \in Serial!Threads, Serial!CanRun(t), write[t].phase \in {"char", "reset"}
  PROVE  /\ write[t] \in Writes /\ write[t] # Serial!Idle /\ write[t].image \in Images
         /\ pos[write[t].image][1] < Columns
<1>1. write[t] \in Writes /\ write[t] # Serial!Idle
  BY WriteFacts DEF SerialInv, PrintTyped, Serial!Idle
<1>2. PICK i \in Images : i = write[t].image
  BY <1>1 DEF Writes
<1>3. pos[i][1] < Columns
  <2>1. InLine(i)
    BY DEF SerialInv, CursorInv
  <2>2. ASSUME NEW u \in Serial!Threads, write[u].phase = "line", write[u].image = i,
               u = "app" => Undisturbed
        PROVE  FALSE
    <3>1. u # t /\ write[u] # Serial!Idle
      BY <2>2 DEF Serial!Idle
    <3>2. CASE u = "app"
      <4>1. write["notification"] = Serial!Idle
        BY <2>2, <3>2 DEF Undisturbed
      <4>2. t = "notification"
        BY <3>1, <3>2 DEF Serial!Threads
      <4> QED BY <1>1, <4>1, <4>2
    <3>3. CASE u = "notification"
      <4>1. t = "app"
        BY <3>1, <3>3 DEF Serial!Threads
      <4>2. write["notification"] = Serial!Idle
        BY <4>1 DEF Serial!CanRun
      <4> QED BY <3>1, <3>3, <4>2
    <3> QED BY <3>2, <3>3 DEF Serial!Threads
  <2>3. ASSUME ~(pos[i][1] < Columns) PROVE FALSE
    <3>1. PICK u \in Serial!Threads : /\ write[u].phase = "line" /\ write[u].image = i
                                      /\ u = "app" => Undisturbed
      BY <2>1, <2>3 DEF InLine
    <3> QED BY <3>1, <2>2
  <2> QED BY <2>3
<1> QED BY <1>1, <1>2, <1>3

\* A thread that is about to put a character finds the cursor on a cell of the
\* screen, with a free line below it.
LEMMA AtCell ==
  ASSUME Serial!SerialAssumption, SerialInv, NEW t \in Serial!Threads, Serial!InPhase(t, "char")
  PROVE  LET i == write[t].image
         IN  /\ i \in Images /\ write[t] \in Writes
             /\ pos[i][1] < Columns
             /\ pos[i][2] \in Rows /\ pos[i][2] + ScaleFactor <= Serial!MaxY
             /\ pos[i][2] <= LastRow(i)
             /\ ~Ending(t, i) /\ (t = "app" => ~Ending("notification", i))
<1> DEFINE i == write[t].image
<1>1. Serial!CanRun(t) /\ write[t].phase = "char"
  BY DEF Serial!InPhase
<1>2. i \in Images /\ write[t] \in Writes
  BY <1>1, InColumn
<1>3. pos[i][1] < Columns
  BY <1>1, InColumn
<1> HIDE DEF i
<1>4. ~Ending(t, i) /\ (t = "app" => ~Ending("notification", i))
  BY <1>1 DEF Ending, Serial!CanRun, Serial!Idle
<1>5. pos[i][2] \in Rows /\ pos[i][2] <= LastRow(i)
  BY <1>2 DEF SerialInv, CursorInv, InRows
<1>6. /\ LastRow(i) \in {Serial!MaxY - ScaleFactor, Serial!MaxY - 2 * ScaleFactor, Serial!MaxY}
      /\ LastRow(i) = Serial!MaxY => Ending("notification", i)
  BY ScreenSizes DEF LastRow
<1>7. pos[i][2] \in Nat
  BY <1>5, RowFacts
<1>8. pos[i][2] + ScaleFactor <= Serial!MaxY
  BY <1>4, <1>5, <1>6, <1>7, ScreenSizes DEF Serial!Threads
<1> QED BY <1>2, <1>3, <1>4, <1>5, <1>8 DEF i

\* Where a line ends the cursor is one line further down.
LEMMA OneRowDown ==
  ASSUME Serial!SerialAssumption, SerialInv, NEW t \in Serial!Threads, Serial!InPhase(t, "char"),
         NEW i \in Images, i = write[t].image, NEW w, WriteStep(t, i, w), w.phase = "line",
         glyph' \subseteq Nat \X Nat, pos'[i][2] = pos[i][2] + ScaleFactor
  PROVE  InRows(i)'
<1>1. write'[t] = w /\ \A u \in Serial!Threads \ {t} : write'[u] = write[u]
  BY StepKeeps
<1>2. Ending(t, i)' /\ \A u \in Serial!Threads \ {t} : Ending(u, i)' <=> Ending(u, i)
  BY <1>1 DEF Ending, WriteStep
<1>3. /\ pos[i][2] \in Rows /\ pos[i][2] + ScaleFactor <= Serial!MaxY /\ pos[i][2] <= LastRow(i)
      /\ ~Ending(t, i) /\ (t = "app" => ~Ending("notification", i))
  BY AtCell
<1>4. pos[i][2] \in Nat /\ pos[i][2] + ScaleFactor \in Rows
  BY <1>3, RowFacts
<1>5. pos'[i][2] <= LastRow(i)'
  BY <1>2, <1>3, <1>4, ScreenSizes DEF LastRow, Serial!Threads
<1> QED BY <1>4, <1>5 DEF InRows

\* A step that leaves the line number alone and no thread ending a line that was
\* not keeps the line.
LEMMA SameRow ==
  ASSUME Serial!SerialAssumption, SerialInv, NEW t \in Serial!Threads, Serial!InPhase(t, "char"),
         NEW i \in Images, i = write[t].image, NEW w, WriteStep(t, i, w), w.phase = "char",
         glyph' \subseteq Nat \X Nat, pos'[i][2] = pos[i][2]
  PROVE  InRows(i)'
<1>1. write'[t] = w /\ \A u \in Serial!Threads \ {t} : write'[u] = write[u]
  BY StepKeeps
<1>2. \A u \in Serial!Threads : Ending(u, i)' <=> Ending(u, i)
  BY <1>1 DEF Ending, WriteStep, Serial!InPhase
<1> QED BY <1>2, AtCell DEF LastRow, InRows, Serial!Threads

\* On to the next character.
Advanced(t) == [write[t] EXCEPT !.phase = "char", !.text = Tail(write[t].text)]

\* A thread that goes on in its text is in a write.
LEMMA AdvancedTyped ==
  ASSUME NEW t \in Serial!Threads, write[t] \in Writes, write[t].text # <<>>
  PROVE  /\ Advanced(t) \in Writes /\ Advanced(t).phase = "char"
         /\ Advanced(t).image = write[t].image /\ Advanced(t).critical = write[t].critical
         /\ Advanced(t).currentForeground = write[t].currentForeground
<1>1. write[t].text \in Seq(STRING)
  BY DEF Writes
<1>2. Tail(write[t].text) \in Seq(STRING)
  BY <1>1, HeadTailProperties
<1> QED BY <1>2 DEF Advanced, Writes, Phases

\* The next character moves the thread on and nothing else of it.
LEMMA NextCharIs ==
  ASSUME WritesTyped, NEW t \in Serial!Threads, Serial!NextChar(t)
  PROVE  write' = [write EXCEPT ![t] = Advanced(t)]
  BY Zenon DEF Serial!NextChar, Advanced, WritesTyped

\* Only the cursor of one image moves.
Moves(i, x, y) ==
    /\ pos' \in [Images -> Nat \X Nat] /\ \A j \in Images \ {i} : pos'[j] = pos[j]
    /\ pos'[i][1] = x /\ pos'[i][2] = y

\* What one character does to the cursor.
LEMMA MoveFacts ==
  ASSUME pos \in [Images -> Nat \X Nat], NEW i \in Images, NEW n \in Nat
  PROVE  /\ pos' = [pos EXCEPT ![i][1] = n] => Moves(i, n, pos[i][2])
         /\ pos' = [pos EXCEPT ![i][2] = n] => Moves(i, pos[i][1], n)
<1>1. /\ [pos[i] EXCEPT ![1] = n] = <<n, pos[i][2]>>
      /\ [pos[i] EXCEPT ![2] = n] = <<pos[i][1], n>>
  OBVIOUS
<1>2. ASSUME pos' = [pos EXCEPT ![i][1] = n] PROVE Moves(i, n, pos[i][2])
  <2>1. pos' = [pos EXCEPT ![i] = <<n, pos[i][2]>>]
    BY <1>1, <1>2
  <2> QED BY <2>1 DEF Moves
<1>3. ASSUME pos' = [pos EXCEPT ![i][2] = n] PROVE Moves(i, pos[i][1], n)
  <2>1. pos' = [pos EXCEPT ![i] = <<pos[i][1], n>>]
    BY <1>1, <1>3
  <2> QED BY <2>1 DEF Moves
<1> QED BY <1>2, <1>3

\* The cursors are where they may be when the one that moves and the others are.
LEMMA CursorAfter ==
  ASSUME NEW i \in Images, InLine(i)', InRows(i)',
         \A j \in Images \ {i} : InLine(j)' /\ InRows(j)'
  PROVE  CursorInv'
<1> SUFFICES ASSUME NEW j \in Images PROVE InLine(j)' /\ InRows(j)'
  BY DEF CursorInv
<1> QED BY DEF InLine, InRows, LastRow, Ending, Undisturbed

\* A character of no glyph keeps the invariant,
LEMMA SkipKeeps ==
  ASSUME Serial!SerialAssumption, SerialInv, NEW t \in Serial!Threads, Serial!Skip(t)
  PROVE  SerialInv'
<1>1. /\ Serial!InPhase(t, "char") /\ Serial!CanRun(t) /\ write[t].text # <<>> /\ Serial!NextChar(t)
      /\ pos' \in {pos, [pos EXCEPT ![write[t].image][1] = 0]}
      /\ UNCHANGED <<interrupts, initialized, printColour, glyph>>
  BY Zenon DEF Serial!Skip, Serial!InPhase
<1>2. write[t].image \in Images /\ write[t] \in Writes /\ write[t] # Serial!Idle
  BY <1>1, AtCell DEF Serial!Idle, Serial!InPhase
<1>3. PICK i \in Images, w \in Writes : i = write[t].image /\ w = Advanced(t)
  BY <1>1, <1>2, AdvancedTyped
<1>4. /\ w.phase = "char" /\ w.image = i /\ w.critical = write[t].critical
      /\ w.currentForeground = write[t].currentForeground
      /\ write' = [write EXCEPT ![t] = w]
  BY <1>1, <1>2, <1>3, AdvancedTyped, NextCharIs DEF SerialInv, PrintTyped
<1>5. Moves(i, 0, pos[i][2]) \/ Moves(i, pos[i][1], pos[i][2])
  <2>1. pos \in [Images -> Nat \X Nat]
    BY DEF SerialInv, PrintTyped, Serial!TypeOK
  <2> QED BY <1>1, <1>3, <2>1, MoveFacts DEF Moves
<1>6. WriteStep(t, i, w)
  BY <1>1, <1>2, <1>3, <1>4, <1>5 DEF WriteStep, Moves, SerialInv, PrintTyped, Serial!TypeOK
<1>7. glyph' \subseteq Nat \X Nat /\ Serial!GlyphsInside'
  BY <1>1 DEF SerialInv, PrintTyped, Serial!TypeOK, Serial!GlyphsInside
<1>8. PrintTyped' /\ EndsInside' /\ ColourInv' /\ \A j \in Images \ {i} : InLine(j)' /\ InRows(j)'
  BY <1>6, <1>7, StepKeeps
<1>9. InRows(i)'
  BY <1>1, <1>3, <1>4, <1>5, <1>6, <1>7, SameRow DEF Moves
<1>10. InLine(i)'
  BY <1>1, <1>3, <1>5, AtCell, ColumnsPositive DEF InLine, Moves
<1>11. CursorInv'
  BY <1>8, <1>9, <1>10, CursorAfter
<1> QED BY <1>7, <1>8, <1>11 DEF SerialInv

\* and so does a new line,
LEMMA NewLineKeeps ==
  ASSUME Serial!SerialAssumption, SerialInv, NEW t \in Serial!Threads, Serial!NewLine(t)
  PROVE  SerialInv'
<1>1. /\ Serial!InPhase(t, "char") /\ Serial!CanRun(t) /\ write[t].text # <<>>
      /\ initialized[write[t].image]
      /\ pos' = [pos EXCEPT ![write[t].image][2] = @ + ScaleFactor]
      /\ UNCHANGED <<interrupts, initialized, printColour, glyph>>
  BY Zenon DEF Serial!NewLine, Serial!InPhase
<1>2. write[t].image \in Images /\ write[t] \in Writes /\ write[t] # Serial!Idle
  BY <1>1, AtCell DEF Serial!Idle, Serial!InPhase
<1>3. PICK garbage \in BOOLEAN :
         write' = [write EXCEPT ![t].phase = "line", ![t].intstate = garbage]
  BY DEF Serial!NewLine, Serial!SerialAssumption
<1>4. PICK i \in Images, w \in Writes :
         i = write[t].image /\ w = [write[t] EXCEPT !.phase = "line", !.intstate = garbage]
  BY <1>2 DEF Writes, Phases
<1>5. /\ w \in Writes /\ w.phase = "line" /\ w.image = i /\ w.text = write[t].text
      /\ w.critical = write[t].critical /\ w.currentForeground = write[t].currentForeground
  BY <1>2, <1>4 DEF Writes, Phases
<1>6. write' = [write EXCEPT ![t] = w]
  BY <1>3, <1>4, Zenon DEF SerialInv, PrintTyped, WritesTyped
<1>7. Moves(i, pos[i][1], pos[i][2] + ScaleFactor)
  <2>1. pos \in [Images -> Nat \X Nat] /\ pos[i][2] + ScaleFactor \in Nat
    BY ScreenSizes DEF SerialInv, PrintTyped, Serial!TypeOK
  <2> QED BY <1>1, <1>4, <2>1, MoveFacts
<1>8. WriteStep(t, i, w)
  BY <1>1, <1>2, <1>4, <1>5, <1>6, <1>7 DEF WriteStep, Moves, SerialInv, PrintTyped, Serial!TypeOK
<1>9. glyph' \subseteq Nat \X Nat /\ Serial!GlyphsInside'
  BY <1>1 DEF SerialInv, PrintTyped, Serial!TypeOK, Serial!GlyphsInside
<1>10. PrintTyped' /\ EndsInside' /\ ColourInv' /\ \A j \in Images \ {i} : InLine(j)' /\ InRows(j)'
  BY SMTT(40), <1>8, <1>9, StepKeeps
<1>11. InRows(i)'
  BY <1>1, <1>4, <1>5, <1>7, <1>8, <1>9, OneRowDown DEF Moves
<1>12. InLine(i)'
  BY <1>1, <1>4, <1>7, AtCell DEF InLine, Moves
<1>13. CursorInv'
  BY <1>10, <1>11, <1>12, CursorAfter
<1> QED BY <1>9, <1>10, <1>13 DEF SerialInv

\* a glyph that is painted,
LEMMA PaintKeeps ==
  ASSUME Serial!SerialAssumption, SerialInv, NEW t \in Serial!Threads, Serial!Paint(t)
  PROVE  SerialInv'
<1>1. /\ Serial!InPhase(t, "char") /\ Serial!CanRun(t) /\ write[t].text # <<>>
      /\ initialized[write[t].image] /\ glyph' = {pos[write[t].image]}
      /\ UNCHANGED <<initialized, printColour>>
  BY DEF Serial!Paint, Serial!InPhase, Serial!FbConDrawglyph
<1>2. write[t].image \in Images /\ write[t] \in Writes /\ write[t] # Serial!Idle
  BY <1>1, AtCell DEF Serial!Idle, Serial!InPhase
<1>3. PICK i \in Images : i = write[t].image
  BY <1>2
<1>4. /\ pos \in [Images -> Nat \X Nat] /\ pos[i] \in Nat \X Nat
      /\ pos[i][1] \in Nat /\ pos[i][2] \in Nat
  BY DEF SerialInv, PrintTyped, Serial!TypeOK
<1>5. pos[i][1] < Columns /\ pos[i][2] + ScaleFactor <= Serial!MaxY
  BY <1>1, <1>3, AtCell
<1>6. glyph' \subseteq Nat \X Nat /\ Serial!GlyphsInside'
  <2>1. Serial!OnScreen(pos[i])
    BY <1>4, <1>5, CellOnScreen
  <2> QED BY <1>1, <1>3, <1>4, <2>1 DEF Serial!GlyphsInside, Serial!OnScreen
<1>7. CASE pos[i][1] + 1 >= Columns
  <2>1. /\ pos' = [pos EXCEPT ![i] = <<pos[i][1] + 1, pos[i][2] + ScaleFactor>>]
        /\ write' = [write EXCEPT ![t].phase = "line", ![t].intstate = interrupts]
        /\ interrupts' = FALSE
    BY <1>3, <1>7, Zenon DEF Serial!Paint, Columns
  <2>2. PICK w : w = [write[t] EXCEPT !.phase = "line", !.intstate = interrupts]
    OBVIOUS
  <2>3. /\ w \in Writes /\ w.phase = "line" /\ w.image = i /\ w.text = write[t].text
        /\ w.critical = write[t].critical /\ w.currentForeground = write[t].currentForeground
    BY <1>2, <1>3, <2>2 DEF Writes, Phases, SerialInv, PrintTyped, Serial!TypeOK
  <2>4. write' = [write EXCEPT ![t] = w]
    BY <2>1, <2>2, Zenon DEF SerialInv, PrintTyped, WritesTyped
  <2>5. Moves(i, pos[i][1] + 1, pos[i][2] + ScaleFactor)
    BY <1>4, <2>1, ScreenSizes DEF Moves
  <2>6. WriteStep(t, i, w)
    BY <1>1, <1>2, <1>3, <2>1, <2>3, <2>4, <2>5 DEF WriteStep, Moves
  <2>7. /\ PrintTyped' /\ EndsInside' /\ ColourInv' /\ write'[t] = w
        /\ \A u \in Serial!Threads \ {t} : write'[u] = write[u]
        /\ \A j \in Images \ {i} : InLine(j)' /\ InRows(j)'
    BY <1>6, <2>6, StepKeeps
  <2>8. InRows(i)'
    BY <1>1, <1>3, <1>6, <2>3, <2>5, <2>6, OneRowDown DEF Moves
  <2>9. InLine(i)'
    <3>1. t = "app" => Undisturbed'
      BY <1>1, <2>1, <2>7 DEF Undisturbed, Serial!CanRun, Serial!Threads
    <3>2. write'[t].phase = "line" /\ write'[t].image = i
      BY <2>3, <2>7
    <3> QED BY <3>1, <3>2 DEF InLine
  <2>10. CursorInv'
    BY <2>7, <2>8, <2>9, CursorAfter
  <2> QED BY <1>6, <2>7, <2>10 DEF SerialInv
<1>8. CASE ~(pos[i][1] + 1 >= Columns)
  <2>1. pos' = [pos EXCEPT ![i][1] = @ + 1] /\ Serial!NextChar(t) /\ UNCHANGED interrupts
    BY <1>3, <1>8, Zenon DEF Serial!Paint, Columns
  <2>2. PICK w \in Writes : w = Advanced(t)
    BY <1>1, <1>2, AdvancedTyped
  <2>3. /\ w.phase = "char" /\ w.image = i /\ w.critical = write[t].critical
        /\ w.currentForeground = write[t].currentForeground
        /\ write' = [write EXCEPT ![t] = w]
    BY <1>1, <1>2, <1>3, <2>1, <2>2, AdvancedTyped, NextCharIs DEF SerialInv, PrintTyped
  <2>4. Moves(i, pos[i][1] + 1, pos[i][2])
    <3>1. pos[i][1] + 1 \in Nat
      BY <1>4
    <3> QED BY <1>4, <2>1, <3>1, MoveFacts
  <2>5. WriteStep(t, i, w)
    BY <1>1, <1>2, <1>3, <2>1, <2>3, <2>4 DEF WriteStep, Moves, SerialInv, PrintTyped, Serial!TypeOK
  <2>6. /\ PrintTyped' /\ EndsInside' /\ ColourInv'
        /\ \A j \in Images \ {i} : InLine(j)' /\ InRows(j)'
    BY <1>6, <2>5, StepKeeps
  <2>7. InRows(i)'
    BY <1>1, <1>3, <1>6, <2>3, <2>4, <2>5, SameRow DEF Moves
  <2>8. InLine(i)'
    BY <1>4, <1>8, <2>4, ScreenSizes DEF InLine, Moves
  <2>9. CursorInv'
    BY <2>6, <2>7, <2>8, CursorAfter
  <2> QED BY <1>6, <2>6, <2>9 DEF SerialInv
<1> QED BY <1>7, <1>8

\* the end of a line, after a notification may have printed,
LEMMA EndLineKeeps ==
  ASSUME Serial!SerialAssumption, SerialInv, NEW t \in Serial!Threads, Serial!EndLine(t)
  PROVE  SerialInv'
<1>1. /\ Serial!InPhase(t, "line") /\ Serial!CanRun(t) /\ write[t].phase = "line"
      /\ pos' = [pos EXCEPT ![write[t].image][1] = 0]
      /\ UNCHANGED <<initialized, printColour, glyph>>
  BY Zenon DEF Serial!EndLine, Serial!InPhase
<1>2. write[t] \in Writes /\ write[t] # Serial!Idle /\ write[t].image \in Images
  BY <1>1, WriteFacts DEF SerialInv, PrintTyped, Serial!Idle, Writes
<1>3. PICK i \in Images : i = write[t].image
  BY <1>2
<1>4. Ending(t, i) /\ initialized[i] /\ write[t].text # <<>>
  BY <1>1, <1>3 DEF SerialInv, EndsInside, Ending
<1>5. pos[i][2] \in Rows /\ pos[i][2] <= LastRow(i) /\ pos[i][2] \in Nat
  BY RowFacts DEF SerialInv, CursorInv, InRows
<1>6. Moves(i, 0, pos[i][2])
  BY <1>1, <1>3, MoveFacts DEF SerialInv, PrintTyped, Serial!TypeOK
<1>7. glyph' \subseteq Nat \X Nat /\ Serial!GlyphsInside'
  BY <1>1 DEF SerialInv, PrintTyped, Serial!TypeOK, Serial!GlyphsInside
<1>8. ASSUME NEW w \in Writes, write' = [write EXCEPT ![t] = w], interrupts' \in BOOLEAN,
             w.phase \in {"char", "reset"}, w.image = i, w.critical = write[t].critical,
             w.currentForeground = write[t].currentForeground,
             w.phase = "reset" => w.text # <<>>,
             w.phase = "char" => pos[i][2] <= Serial!MaxY - 2 * ScaleFactor
      PROVE  SerialInv'
  <2>1. WriteStep(t, i, w)
    BY <1>1, <1>2, <1>3, <1>4, <1>6, <1>8 DEF WriteStep, Moves
  <2>2. /\ PrintTyped' /\ EndsInside' /\ ColourInv' /\ write'[t] = w
        /\ \A u \in Serial!Threads \ {t} : write'[u] = write[u]
        /\ \A j \in Images \ {i} : InLine(j)' /\ InRows(j)'
    BY <1>7, <2>1, StepKeeps
  <2>3. InRows(i)'
    <3>1. CASE w.phase = "reset"
      <4>1. \A u \in Serial!Threads : Ending(u, i)' <=> Ending(u, i)
        BY <1>4, <1>8, <2>2, <3>1 DEF Ending
      <4> QED BY <1>5, <1>6, <4>1 DEF InRows, LastRow, Moves, Serial!Threads
    <3>2. CASE w.phase = "char"
      <4>1. LastRow(i)' >= Serial!MaxY - 2 * ScaleFactor /\ LastRow(i)' \in Int
        BY ScreenSizes DEF LastRow
      <4> QED BY <1>5, <1>6, <1>8, <3>2, <4>1, ScreenSizes DEF InRows, Moves
    <3> QED BY <1>8, <3>1, <3>2
  <2>4. InLine(i)'
    BY <1>6, ColumnsPositive DEF InLine, Moves
  <2>5. CursorInv'
    BY <2>2, <2>3, <2>4, CursorAfter
  <2> QED BY <1>7, <2>2, <2>5 DEF SerialInv
<1>9. CASE pos[i][2] >= Serial!MaxY - ScaleFactor
  <2>1. Serial!Goes(t, "reset") /\ UNCHANGED interrupts
    BY <1>3, <1>9, Zenon DEF Serial!EndLine
  <2>2. PICK w : w = [write[t] EXCEPT !.phase = "reset"]
    OBVIOUS
  <2>3. /\ w \in Writes /\ w.phase = "reset" /\ w.image = i /\ w.text = write[t].text
        /\ w.critical = write[t].critical /\ w.currentForeground = write[t].currentForeground
    BY <1>2, <1>3, <2>2 DEF Writes, Phases
  <2>4. write' = [write EXCEPT ![t] = w]
    BY <2>1, <2>2, Zenon DEF Serial!Goes, SerialInv, PrintTyped, WritesTyped
  <2> QED BY <1>4, <1>8, <2>1, <2>3, <2>4 DEF SerialInv, PrintTyped, Serial!TypeOK
<1>10. CASE ~(pos[i][2] >= Serial!MaxY - ScaleFactor)
  <2>1. Serial!NextChar(t) /\ Serial!EnableIf(write[t].intstate)
    BY <1>3, <1>10, Zenon DEF Serial!EndLine
  <2>2. PICK w \in Writes : w = Advanced(t)
    BY <1>2, <1>4, AdvancedTyped
  <2>3. /\ w.phase = "char" /\ w.image = i /\ w.critical = write[t].critical
        /\ w.currentForeground = write[t].currentForeground
        /\ write' = [write EXCEPT ![t] = w]
    BY <1>2, <1>3, <1>4, <2>1, <2>2, AdvancedTyped, NextCharIs DEF SerialInv, PrintTyped
  <2>4. interrupts' \in BOOLEAN
    BY <1>2, <2>1 DEF Serial!EnableIf, Writes, SerialInv, PrintTyped, Serial!TypeOK
  <2>5. pos[i][2] <= Serial!MaxY - 2 * ScaleFactor
    BY <1>5, <1>10, RowFacts
  <2> QED BY <1>8, <2>3, <2>4, <2>5
<1> QED BY <1>9, <1>10

\* the screen that starts again at its top,
LEMMA ResetKeeps ==
  ASSUME Serial!SerialAssumption, SerialInv, NEW t \in Serial!Threads, Serial!ResetFb(t)
  PROVE  SerialInv'
<1>1. /\ Serial!CanRun(t) /\ write[t].phase = "reset" /\ Serial!Goes(t, "char")
      /\ Serial!EnableIf(write[t].intstate)
      /\ pos' = [pos EXCEPT ![write[t].image][2] = 0]
      /\ UNCHANGED <<initialized, printColour, glyph>>
  BY Zenon DEF Serial!ResetFb, Serial!InPhase
<1>2. /\ write[t] \in Writes /\ write[t] # Serial!Idle /\ write[t].image \in Images
      /\ pos[write[t].image][1] < Columns
  BY <1>1, InColumn
<1>3. PICK i \in Images, w \in Writes :
         i = write[t].image /\ w = [write[t] EXCEPT !.phase = "char"]
  BY <1>2 DEF Writes, Phases
<1>4. /\ w \in Writes /\ w.phase = "char" /\ w.image = i
      /\ w.critical = write[t].critical /\ w.currentForeground = write[t].currentForeground
  BY <1>2, <1>3 DEF Writes, Phases
<1>5. write' = [write EXCEPT ![t] = w]
  BY <1>1, <1>3, Zenon DEF Serial!Goes, SerialInv, PrintTyped, WritesTyped
<1>6. Moves(i, pos[i][1], 0)
  BY <1>1, <1>3, MoveFacts DEF SerialInv, PrintTyped, Serial!TypeOK
<1>7. initialized[i] /\ interrupts' \in BOOLEAN
  BY <1>1, <1>2, <1>3 DEF Serial!EnableIf, Writes, SerialInv, EndsInside, Ending, PrintTyped,
                          Serial!TypeOK
<1>8. WriteStep(t, i, w)
  BY <1>1, <1>2, <1>3, <1>4, <1>5, <1>6, <1>7 DEF WriteStep, Moves
<1>9. glyph' \subseteq Nat \X Nat /\ Serial!GlyphsInside'
  BY <1>1 DEF SerialInv, PrintTyped, Serial!TypeOK, Serial!GlyphsInside
<1>10. PrintTyped' /\ EndsInside' /\ ColourInv' /\ \A j \in Images \ {i} : InLine(j)' /\ InRows(j)'
  BY <1>8, <1>9, StepKeeps
<1>11. InRows(i)'
  <2>1. LastRow(i)' >= 0
    BY ScreenSizes DEF LastRow
  <2> QED BY <1>6, <2>1, ZeroRow DEF InRows, Moves
<1>12. InLine(i)'
  BY <1>2, <1>3, <1>6 DEF InLine, Moves
<1>13. CursorInv'
  BY <1>10, <1>11, <1>12, CursorAfter
<1> QED BY <1>9, <1>10, <1>13 DEF SerialInv

\* and the end of a write.
LEMMA EndKeeps ==
  ASSUME Serial!SerialAssumption, SerialInv, NEW t \in Serial!Threads, Serial!End(t)
  PROVE  SerialInv'
<1>1. /\ Serial!CanRun(t) /\ write[t].phase = "char" /\ Serial!EnableIf(write[t].interruptState)
      /\ printColour' = IF write[t].critical
                   THEN [printColour EXCEPT ![write[t].image] = write[t].currentForeground]
                   ELSE printColour
      /\ write' = [write EXCEPT ![t] = Serial!Idle]
      /\ UNCHANGED <<initialized, pos, glyph>>
  BY Zenon DEF Serial!End, Serial!InPhase
<1>2. write[t] \in Writes /\ write[t] # Serial!Idle /\ write[t].image \in Images
  BY <1>1, InColumn
<1>3. write'[t] = Serial!Idle /\ \A u \in Serial!Threads \ {t} : write'[u] = write[u]
  BY <1>1 DEF SerialInv, PrintTyped, WritesTyped
<1>4. PrintTyped'
  BY <1>1, <1>2 DEF SerialInv, PrintTyped, Serial!TypeOK, WritesTyped, Serial!EnableIf, Writes,
                    Colors
<1>5. \A u \in Serial!Threads, j \in Images : Ending(u, j)' <=> Ending(u, j)
  BY <1>1, <1>3 DEF Ending, Serial!Idle
<1>6. EndsInside' /\ Serial!GlyphsInside'
  BY <1>1, <1>3 DEF SerialInv, EndsInside, Serial!GlyphsInside, Ending, Serial!Idle
<1>7. CursorInv'
  <2> SUFFICES ASSUME NEW j \in Images PROVE InLine(j)' /\ InRows(j)'
    BY DEF CursorInv
  <2>1. InRows(j)'
    BY <1>1, <1>5 DEF SerialInv, CursorInv, InRows, LastRow, Serial!Threads
  <2>2. ASSUME NEW u \in Serial!Threads, write[u].phase = "line", u = "app" => Undisturbed
        PROVE  FALSE
    BY <1>1, <1>2, <2>2 DEF Undisturbed, Serial!CanRun, Serial!Idle, Serial!Threads
  <2>3. InLine(j)'
    BY <1>1, <2>2 DEF SerialInv, CursorInv, InLine, Serial!Threads
  <2> QED BY <2>1, <2>3
<1>8. ColourInv'
  <2> SUFFICES ASSUME NEW j \in Images PROVE White(j)' /\ NotYet(j)'
    BY DEF ColourInv
  <2>1. ~Active(t, j)' /\ ~Critical(t, j)'
    BY <1>3 DEF Active, Critical
  <2>2. \A u \in Serial!Threads \ {t} :
           /\ Active(u, j)' <=> Active(u, j)
           /\ Critical(u, j)' <=> Critical(u, j)
           /\ write'[u] = write[u]
    BY <1>3 DEF Active, Critical
  <2>3. NotYet(j)'
    BY <1>1, <1>2, <2>1, <2>2 DEF SerialInv, ColourInv, NotYet, Undisturbed, Serial!Threads
  <2>4. ASSUME initialized[j] PROVE White(j)'
    <3>1. /\ printColour[j] = "white" \/ Critical("app", j) \/ Critical("notification", j)
          /\ Critical("app", j) => write["app"].currentForeground = "white"
          /\ Critical("notification", j) =>
               write["notification"].currentForeground = "white" \/ Critical("app", j)
      BY <2>4 DEF SerialInv, ColourInv, White
    <3>2. t = "app" => ~Critical("notification", j)
      BY <1>1 DEF Serial!CanRun, Critical, Active
    <3>3. Critical(t, j) => printColour'[j] = write[t].currentForeground
      BY <1>1 DEF Critical, Active, SerialInv, PrintTyped, Serial!TypeOK
    <3>4. ~Critical(t, j) => printColour'[j] = printColour[j]
      BY <1>1, <1>2 DEF Critical, Active, SerialInv, PrintTyped, Serial!TypeOK
    <3> QED BY <2>1, <2>2, <3>1, <3>2, <3>3, <3>4 DEF White, Serial!Threads
  <2>5. White(j)'
    BY <1>1, <2>4 DEF White
  <2> QED BY <2>3, <2>5
<1> QED BY <1>4, <1>6, <1>7, <1>8 DEF SerialInv

-----------------------------------------------------------------------------
\* Not a step of the debug output.
LEMMA SerialStutterKeeps == ASSUME SerialInv, UNCHANGED Serial!vars PROVE SerialInv'
<1>1. UNCHANGED <<interrupts, initialized, pos, printColour, write, glyph>>
  BY DEF Serial!vars
<1> QED BY <1>1 DEF SerialInv, PrintTyped, Serial!TypeOK, WritesTyped, EndsInside, Ending,
                    CursorInv, InLine, InRows, LastRow, Undisturbed, Serial!GlyphsInside,
                    ColourInv, White, NotYet, Active, Critical

\* Every step of the debug output keeps the invariant.
LEMMA SerialStepKeeps ==
  ASSUME Serial!SerialAssumption, SerialInv, [Serial!Next]_Serial!vars
  PROVE  SerialInv'
<1>1. CASE Serial!SwitchInterrupts
  BY <1>1, SwitchKeeps
<1>2. ASSUME NEW t \in Serial!Threads, NEW i \in Images, Serial!SerialPortInitialize(t, i)
      PROVE  SerialInv'
  BY <1>2, InitializeKeeps
<1>3. ASSUME NEW t \in Serial!Threads,
             Serial!SerialPortWrite(t) \/ Serial!SerialPortWriteCritical(t)
      PROVE  SerialInv'
  BY <1>3, BeginKeeps DEF Serial!SerialPortWrite, Serial!SerialPortWriteCritical
<1>4. ASSUME NEW t \in Serial!Threads, Serial!Skip(t) PROVE SerialInv'
  BY <1>4, SkipKeeps
<1>5. ASSUME NEW t \in Serial!Threads, Serial!NewLine(t) PROVE SerialInv'
  BY <1>5, NewLineKeeps
<1>6. ASSUME NEW t \in Serial!Threads, Serial!Paint(t) PROVE SerialInv'
  BY <1>6, PaintKeeps
<1>7. ASSUME NEW t \in Serial!Threads, Serial!EndLine(t) PROVE SerialInv'
  BY <1>7, EndLineKeeps
<1>8. ASSUME NEW t \in Serial!Threads, Serial!ResetFb(t) PROVE SerialInv'
  BY <1>8, ResetKeeps
<1>9. ASSUME NEW t \in Serial!Threads, Serial!End(t) PROVE SerialInv'
  BY <1>9, EndKeeps
<1>10. CASE UNCHANGED Serial!vars
  BY <1>10, SerialStutterKeeps
<1> QED BY <1>1, <1>2, <1>3, <1>4, <1>5, <1>6, <1>7, <1>8, <1>9, <1>10 DEF Serial!Next

\* The invariant holds in every state the debug output can reach.
LEMMA SerialInductive == Serial!SerialAssumption /\ Serial!Spec => []SerialInv
<1> SUFFICES ASSUME Serial!SerialAssumption PROVE Serial!Spec => []SerialInv
  OBVIOUS
<1>1. Serial!Init => SerialInv
  BY SerialStarts
<1>2. SerialInv /\ [Serial!Next]_Serial!vars => SerialInv'
  BY SerialStepKeeps
<1> QED BY <1>1, <1>2, PTL DEF Serial!Spec

\* With nobody writing the colours are white: nobody holds a yellow to restore.
LEMMA SerialInvKept == SerialInv => SerialKept
<1> SUFFICES ASSUME SerialInv PROVE SerialKept
  OBVIOUS
<1>1. Serial!YellowIsPassing
  BY DEF SerialInv, ColourInv, White, Critical, Active, Serial!YellowIsPassing, Serial!Threads
<1> QED BY <1>1 DEF SerialInv, PrintTyped, SerialKept, Serial!SerialKept

\* Whatever the screen, the font, the images and what an uninitialised variable
\* holds: FbConDrawglyph writes no pixel outside of the frame buffer, although a
\* notification may print between any two steps of a line that is ending, and
\* when no write is under way SerialPortWriteCritical has left its yellow to no
\* image.
THEOREM DebugOutputKept == Serial!Spec => []SerialKept
<1>1. Serial!SerialAssumption
  BY OutputAssumption
<1> QED BY <1>1, SerialInductive, SerialInvKept, PTL

(***************************************************************************)
(* ConSplitterOut.                                                         *)
(***************************************************************************)

TextSize == Nat \X Nat

\* Row r of the table c is told in the numbers of device d in column i.
Tells(c, r, d, i) ==
    /\ c.map[r][i] \in -1 .. Len(TextModes[d]) - 1
    /\ Text!QueryMode(c, r - 1) # Text!NoSize =>
         c.map[r][i] # -1 /\ TextModes[d][c.map[r][i] + 1] = Text!QueryMode(c, r - 1)

\* The first column of the mode map are numbers in TextOutQueryData: rows 1 and 2
\* have their own, and no other row has these.
Numbers(c) ==
    /\ Len(c.query) >= 2 /\ c.query[1] = Size25 /\ c.query[2] \in {Size50, Text!NoSize}
    /\ c.max \in 2 .. Len(c.query)
    /\ Len(c.map) = Len(c.query) /\ \A r \in 1 .. Len(c.map) : Len(c.map[r]) = c.cap
    /\ c.map[1][1] = 0 /\ c.map[2][1] = 1
    /\ \A r \in 3 .. c.max : c.map[r][1] \in 2 .. Len(c.query) - 1

\* The rows tell the modes of the first k devices of list, and the columns behind
\* them nothing yet.
Told(c, list, k, rows) ==
    /\ k <= Len(list) /\ k \in 1 .. c.cap
    /\ \A r \in rows, i \in 1 .. k : Tells(c, r, list[i], i)
    /\ \A r \in 1 .. c.max, i \in k + 1 .. c.cap : c.map[r][i] = -1

\* A console without devices is 80 x 25 with the cursor on it.
Deserted(c) ==
    /\ Len(c.query) >= 2 /\ c.query[1] = Size25
    /\ c.max = 1 /\ c.mode = 0
    /\ c.cursor[1] < Size25[1] /\ c.cursor[2] < Size25[2]
    /\ c.map # <<>> => /\ c.map[1][1] = 0
                       /\ \A r \in 1 .. Len(c.map) : Len(c.map[r]) = c.cap

\* What a console's tables are between any two calls.
Tables(c) ==
    /\ Len(c.list) <= c.cap /\ c.cap >= 2
    /\ \A i, j \in DOMAIN c.list : c.list[i] = c.list[j] => i = j
    /\ c.list = <<>> => Deserted(c)
    /\ c.list # <<>> => Numbers(c) /\ Told(c, c.list, Len(c.list), 1 .. c.max)

\* The console is in a mode, and its devices, but for those that are out, in the
\* mode of that size.
InMode(c, modes, out) ==
    /\ c.mode \in 0 .. c.max - 1
    /\ Text!QueryMode(c, c.mode) # Text!NoSize =>
         \A d \in Text!Drawn(c) \ out : TextModes[d][modes[d] + 1] = Text!QueryMode(c, c.mode)

\* Mode 0 is 80 x 25 on every device, and mode 1 is 80 x 50 or nothing.
LEMMA TextModesAre ==
    ASSUME NEW d \in TextDevices
    PROVE  /\ Len(TextModes[d]) \in Nat /\ Len(TextModes[d]) >= 2
           /\ DOMAIN TextModes[d] = 1 .. Len(TextModes[d])
           /\ \A i \in 1 .. Len(TextModes[d]) : TextModes[d][i] \in TextSize
           /\ TextModes[d][1] = Size25 /\ TextModes[d][2] \in {Size50, Text!NoSize}
<1> DEFINE s == TextModes[d]
<1>1. /\ s \in Seq(TextSize) /\ Len(s) >= 2
      /\ s[1] = Size25 /\ s[2] \in {Size50, Text!NoSize}
  BY OutputAssumption DEF Text!OutAssumption, TextSize
<1> HIDE DEF s
<1>2. Len(s) \in Nat /\ DOMAIN s = 1 .. Len(s) /\ \A i \in 1 .. Len(s) : s[i] \in TextSize
  BY <1>1, LenProperties
<1> QED BY <1>1, <1>2 DEF s

\* The two sizes are different, and neither is NoSize.
LEMMA TextSizes ==
    /\ Size25 \in TextSize /\ Size50 \in TextSize /\ Text!NoSize \in TextSize
    /\ Size25 # Size50 /\ Size25 # Text!NoSize /\ Size50 # Text!NoSize
    /\ Size25[1] \in Nat \ {0} /\ Size25[2] \in Nat \ {0}
    /\ Text!NoSize[1] = 0 /\ Text!NoSize[2] = 0
  BY OutputAssumption DEF Text!OutAssumption, TextSize, Text!NoSize

\* The types of a console's data.
LEMMA PrivateIs ==
    ASSUME NEW c \in Text!Privates
    PROVE  /\ c.list \in Seq(TextDevices) /\ Len(c.list) \in Nat
           /\ DOMAIN c.list = 1 .. Len(c.list)
           /\ \A i \in 1 .. Len(c.list) : c.list[i] \in TextDevices
           /\ c.cap \in Nat /\ c.max \in Nat /\ c.mode \in Int
           /\ c.cursor \in TextSize /\ c.colour \in TextColours
           /\ c.query \in Seq(TextSize) /\ Len(c.query) \in Nat
           /\ \A i \in 1 .. Len(c.query) : c.query[i] \in TextSize
           /\ c.map \in Seq(Seq(Int)) /\ Len(c.map) \in Nat /\ DOMAIN c.map = 1 .. Len(c.map)
           /\ (c.map = <<>> <=> Len(c.map) = 0)
           /\ \A r \in 1 .. Len(c.map) :
                /\ c.map[r] \in Seq(Int) /\ Len(c.map[r]) \in Nat
                /\ DOMAIN c.map[r] = 1 .. Len(c.map[r])
                /\ \A i \in 1 .. Len(c.map[r]) : c.map[r][i] \in Int
<1> DEFINE T == Seq(Int)
<1>1. /\ c.list \in Seq(TextDevices) /\ c.cap \in Nat /\ c.query \in Seq(TextSize)
      /\ c.map \in Seq(T) /\ c.max \in Nat /\ c.mode \in Int
      /\ c.cursor \in TextSize /\ c.colour \in TextColours
  BY DEF Text!Privates, TextSize
<1> DEFINE l == c.list
           q == c.query
           m == c.map
<1> HIDE DEF T, l, q, m
<1>2. Len(l) \in Nat /\ DOMAIN l = 1 .. Len(l) /\ \A i \in 1 .. Len(l) : l[i] \in TextDevices
  <2>1. l \in Seq(TextDevices)
    BY <1>1 DEF l
  <2> QED BY <2>1, LenProperties
<1>3. Len(q) \in Nat /\ \A i \in 1 .. Len(q) : q[i] \in TextSize
  <2>1. q \in Seq(TextSize)
    BY <1>1 DEF q
  <2> QED BY <2>1, LenProperties
<1>4. /\ Len(m) \in Nat /\ DOMAIN m = 1 .. Len(m) /\ \A r \in 1 .. Len(m) : m[r] \in T
      /\ (m = <<>> <=> Len(m) = 0)
  <2>1. m \in Seq(T)
    BY <1>1 DEF m
  <2> QED BY <2>1, LenProperties, EmptySeq
<1>5. ASSUME NEW r \in 1 .. Len(m)
      PROVE  /\ m[r] \in T /\ Len(m[r]) \in Nat /\ DOMAIN m[r] = 1 .. Len(m[r])
             /\ \A i \in 1 .. Len(m[r]) : m[r][i] \in Int
  <2> DEFINE s == m[r]
  <2>1. s \in Seq(Int)
    BY <1>4, <1>5 DEF T
  <2> HIDE DEF s
  <2>2. Len(s) \in Nat /\ DOMAIN s = 1 .. Len(s) /\ \A i \in 1 .. Len(s) : s[i] \in Int
    BY <2>1, LenProperties
  <2> QED BY <2>1, <2>2 DEF s, T
<1> QED BY <1>1, <1>2, <1>3, <1>4, <1>5 DEF T, l, q, m

\* A function on 1 .. n is a sequence.
LEMMA SequenceOf ==
    ASSUME NEW S, NEW n \in Nat, NEW f \in [1 .. n -> S]
    PROVE  f \in Seq(S) /\ Len(f) = n
<1>1. f \in Seq(S)
  BY SeqDef
<1>2. Len(f) \in Nat /\ DOMAIN f = 1 .. Len(f)
  BY <1>1, LenProperties
<1> QED BY <1>1, <1>2

\* rows are the rows of c that stay, the first two with them, and m what becomes
\* of the current mode: the number of its row among them.
Stay(c, keep, rows, m) ==
    /\ rows \in Seq(1 .. c.max) /\ Len(rows) \in 2 .. c.max
    /\ rows[1] = 1 /\ rows[2] = 2
    /\ \A i \in 3 .. Len(rows) : rows[i] \in keep \cap (3 .. c.max)
    /\ m \in Int
    /\ c.mode \in 0 .. c.max - 1 =>
         m = -1 \/ (m \in 0 .. Len(rows) - 1 /\ rows[m + 1] = c.mode + 1)

Narrowed(c, rows, m) ==
    [c EXCEPT !.max  = Len(rows),
              !.map  = [r \in 1 .. Len(c.map) |-> c.map[IF r <= Len(rows) THEN rows[r] ELSE r]],
              !.mode = m]

\* ConSplitterGetIntersection keeps the rows that stay.
LEMMA IntersectionIs ==
    ASSUME NEW c \in Text!Privates, c.max >= 2, NEW keep
    PROVE  \E rows, m :
             /\ Stay(c, keep, rows, m)
             /\ Text!GetIntersection(c, keep) = Narrowed(c, rows, m)
<1> DEFINE N == c.max
           was == c.mode
           T == [rows : Seq(1 .. N), mode : Int]
           e == [rows |-> <<>>, mode |-> was]
           Keeps(n, s) == IF n <= 2 \/ n \in keep THEN [s EXCEPT !.rows = Append(@, n)]
                          ELSE [s EXCEPT !.mode = Text!ModeAfter(was, n, @)]
           G == [n \in 1 .. N |-> [s \in T |-> Keeps(n, s)]]
           Solves(g) == g = [n \in 0 .. N |-> IF n = 0 THEN e ELSE Keeps(n, g[n - 1])]
           pass == CHOOSE g : Solves(g)
<1>1. N \in Nat /\ was \in Int /\ N >= 2
  BY PrivateIs
<1> HIDE DEF Solves, pass
<1>2. e \in T
  <2> DEFINE R == 1 .. N
  <2>1. <<>> \in Seq(R)
    BY EmptySeq
  <2> HIDE DEF R
  <2> QED BY <1>1, <2>1 DEF R
<1>3. ASSUME NEW n \in 1 .. N, NEW s \in T
      PROVE  Keeps(n, s) \in T
  <2>1. Append(s.rows, n) \in Seq(1 .. N)
    BY AppendProperties
  <2>2. Text!ModeAfter(was, n, s.mode) \in Int
    BY DEF Text!ModeAfter, Text!NoMode
  <2> QED BY <2>1, <2>2
<1>4. G \in StepsOf(N, T)
  BY <1>3 DEF StepsOf
<1> HIDE DEF e
<1>5. PICK f : Runs(f, N, T, e, G)
  <2> HIDE DEF G, T
  <2> QED BY <1>1, <1>2, <1>4, RunExists
<1>6. /\ f \in [0 .. N -> T] /\ f[0] = e
      /\ \A i \in 1 .. N : f[i] = Keeps(i, f[i - 1])
  <2>1. /\ f \in [0 .. N -> T] /\ f[0] = e
        /\ \A i \in 1 .. N : f[i] = G[i][f[i - 1]]
    BY <1>5 DEF Runs
  <2>2. ASSUME NEW i \in 1 .. N
        PROVE  f[i] = Keeps(i, f[i - 1])
    <3>1. f[i - 1] \in T /\ f[i] = G[i][f[i - 1]]
      <4> HIDE DEF G, T
      <4> QED BY SMTT(40), <1>1, <2>1
    <3>2. G[i][f[i - 1]] = Keeps(i, f[i - 1])
      <4> HIDE DEF Keeps, T
      <4> QED BY SMTT(40), <3>1
    <3> QED BY <3>1, <3>2
  <2> QED BY <2>1, <2>2
<1>7. Solves(f)
  <2>1. f = [n \in 0 .. N |-> IF n = 0 THEN e ELSE Keeps(n, f[n - 1])]
    <3> HIDE DEF Keeps, T
    <3> QED BY <1>1, <1>6
  <2> QED BY <2>1 DEF Solves
<1>8. Solves(pass)
  BY <1>7 DEF pass
<1>9. pass[0] = e /\ \A i \in 1 .. N : pass[i] = Keeps(i, pass[i - 1])
  <2>1. pass = [n \in 0 .. N |-> IF n = 0 THEN e ELSE Keeps(n, pass[n - 1])]
    BY <1>8 DEF Solves
  <2> HIDE DEF Keeps
  <2> QED BY SMTT(40), <1>1, <2>1
<1>10. Text!GetIntersection(c, keep) = Narrowed(c, pass[N].rows, pass[N].mode)
  BY DEF Text!GetIntersection, Narrowed, pass, Solves, e
<1> HIDE DEF G
<1> DEFINE Good(s, k) ==
             /\ s.rows \in Seq(1 .. N) /\ Len(s.rows) <= k /\ s.mode \in Int
             /\ k >= 1 => Len(s.rows) >= 1 /\ s.rows[1] = 1
             /\ k >= 2 => Len(s.rows) >= 2 /\ s.rows[2] = 2
             /\ k <= 2 => Len(s.rows) = k
             /\ \A i \in 3 .. Len(s.rows) : s.rows[i] \in keep \cap (3 .. N)
             /\ was \in 0 .. N - 1 =>
                  /\ k <= was => s.mode = was - (k - Len(s.rows))
                  /\ k > was => \/ s.mode = -1
                                \/ s.mode \in 0 .. Len(s.rows) - 1 /\ s.rows[s.mode + 1] = was + 1
           U == {k \in 0 .. N : pass[k] \in T /\ Good(pass[k], k)}
<1>11. 0 \in U
  <2>1. e \in T /\ e.mode = was /\ Len(e.rows) = 0
    BY <1>2, EmptySeq DEF e
  <2>2. Good(e, 0)
    BY <1>1, <2>1
  <2> HIDE DEF Good, T
  <2> QED BY <1>1, <1>9, <2>1, <2>2
<1>12. ASSUME NEW k \in 0 .. N - 1, k \in U
       PROVE  k + 1 \in U
  <2> DEFINE s == pass[k]
             t == pass[k + 1]
             n == k + 1
  <2>1. /\ n \in 1 .. N /\ n \in 0 .. N /\ k \in 0 .. N
        /\ s \in T /\ Good(s, k) /\ t = Keeps(n, s)
    <3>1. n \in 1 .. N /\ n - 1 = k /\ n \in 0 .. N /\ k \in 0 .. N
      BY <1>1
    <3>2. t = Keeps(n, s)
      <4> HIDE DEF Keeps
      <4> QED BY <1>9, <3>1
    <3> HIDE DEF Keeps, Good, T
    <3> QED BY <1>12, <3>1, <3>2
  <2>2. t \in T
    BY ZenonT(60), <1>3, <2>1
  <2> DEFINE L == Len(s.rows)
  <2>3. s.rows \in Seq(1 .. N) /\ L \in Nat /\ L <= k /\ s.mode \in Int
    BY <2>1, LenProperties
  <2>4. n = k + 1
    OBVIOUS
  <2>5. Good(s, k)
    BY <2>1
  <2> HIDE DEF s, t, n
  <2>6. CASE n <= 2 \/ n \in keep
    <3> DEFINE u == Append(s.rows, n)
    <3>1. /\ u \in Seq(1 .. N) /\ Len(u) = L + 1 /\ u[L + 1] = n
          /\ \A i \in 1 .. L : u[i] = s.rows[i]
      BY <2>1, <2>3, AppendProperties
    <3>2. t.rows = u /\ t.mode = s.mode
      BY <2>1, <2>6
    <3> HIDE DEF u
    <3> DEFINE v == s.rows
               a == s.mode
    <3>3. /\ L \in Nat /\ L <= k /\ a \in Int /\ k \in 0 .. N - 1
          /\ (k >= 1 => L >= 1 /\ v[1] = 1) /\ (k >= 2 => L >= 2 /\ v[2] = 2)
          /\ (k <= 2 => L = k)
          /\ \A i \in 3 .. L : v[i] \in keep \cap (3 .. N)
      BY <2>3, <2>5
    <3>4. was \in 0 .. N - 1 =>
            /\ k <= was => a = was - (k - L)
            /\ k > was => \/ a = -1
                          \/ a \in 0 .. L - 1 /\ v[a + 1] = was + 1
      BY <2>5
    <3>5. \A i \in 1 .. L : u[i] = v[i]
      BY <3>1
    <3> HIDE DEF v, a, L
    <3>6. (n >= 1 => L + 1 >= 1 /\ u[1] = 1) /\ (n <= 2 => L + 1 = n)
      <4>1. CASE k = 0
        BY <2>4, <3>1, <3>3, <4>1
      <4>2. CASE k >= 1
        <5>1. 1 \in 1 .. L
          BY <3>3, <4>2
        <5> QED BY <2>4, <3>3, <3>5, <5>1, <4>2
      <4> QED BY <3>3, <4>1, <4>2
    <3>7. n >= 2 => L + 1 >= 2 /\ u[2] = 2
      <4>1. CASE k <= 1
        BY <2>4, <3>1, <3>3, <4>1
      <4>2. CASE k >= 2
        <5>1. 2 \in 1 .. L
          BY <3>3, <4>2
        <5> QED BY <2>4, <3>3, <3>5, <5>1, <4>2
      <4> QED BY <3>3, <4>1, <4>2
    <3>8. ASSUME NEW i \in 3 .. L + 1
          PROVE  u[i] \in keep \cap (3 .. N)
      <4>1. CASE i = L + 1
        <5>1. n >= 3 /\ n \in keep /\ n \in 3 .. N
          BY SMTT(40), <1>1, <2>1, <2>4, <2>6, <3>3, <4>1
        <5> QED BY <3>1, <4>1, <5>1
      <4>2. CASE i # L + 1
        <5>1. i \in 3 .. L /\ i \in 1 .. L
          BY <3>3, <4>2
        <5> QED BY <3>3, <3>5, <5>1
      <4> QED BY <4>1, <4>2
    <3>9. ASSUME was \in 0 .. N - 1
          PROVE  /\ n <= was => a = was - (n - (L + 1))
                 /\ n > was => a = -1 \/ (a \in 0 .. L + 1 - 1 /\ u[a + 1] = was + 1)
      <4>1. n <= was => a = was - (n - (L + 1))
        BY <1>1, <2>4, <3>3, <3>4, <3>9
      <4>2. CASE n = was + 1
        <5>1. a = L
          BY <1>1, <2>4, <3>3, <3>4, <3>9, <4>2
        <5> QED BY <3>1, <3>3, <4>1, <4>2, <5>1
      <4>3. CASE n > was + 1
        <5>1. a = -1 \/ (a \in 0 .. L - 1 /\ v[a + 1] = was + 1)
          BY <1>1, <2>4, <3>3, <3>4, <3>9, <4>3
        <5>2. a \in 0 .. L - 1 => a + 1 \in 1 .. L /\ a \in 0 .. L + 1 - 1
          BY <3>3
        <5> QED BY <3>5, <4>1, <5>1, <5>2
      <4> QED BY <1>1, <2>4, <3>9, <4>1, <4>2, <4>3
    <3>10. L + 1 <= n /\ L + 1 \in Nat
      BY <2>4, <3>3
    <3>11. t.rows = u /\ t.mode = a
      BY <3>2 DEF a
    <3>12. Len(u) = L + 1
      BY <3>1
    <3>13. Good(t, n)
      BY <3>1, <3>3, <3>6, <3>7, <3>8, <3>9, <3>10, <3>11, <3>12
    <3> HIDE DEF Good, T
    <3> QED BY <2>1, <2>2, <3>13 DEF t, n
  <2>7. CASE ~(n <= 2 \/ n \in keep)
    <3> DEFINE v == s.rows
               a == s.mode
               b == t.mode
    <3>1. t.rows = v /\ b = Text!ModeAfter(was, n, a)
      BY <2>1, <2>7
    <3>2. /\ L \in Nat /\ L <= k /\ a \in Int /\ k \in 0 .. N - 1 /\ n > 2 /\ v \in Seq(1 .. N)
          /\ (k >= 1 => L >= 1 /\ v[1] = 1) /\ (k >= 2 => L >= 2 /\ v[2] = 2)
          /\ \A i \in 3 .. L : v[i] \in keep \cap (3 .. N)
      BY <2>1, <2>3, <2>5, <2>7
    <3>3. was \in 0 .. N - 1 =>
            /\ k <= was => a = was - (k - L)
            /\ k > was => \/ a = -1
                          \/ a \in 0 .. L - 1 /\ v[a + 1] = was + 1
      BY <2>5
    <3>4. b \in Int
      BY <2>2
    <3>5. Len(v) = L
      OBVIOUS
    <3> HIDE DEF v, a, b, L
    <3>6. ASSUME was \in 0 .. N - 1
          PROVE  /\ n <= was => b = was - (n - L)
                 /\ n > was => b = -1 \/ (b \in 0 .. L - 1 /\ v[b + 1] = was + 1)
      <4>1. CASE n <= was
        <5>1. b = a - 1
          BY SMTT(40), <1>1, <2>4, <3>1, <3>2, <4>1 DEF Text!ModeAfter
        <5>2. a = was - (k - L)
          BY <1>1, <2>4, <3>2, <3>3, <3>6, <4>1
        <5>3. b = was - (n - L)
          BY SMTT(40), <1>1, <2>4, <3>2, <5>1, <5>2
        <5>4. ~(n > was)
          BY <1>1, <2>4, <3>2, <4>1
        <5> QED BY <5>3, <5>4
      <4>2. CASE n = was + 1
        BY <1>1, <2>4, <3>1, <3>2, <3>6, <4>2 DEF Text!ModeAfter, Text!NoMode
      <4>3. CASE n > was + 1
        <5>1. b = a
          BY <1>1, <2>4, <3>1, <3>2, <3>6, <4>3 DEF Text!ModeAfter
        <5>2. a = -1 \/ (a \in 0 .. L - 1 /\ v[a + 1] = was + 1)
          BY <1>1, <2>4, <3>2, <3>3, <3>6, <4>3
        <5> QED BY <1>1, <2>4, <3>6, <4>3, <5>1, <5>2
      <4> QED BY <1>1, <2>4, <3>6, <4>1, <4>2, <4>3
    <3>7. b = t.mode
      BY DEF b
    <3>8. Good(t, n)
      BY <2>4, <3>1, <3>2, <3>4, <3>5, <3>6, <3>7
    <3> HIDE DEF Good, T
    <3> QED BY <2>1, <2>2, <3>8 DEF t, n
  <2> QED BY <2>6, <2>7
<1> HIDE DEF U
<1>13. \A k \in 0 .. N : k \in U
  BY <1>1, <1>11, <1>12, CountUp
<1>14. Good(pass[N], N)
  <2> HIDE DEF Good, T
  <2> QED BY <1>1, <1>13 DEF U
<1>15. Stay(c, keep, pass[N].rows, pass[N].mode)
  <2> DEFINE rows == pass[N].rows
             m == pass[N].mode
  <2>1. /\ rows \in Seq(1 .. N) /\ Len(rows) <= N /\ m \in Int
        /\ Len(rows) >= 2 /\ rows[1] = 1 /\ rows[2] = 2
        /\ \A i \in 3 .. Len(rows) : rows[i] \in keep \cap (3 .. N)
        /\ was \in 0 .. N - 1 => m = -1 \/ (m \in 0 .. Len(rows) - 1 /\ rows[m + 1] = was + 1)
    BY SMTT(40), <1>1, <1>14
  <2> HIDE DEF rows, m
  <2>2. Len(rows) \in Nat
    BY <2>1, LenProperties
  <2>3. Len(rows) \in 2 .. N /\ N = c.max /\ was = c.mode
    BY <1>1, <2>1, <2>2
  <2>4. Stay(c, keep, rows, m)
    BY <2>1, <2>3 DEF Stay
  <2> QED BY <2>4 DEF rows, m
<1> QED BY <1>10, <1>15

\* The size a row tells is that of its number in TextOutQueryData.
LEMMA QueryIs ==
    ASSUME NEW c \in Text!Privates, Numbers(c), NEW r \in 1 .. c.max
    PROVE  /\ r \in 1 .. Len(c.map) /\ r - 1 + 1 = r /\ r \in Nat
           /\ c.map # <<>> /\ c.map[r][1] + 1 \in 1 .. Len(c.query)
           /\ Text!QueryMode(c, r - 1) = c.query[c.map[r][1] + 1]
           /\ Text!QueryMode(c, r - 1) \in TextSize
<1>1. /\ c.max \in Nat /\ Len(c.query) \in Nat /\ (c.map = <<>> <=> Len(c.map) = 0)
      /\ \A i \in 1 .. Len(c.query) : c.query[i] \in TextSize
  BY PrivateIs
<1>2. /\ c.max \in 2 .. Len(c.query) /\ Len(c.map) = Len(c.query)
      /\ c.map[1][1] = 0 /\ c.map[2][1] = 1
      /\ \A q \in 3 .. c.max : c.map[q][1] \in 2 .. Len(c.query) - 1
  BY DEF Numbers
<1>3. r \in 1 .. Len(c.map) /\ r - 1 + 1 = r /\ r \in Nat /\ c.map # <<>>
  BY <1>1, <1>2
<1>4. c.map[r][1] + 1 \in 1 .. Len(c.query)
  <2>1. CASE r = 1
    BY <1>1, <1>2, <2>1
  <2>2. CASE r = 2
    BY <1>1, <1>2, <2>2
  <2>3. CASE r \in 3 .. c.max
    <3>1. c.map[r][1] \in 2 .. Len(c.query) - 1
      BY <1>2, <2>3
    <3> QED BY SMTT(40), <1>1, <3>1
  <2> QED BY <1>1, <2>1, <2>2, <2>3
<1>5. Text!QueryMode(c, r - 1) = c.query[c.map[r][1] + 1]
  BY <1>3 DEF Text!QueryMode
<1> QED BY <1>1, <1>3, <1>4, <1>5

\* Rows that stay keep what they tell, and the mode its size.
LEMMA IntersectionKeeps ==
    ASSUME NEW c \in Text!Privates, Numbers(c), NEW keep, NEW list, NEW k \in Nat,
           Told(c, list, k, {r \in 1 .. c.max : r <= 2 \/ r \in keep}),
           NEW g, g = Text!GetIntersection(c, keep)
    PROVE  /\ g \in Text!Privates /\ Numbers(g) /\ Told(g, list, k, 1 .. g.max)
           /\ g.list = c.list /\ g.cap = c.cap /\ g.cursor = c.cursor /\ g.colour = c.colour
           /\ c.mode \in 0 .. c.max - 1 =>
                \/ g.mode = -1
                \/ /\ g.mode \in 0 .. g.max - 1
                   /\ Text!QueryMode(g, g.mode) = Text!QueryMode(c, c.mode)
<1>1. /\ c.max \in Nat /\ c.mode \in Int /\ c.cap \in Nat /\ Len(c.query) \in Nat
      /\ c.list \in Seq(TextDevices) /\ c.query \in Seq(TextSize)
      /\ c.cursor \in TextSize /\ c.colour \in TextColours
      /\ Len(c.map) \in Nat /\ \A r \in 1 .. Len(c.map) : c.map[r] \in Seq(Int)
  BY PrivateIs
<1>2. /\ Len(c.query) >= 2 /\ c.query[1] = Size25 /\ c.query[2] \in {Size50, Text!NoSize}
      /\ c.max \in 2 .. Len(c.query) /\ Len(c.map) = Len(c.query)
      /\ \A r \in 1 .. Len(c.map) : Len(c.map[r]) = c.cap
      /\ c.map[1][1] = 0 /\ c.map[2][1] = 1
      /\ \A r \in 3 .. c.max : c.map[r][1] \in 2 .. Len(c.query) - 1
  BY SMTT(40) DEF Numbers
<1> DEFINE R(rows, r) == IF r <= Len(rows) THEN rows[r] ELSE r
           M(rows) == [r \in 1 .. Len(c.map) |-> c.map[R(rows, r)]]
<1>3. PICK rows, m :
        /\ Stay(c, keep, rows, m)
        /\ g = [c EXCEPT !.max = Len(rows), !.map = M(rows), !.mode = m]
  <2>1. c.max >= 2
    BY <1>1, <1>2
  <2>2. \E rows, m : Stay(c, keep, rows, m) /\ g = Narrowed(c, rows, m)
    BY <2>1, IntersectionIs
  <2> QED BY <2>2 DEF Narrowed
<1>4. /\ rows \in Seq(1 .. c.max) /\ Len(rows) \in 2 .. c.max
      /\ rows[1] = 1 /\ rows[2] = 2
      /\ \A i \in 3 .. Len(rows) : rows[i] \in keep /\ rows[i] \in 3 .. c.max
      /\ m \in Int
      /\ c.mode \in 0 .. c.max - 1 =>
           m = -1 \/ (m \in 0 .. Len(rows) - 1 /\ rows[m + 1] = c.mode + 1)
  BY <1>3 DEF Stay
<1>5. \A r \in 1 .. Len(rows) : rows[r] \in 1 .. c.max
  BY <1>4, LenProperties
<1>6. \A r \in 1 .. Len(c.map) : R(rows, r) \in 1 .. Len(c.map)
  BY SMTT(40), <1>1, <1>2, <1>4, <1>5
<1>7. M(rows) \in Seq(Seq(Int)) /\ Len(M(rows)) = Len(c.map)
  <2> DEFINE T == Seq(Int)
  <2>1. \A r \in 1 .. Len(c.map) : c.map[R(rows, r)] \in T
    BY <1>1, <1>6
  <2> HIDE DEF T, R
  <2>2. M(rows) \in [1 .. Len(c.map) -> T]
    BY <2>1
  <2> DEFINE f == M(rows)
             n == Len(c.map)
  <2>3. f \in [1 .. n -> T] /\ n \in Nat
    BY <1>1, <2>2
  <2> HIDE DEF f, n
  <2>4. f \in Seq(T) /\ Len(f) = n
    BY <2>3, SequenceOf
  <2> QED BY <2>4 DEF f, n, T
<1>8. /\ g.max = Len(rows) /\ g.map = M(rows) /\ g.mode = m
      /\ g.list = c.list /\ g.cap = c.cap /\ g.query = c.query
      /\ g.cursor = c.cursor /\ g.colour = c.colour
  BY <1>3 DEF Text!Privates
<1>9. g \in Text!Privates
  <2> DEFINE p == M(rows)
             n == Len(rows)
             T == Seq(Seq(Int))
  <2>1. p \in T /\ n \in Nat /\ m \in Int
    BY <1>1, <1>4, <1>7
  <2>2. g = [c EXCEPT !.max = n, !.map = p, !.mode = m]
    BY <1>3
  <2> HIDE DEF p, n, T
  <2> QED BY ZenonT(60), <2>1, <2>2 DEF Text!Privates, T
<1>10. /\ \A r \in 1 .. Len(c.map) : g.map[r] = c.map[R(rows, r)]
       /\ Len(g.map) = Len(c.map)
  BY <1>7, <1>8
<1>11. \A r \in 1 .. Len(rows) : g.map[r] = c.map[rows[r]] /\ rows[r] \in 1 .. c.max
  <2> SUFFICES ASSUME NEW r \in 1 .. Len(rows)
               PROVE  g.map[r] = c.map[rows[r]]
    BY <1>5
  <2>1. r \in 1 .. Len(c.map) /\ r <= Len(rows)
    BY SMTT(40), <1>1, <1>2, <1>4
  <2> QED BY <1>10, <2>1
<1> HIDE DEF M
<1>12. Numbers(g)
  <2>1. \A r \in 1 .. Len(g.map) : Len(g.map[r]) = g.cap
    <3> SUFFICES ASSUME NEW r \in 1 .. Len(c.map)
                 PROVE  Len(g.map[r]) = c.cap
      BY <1>8, <1>10
    <3>1. PICK q \in 1 .. Len(c.map) : g.map[r] = c.map[q]
      <4> HIDE DEF R
      <4> QED BY <1>6, <1>10
    <3> QED BY <1>2, <3>1
  <2>2. g.map[1] = c.map[1] /\ g.map[2] = c.map[2]
    BY SMTT(40), <1>1, <1>4, <1>11
  <2>3. ASSUME NEW r \in 3 .. g.max
        PROVE  g.map[r][1] \in 2 .. Len(g.query) - 1
    <3>1. r \in 1 .. Len(rows) /\ rows[r] \in 3 .. c.max
      BY SMTT(40), <1>1, <1>4, <1>8
    <3>2. c.map[rows[r]][1] \in 2 .. Len(c.query) - 1
      BY <1>2, <3>1
    <3> QED BY <1>8, <1>11, <3>1, <3>2
  <2>4. g.max \in 2 .. Len(g.query)
    BY <1>1, <1>2, <1>4, <1>8
  <2> QED BY <1>2, <1>8, <1>10, <2>1, <2>2, <2>3, <2>4 DEF Numbers
<1>13. ASSUME NEW r \in 1 .. Len(rows)
       PROVE  Text!QueryMode(g, r - 1) = Text!QueryMode(c, rows[r] - 1)
  <2>1. r \in 1 .. g.max /\ rows[r] \in 1 .. c.max
    BY <1>8, <1>11
  <2>2. /\ Text!QueryMode(g, r - 1) = g.query[g.map[r][1] + 1]
        /\ Text!QueryMode(c, rows[r] - 1) = c.query[c.map[rows[r]][1] + 1]
    BY <1>9, <1>12, <2>1, QueryIs
  <2> QED BY <1>8, <1>11, <2>2
<1>14. Told(g, list, k, 1 .. g.max)
  <2>1. /\ k <= Len(list) /\ k \in 1 .. c.cap
        /\ \A r \in 1 .. c.max : r <= 2 \/ r \in keep =>
             \A i \in 1 .. k : Tells(c, r, list[i], i)
        /\ \A r \in 1 .. c.max, i \in k + 1 .. c.cap : c.map[r][i] = -1
    BY DEF Told
  <2>2. ASSUME NEW r \in 1 .. g.max, NEW i \in 1 .. k
        PROVE  Tells(g, r, list[i], i)
    <3>1. r \in 1 .. Len(rows)
      BY <1>8
    <3>2. rows[r] \in 1 .. c.max /\ (rows[r] <= 2 \/ rows[r] \in keep)
      BY SMTT(40), <1>1, <1>4, <1>5, <3>1
    <3>3. Tells(c, rows[r], list[i], i)
      BY <2>1, <3>2
    <3> QED BY <1>11, <1>13, <3>1, <3>3 DEF Tells
  <2>3. ASSUME NEW r \in 1 .. g.max, NEW i \in k + 1 .. g.cap
        PROVE  g.map[r][i] = -1
    BY <1>8, <1>11, <2>1
  <2> QED BY <1>8, <2>1, <2>2, <2>3 DEF Told
<1>15. ASSUME c.mode \in 0 .. c.max - 1, m # -1
       PROVE  /\ g.mode \in 0 .. g.max - 1
              /\ Text!QueryMode(g, g.mode) = Text!QueryMode(c, c.mode)
  <2>1. m \in 0 .. Len(rows) - 1 /\ rows[m + 1] = c.mode + 1
    BY <1>4, <1>15
  <2>2. PICK r : r = m + 1
    OBVIOUS
  <2>3. r \in 1 .. Len(rows) /\ r - 1 = m /\ rows[r] - 1 = c.mode
    BY <1>1, <1>4, <2>1, <2>2
  <2>4. Text!QueryMode(g, m) = Text!QueryMode(c, c.mode)
    BY <1>13, <2>3
  <2> QED BY <1>8, <2>1, <2>4
<1> QED BY <1>8, <1>9, <1>12, <1>14, <1>15

\* ConSplitterGrowMapTable keeps the columns there are.
LEMMA GrowKeeps ==
    ASSUME NEW c \in Text!Privates, Numbers(c), NEW k \in Nat, k = Len(c.list),
           Told(c, c.list, k, 1 .. c.max),
           NEW g, g = Text!GrowMapTable([c EXCEPT !.cap = @ + AllocUnit])
    PROVE  /\ g \in Text!Privates /\ Numbers(g) /\ Told(g, c.list, k, 1 .. g.max)
           /\ g.list = c.list /\ g.cap = c.cap + AllocUnit /\ g.mode = c.mode
           /\ g.cursor = c.cursor /\ g.colour = c.colour
<1>1. /\ c.max \in Nat /\ c.mode \in Int /\ c.cap \in Nat /\ Len(c.query) \in Nat
      /\ c.list \in Seq(TextDevices) /\ Len(c.list) \in Nat /\ c.query \in Seq(TextSize)
      /\ c.cursor \in TextSize /\ c.colour \in TextColours
      /\ Len(c.map) \in Nat
      /\ \A r \in 1 .. Len(c.map) : \A i \in 1 .. Len(c.map[r]) : c.map[r][i] \in Int
      /\ (c.map = <<>> <=> Len(c.map) = 0)
  BY PrivateIs
<1>2. /\ Len(c.query) >= 2 /\ c.query[1] = Size25 /\ c.query[2] \in {Size50, Text!NoSize}
      /\ c.max \in 2 .. Len(c.query) /\ Len(c.map) = Len(c.query)
      /\ \A r \in 1 .. Len(c.map) : Len(c.map[r]) = c.cap
      /\ c.map[1][1] = 0 /\ c.map[2][1] = 1
      /\ \A r \in 3 .. c.max : c.map[r][1] \in 2 .. Len(c.query) - 1
  BY DEF Numbers
<1>3. /\ k <= Len(c.list) /\ k \in 1 .. c.cap
      /\ \A r \in 1 .. c.max, i \in 1 .. k : Tells(c, r, c.list[i], i)
      /\ \A r \in 1 .. c.max, i \in k + 1 .. c.cap : c.map[r][i] = -1
  BY DEF Told
<1>4. AllocUnit \in Nat /\ AllocUnit > 1
  BY OutputAssumption DEF Text!OutAssumption
<1> DEFINE n == c.cap + AllocUnit
           E(r, i) == IF c.map # <<>> /\ r <= c.max /\ i <= Len(c.list) THEN c.map[r][i] ELSE -1
           Row(r) == [i \in 1 .. n |-> E(r, i)]
           M == [r \in 1 .. Len(c.query) |-> Row(r)]
<1>5. g = [c EXCEPT !.cap = n, !.map = M]
  BY DEF Text!GrowMapTable, Text!Privates, Text!NoMode
<1>6. n \in Nat /\ n > c.cap
  BY <1>1, <1>4
<1>7. ASSUME NEW r \in 1 .. Len(c.query), NEW i \in 1 .. n
      PROVE  E(r, i) \in Int
  <2>1. r <= c.max /\ i <= Len(c.list) => r \in 1 .. Len(c.map) /\ i \in 1 .. Len(c.map[r])
    BY SMTT(40), <1>1, <1>2, <1>3, <1>6
  <2> QED BY <1>1, <2>1
<1>8. \A r \in 1 .. Len(c.query) : Row(r) \in Seq(Int) /\ Len(Row(r)) = n
  <2> SUFFICES ASSUME NEW r \in 1 .. Len(c.query)
               PROVE  Row(r) \in Seq(Int) /\ Len(Row(r)) = n
    OBVIOUS
  <2> HIDE DEF n, E
  <2>1. Row(r) \in [1 .. n -> Int]
    BY <1>7
  <2> QED BY <1>6, <2>1, SequenceOf
<1>9. M \in Seq(Seq(Int)) /\ Len(M) = Len(c.query)
  <2> DEFINE T == Seq(Int)
  <2>1. \A r \in 1 .. Len(c.query) : Row(r) \in T
    BY <1>8
  <2> HIDE DEF T, Row
  <2>2. M \in [1 .. Len(c.query) -> T]
    BY <2>1
  <2> QED BY <1>1, <2>2, SequenceOf DEF T
<1> HIDE DEF n
<1>10. /\ g.max = c.max /\ g.map = M /\ g.mode = c.mode
       /\ g.list = c.list /\ g.cap = n /\ g.query = c.query
       /\ g.cursor = c.cursor /\ g.colour = c.colour
  <2> HIDE DEF M
  <2> QED BY <1>5 DEF Text!Privates
<1>11. g \in Text!Privates
  <2> DEFINE T == Seq(Seq(Int))
  <2>1. M \in T
    BY <1>9
  <2> HIDE DEF M, T
  <2> QED BY <1>5, <1>6, <2>1 DEF Text!Privates, T
<1>12. \A r \in 1 .. Len(c.query) : g.map[r] = Row(r)
  <2> HIDE DEF Row
  <2> QED BY <1>10
<1>13. \A r \in 1 .. Len(c.query) : \A i \in 1 .. n : g.map[r][i] = E(r, i)
  <2> HIDE DEF E
  <2> QED BY ZenonT(60), <1>12
<1>14. \A r \in 1 .. Len(c.query) : Len(g.map[r]) = n
  <2> HIDE DEF Row
  <2> QED BY <1>8, <1>12
<1>15. Len(g.map) = Len(c.query)
  BY <1>9, <1>10
<1> HIDE DEF M, Row
<1>16. \A r \in 1 .. c.max : \A i \in 1 .. k : g.map[r][i] = c.map[r][i]
  <2> SUFFICES ASSUME NEW r \in 1 .. c.max, NEW i \in 1 .. k
               PROVE  g.map[r][i] = c.map[r][i]
    OBVIOUS
  <2>1. r \in 1 .. Len(c.query) /\ i \in 1 .. n /\ r <= c.max /\ i <= Len(c.list)
    BY SMTT(40), <1>1, <1>2, <1>3, <1>6
  <2>2. c.map # <<>>
    BY <1>1, <1>2
  <2> QED BY <1>13, <2>1, <2>2
<1>17. Numbers(g)
  <2>1. 1 \in 1 .. k /\ 1 \in 1 .. c.max /\ 2 \in 1 .. c.max
    BY <1>1, <1>2, <1>3
  <2>2. \A r \in 1 .. c.max : g.map[r][1] = c.map[r][1]
    BY <1>16, <2>1
  <2>3. \A r \in 3 .. c.max : r \in 1 .. c.max
    BY <1>1
  <2>4. \A r \in 3 .. g.max : g.map[r][1] \in 2 .. Len(g.query) - 1
    BY <1>2, <1>10, <2>2, <2>3
  <2> QED BY <1>2, <1>10, <1>14, <1>15, <2>1, <2>2, <2>4 DEF Numbers
<1>18. \A r \in 1 .. c.max : Text!QueryMode(g, r - 1) = Text!QueryMode(c, r - 1)
  <2> SUFFICES ASSUME NEW r \in 1 .. c.max
               PROVE  Text!QueryMode(g, r - 1) = Text!QueryMode(c, r - 1)
    OBVIOUS
  <2>1. /\ Text!QueryMode(g, r - 1) = g.query[g.map[r][1] + 1]
        /\ Text!QueryMode(c, r - 1) = c.query[c.map[r][1] + 1]
    BY <1>10, <1>11, <1>17, QueryIs
  <2>2. g.map[r][1] = c.map[r][1]
    BY <1>3, <1>16
  <2> QED BY <1>10, <2>1, <2>2
<1>19. Told(g, c.list, k, 1 .. g.max)
  <2>1. ASSUME NEW r \in 1 .. g.max, NEW i \in 1 .. k
        PROVE  Tells(g, r, c.list[i], i)
    <3>1. Tells(c, r, c.list[i], i) /\ g.map[r][i] = c.map[r][i]
      BY <1>3, <1>10, <1>16
    <3> QED BY <1>10, <1>18, <3>1 DEF Tells
  <2>2. ASSUME NEW r \in 1 .. g.max, NEW i \in k + 1 .. g.cap
        PROVE  g.map[r][i] = -1
    <3>1. r \in 1 .. Len(c.query) /\ i \in 1 .. n /\ ~(i <= Len(c.list))
      BY SMTT(40), <1>1, <1>2, <1>3, <1>6, <1>10
    <3> QED BY <1>13, <3>1
  <2>3. k \in 1 .. g.cap
    BY <1>1, <1>3, <1>6, <1>10
  <2> QED BY <1>3, <2>1, <2>2, <2>3 DEF Told
<1> QED BY <1>10, <1>11, <1>17, <1>19 DEF n

\* Units enough.
LEMMA UnitsEnough ==
    ASSUME NEW a \in Nat, NEW u \in Nat \ {0}
    PROVE  ((a + u - 1) \div u) * u \in Nat /\ ((a + u - 1) \div u) * u >= a
  BY Z3

\* TextOutQueryData grows as far as it must.
LEMMA SpareIs ==
    ASSUME NEW c \in Text!Privates, NEW n \in Nat
    PROVE  Text!Spare(c, n) \in Nat /\ Len(c.query) + Text!Spare(c, n) >= n
<1>1. AllocUnit \in Nat \ {0} /\ Len(c.query) \in Nat
  BY PrivateIs, OutputAssumption DEF Text!OutAssumption
<1>2. CASE n > Len(c.query)
  <2> DEFINE a == n - Len(c.query)
             s == ((a + AllocUnit - 1) \div AllocUnit) * AllocUnit
  <2>1. a \in Nat /\ Len(c.query) + a = n
    BY <1>1, <1>2
  <2>2. Text!Spare(c, n) = s
    BY <1>2 DEF Text!Spare
  <2> HIDE DEF a
  <2>3. s \in Nat /\ s >= a
    BY <1>1, <2>1, UnitsEnough
  <2> HIDE DEF s
  <2> QED BY <1>1, <2>1, <2>2, <2>3
<1>3. CASE ~(n > Len(c.query))
  <2>1. Text!Spare(c, n) = 0
    BY <1>3 DEF Text!Spare
  <2> QED BY <1>1, <1>3, <2>1
<1> QED BY <1>2, <1>3

\* What ConSplitterAddOutputMode reads and grows the tables with.
Data(c, d) == c.query \o Text!Fill(Text!Spare(c, Len(TextModes[d])), Text!NoSize)

\* TextOutQueryData has a place for every mode of a device.
LEMMA DataIs ==
    ASSUME NEW c \in Text!Privates, NEW d \in TextDevices
    PROVE  /\ Data(c, d) \in Seq(TextSize) /\ Len(Data(c, d)) \in Nat
           /\ Len(Data(c, d)) >= Len(TextModes[d])
           /\ \A i \in 1 .. Len(Data(c, d)) : Data(c, d)[i] \in TextSize
<1> DEFINE n == Text!Spare(c, Len(TextModes[d]))
           f == Text!Fill(n, Text!NoSize)
<1>1. Len(TextModes[d]) \in Nat
  BY TextModesAre
<1>2. n \in Nat /\ Len(c.query) + n >= Len(TextModes[d])
  BY <1>1, SpareIs
<1>3. c.query \in Seq(TextSize) /\ Len(c.query) \in Nat
  BY PrivateIs
<1>4. Data(c, d) = c.query \o f
  BY DEF Data
<1> HIDE DEF n
<1>5. f \in Seq(TextSize) /\ Len(f) = n
  <2>1. f \in [1 .. n -> TextSize]
    BY <1>2, TextSizes DEF Text!Fill
  <2> HIDE DEF f
  <2> QED BY <1>2, <2>1, SequenceOf
<1> HIDE DEF f
<1>6. c.query \o f \in Seq(TextSize) /\ Len(c.query \o f) = Len(c.query) + n
  BY <1>3, <1>5, ConcatProperties
<1> DEFINE s == Data(c, d)
<1>7. s \in Seq(TextSize) /\ Len(s) = Len(c.query) + n
  BY <1>4, <1>6
<1> HIDE DEF s
<1>8. \A i \in 1 .. Len(s) : s[i] \in TextSize
  BY <1>7, LenProperties
<1> QED BY <1>2, <1>3, <1>7, <1>8 DEF s

\* ConSplitterAddOutputMode makes the modes of the first device the modes.
LEMMA AddOutputKeeps ==
    ASSUME NEW c \in Text!Privates, c.map = <<>> \/ c.list = <<>>, c.cap >= 2,
           NEW d \in TextDevices, NEW list, Len(list) >= 1, list[1] = d,
           NEW g, g = Text!AddOutputMode(c, d)
    PROVE  /\ g \in Text!Privates /\ Numbers(g) /\ Told(g, list, 1, 1 .. g.max)
           /\ g.list = c.list /\ g.cap = c.cap /\ g.cursor = c.cursor /\ g.colour = c.colour
<1> DEFINE s == TextModes[d]
           n == Len(s)
           data == Data(c, d)
           L == Len(data)
           grown == Text!GrowMapTable([c EXCEPT !.max = n, !.query = data])
           Q(i) == IF i <= n THEN s[i] ELSE data[i]
           E(r, i) == IF r <= n /\ i = 1 THEN r - 1 ELSE grown.map[r][i]
           Row(r) == [i \in 1 .. c.cap |-> E(r, i)]
           query == [i \in 1 .. L |-> Q(i)]
           map == [r \in 1 .. L |-> Row(r)]
<1>1. g = [grown EXCEPT !.query = query, !.map = map]
  BY DEF Text!AddOutputMode, Data
<1>2. /\ n \in Nat /\ n >= 2 /\ s[1] = Size25 /\ s[2] \in {Size50, Text!NoSize}
      /\ \A i \in 1 .. n : s[i] \in TextSize
  BY TextModesAre
<1>3. /\ data \in Seq(TextSize) /\ L \in Nat /\ L >= n
      /\ \A i \in 1 .. L : data[i] \in TextSize
  BY DataIs
<1>4. /\ c.cap \in Nat /\ c.list \in Seq(TextDevices) /\ Len(c.list) \in Nat
      /\ c.mode \in Int /\ c.cursor \in TextSize /\ c.colour \in TextColours
  BY PrivateIs
<1> HIDE DEF data, s, Q, E
<1>5. c.list = <<>> => Len(c.list) = 0
  BY EmptySeq
<1>6. /\ grown = [[c EXCEPT !.max = n, !.query = data] EXCEPT !.map = grown.map]
      /\ \A r \in 1 .. L : \A i \in 1 .. c.cap : grown.map[r][i] = -1
  <2> DEFINE b == [c EXCEPT !.max = n, !.query = data]
             F(r, i) == IF b.map # <<>> /\ r <= b.max /\ i <= Len(b.list) THEN b.map[r][i] ELSE -1
             m == [r \in 1 .. Len(b.query) |-> [i \in 1 .. b.cap |-> F(r, i)]]
  <2>1. b.map = c.map /\ b.list = c.list /\ b.cap = c.cap /\ b.query = data
    BY DEF Text!Privates
  <2>2. grown = [b EXCEPT !.map = m]
    BY DEF Text!GrowMapTable, Text!NoMode
  <2>3. b \in [list : {c.list}, cap : {c.cap}, query : {data}, map : {c.map}, max : {n},
               mode : {c.mode}, cursor : {c.cursor}, colour : {c.colour}]
    BY DEF Text!Privates
  <2>4. \A r \in 1 .. L : \A i \in 1 .. c.cap : F(r, i) = -1
    BY <1>3, <1>4, <1>5, <2>1
  <2> HIDE DEF b, F
  <2>5. \A r \in 1 .. L : \A i \in 1 .. c.cap : m[r][i] = -1
    BY <2>1, <2>4
  <2> HIDE DEF m
  <2>6. grown.map = m
    BY <2>2, <2>3
  <2> HIDE DEF grown
  <2> QED BY <2>2, <2>5, <2>6 DEF b
<1> HIDE DEF grown
<1>7. g = [c EXCEPT !.max = n, !.query = query, !.map = map]
  <2> HIDE DEF query, map, n
  <2> QED BY <1>1, <1>6 DEF Text!Privates
<1>8. \A i \in 1 .. L : Q(i) \in TextSize
  BY <1>2, <1>3 DEF Q
<1>9. query \in Seq(TextSize) /\ Len(query) = L
  <2>1. query \in [1 .. L -> TextSize]
    BY <1>8
  <2> HIDE DEF query, L
  <2> QED BY <1>3, <2>1, SequenceOf
<1>10. \A r \in 1 .. L : \A i \in 1 .. c.cap :
          E(r, i) \in Int /\ E(r, i) = IF r <= n /\ i = 1 THEN r - 1 ELSE -1
  BY <1>6 DEF E
<1>11. ASSUME NEW r \in 1 .. L
       PROVE  Row(r) \in Seq(Int) /\ Len(Row(r)) = c.cap
  <2> DEFINE f == Row(r)
  <2>1. f \in [1 .. c.cap -> Int]
    BY <1>10
  <2> HIDE DEF f
  <2>2. f \in Seq(Int) /\ Len(f) = c.cap
    BY <1>4, <2>1, SequenceOf
  <2> QED BY <2>2 DEF f
<1>12. map \in Seq(Seq(Int)) /\ Len(map) = L
  <2> DEFINE T == Seq(Int)
  <2>1. \A r \in 1 .. L : Row(r) \in T
    BY <1>11
  <2> HIDE DEF T, Row
  <2>2. map \in [1 .. L -> T]
    BY <2>1
  <2> HIDE DEF map, L
  <2>3. map \in Seq(T) /\ Len(map) = L
    BY <1>3, <2>2, SequenceOf
  <2> QED BY <2>3 DEF T
<1>13. \A i \in 1 .. L : query[i] = Q(i)
  OBVIOUS
<1>14. \A r \in 1 .. L : map[r] = Row(r)
  <2> HIDE DEF Row
  <2> QED OBVIOUS
<1>15. \A r \in 1 .. L : \A i \in 1 .. c.cap :
          map[r][i] = IF r <= n /\ i = 1 THEN r - 1 ELSE -1
  <2> SUFFICES ASSUME NEW r \in 1 .. L, NEW i \in 1 .. c.cap
               PROVE  map[r][i] = IF r <= n /\ i = 1 THEN r - 1 ELSE -1
    OBVIOUS
  <2>1. map[r][i] = E(r, i)
    <3> HIDE DEF map
    <3> QED BY <1>14
  <2> HIDE DEF map
  <2> QED BY <1>10, <2>1
<1>16. \A r \in 1 .. L : Len(map[r]) = c.cap
  <2> HIDE DEF map, Row
  <2> QED BY <1>11, <1>14
<1> HIDE DEF map, query, Row
<1>17. /\ g.max = n /\ g.query = query /\ g.map = map
       /\ g.list = c.list /\ g.cap = c.cap /\ g.mode = c.mode
       /\ g.cursor = c.cursor /\ g.colour = c.colour
  BY <1>7 DEF Text!Privates
<1>18. g \in Text!Privates
  <2> DEFINE T == Seq(Seq(Int))
             k == n
             q == query
  <2>1. map \in T /\ k \in Nat /\ q \in Seq(TextSize)
    BY <1>2, <1>9, <1>12
  <2>2. g = [c EXCEPT !.max = k, !.query = q, !.map = map]
    BY <1>7
  <2> HIDE DEF T, k, q
  <2> QED BY <2>1, <2>2 DEF Text!Privates, T, TextSize
<1> HIDE DEF L, n
<1>19. Numbers(g)
  <2>1. 1 \in 1 .. L /\ 2 \in 1 .. L /\ 1 \in 1 .. c.cap /\ 1 <= n /\ 2 <= n
    BY <1>2, <1>3, <1>4
  <2>2. g.query[1] = Size25 /\ g.query[2] \in {Size50, Text!NoSize}
    BY <1>2, <1>13, <1>17, <2>1 DEF Q
  <2>3. g.map[1][1] = 0 /\ g.map[2][1] = 1
    BY <1>15, <1>17, <2>1
  <2>4. ASSUME NEW r \in 3 .. n
        PROVE  map[r][1] \in 2 .. L - 1
    <3>1. r \in 1 .. L /\ r <= n
      BY <1>2, <1>3
    <3>2. map[r][1] = r - 1
      BY <1>15, <2>1, <3>1
    <3> QED BY <1>3, <3>1, <3>2
  <2>5. n \in 2 .. L
    BY <1>2, <1>3
  <2>6. \A r \in 3 .. g.max : g.map[r][1] \in 2 .. Len(g.query) - 1
    BY <1>9, <1>17, <2>4
  <2>7. \A r \in 1 .. Len(g.map) : Len(g.map[r]) = g.cap
    BY <1>12, <1>16, <1>17
  <2> QED BY SMTT(40), <1>3, <1>9, <1>12, <1>17, <2>1, <2>2, <2>3, <2>5, <2>6, <2>7 DEF Numbers
<1>20. Told(g, list, 1, 1 .. g.max)
  <2>1. ASSUME NEW r \in 1 .. g.max, NEW i \in 1 .. 1
        PROVE  Tells(g, r, list[i], i)
    <3>1. i = 1 /\ r \in 1 .. n /\ r \in 1 .. L /\ 1 \in 1 .. c.cap /\ r - 1 + 1 = r
      BY <1>2, <1>3, <1>4, <1>17
    <3>2. g.map[r][1] = r - 1
      BY <1>15, <1>17, <3>1
    <3>3. Text!QueryMode(g, r - 1) = g.query[g.map[r][1] + 1]
      BY <1>18, <1>19, QueryIs
    <3>4. g.map[r][1] + 1 = r
      BY <3>1, <3>2
    <3>5. Text!QueryMode(g, r - 1) = s[r]
      BY <1>13, <1>17, <3>1, <3>3, <3>4 DEF Q
    <3>6. r - 1 \in -1 .. n - 1 /\ r - 1 # -1
      BY <1>2, <3>1
    <3> QED BY <3>1, <3>2, <3>4, <3>5, <3>6 DEF Tells, s, n
  <2>2. ASSUME NEW r \in 1 .. g.max, NEW i \in 2 .. g.cap
        PROVE  g.map[r][i] = -1
    <3>1. r \in 1 .. L /\ i \in 1 .. c.cap /\ i # 1
      BY <1>2, <1>3, <1>4, <1>17
    <3> QED BY <1>15, <1>17, <3>1
  <2>3. 1 \in 1 .. g.cap /\ 1 + 1 = 2
    BY <1>4, <1>17
  <2> QED BY <2>1, <2>2, <2>3 DEF Told
<1> QED BY <1>17, <1>18, <1>19, <1>20

\* The greatest of a set of numbers up to n,
LEMMA TextMax ==
    ASSUME NEW n \in Nat, NEW S, S \subseteq 1 .. n, S # {}
    PROVE  Text!Max(S) \in S
<1> DEFINE Z == {n - x : x \in S}
<1>1. Z \subseteq Nat
  OBVIOUS
<1>2. Z # {}
  <2>1. PICK x \in S : TRUE
    OBVIOUS
  <2>2. n - x \in Z
    OBVIOUS
  <2> QED BY <2>2
<1>3. PICK z \in Z : \A y \in Z : z <= y
  BY <1>1, <1>2, LeastNat
<1>4. PICK x \in S : z = n - x
  OBVIOUS
<1>5. ASSUME NEW y \in S
      PROVE  x >= y
  <2>1. n - y \in Z
    OBVIOUS
  <2>2. n - x <= n - y
    BY <1>3, <1>4, <2>1
  <2> QED BY <2>2
<1> QED BY <1>5 DEF Text!Max

\* and the least.
LEMMA TextMin ==
    ASSUME NEW S, S \subseteq Nat, S # {}
    PROVE  Text!Min(S) \in S /\ \A y \in S : Text!Min(S) <= y
  BY LeastNat DEF Text!Min

\* A mode 1 that a device has not got is a mode of none.
LEMMA LackKeeps ==
    ASSUME NEW c \in Text!Privates, Numbers(c),
           NEW g, g = [c EXCEPT !.query[2] = Text!NoSize]
    PROVE  /\ g \in Text!Privates /\ Numbers(g)
           /\ g.list = c.list /\ g.cap = c.cap /\ g.max = c.max /\ g.map = c.map
           /\ g.mode = c.mode /\ g.cursor = c.cursor /\ g.colour = c.colour
           /\ \A r \in 1 .. c.max :
                \/ Text!QueryMode(g, r - 1) = Text!NoSize
                \/ Text!QueryMode(g, r - 1) = Text!QueryMode(c, r - 1)
           /\ \A r \in 1 .. c.max : r = 2 => Text!QueryMode(g, r - 1) = Text!NoSize
<1> DEFINE q == [c.query EXCEPT ![2] = Text!NoSize]
<1>1. c.query \in Seq(TextSize) /\ Len(c.query) \in Nat /\ c.max \in Nat
  BY PrivateIs
<1>2. g = [c EXCEPT !.query = q]
  BY DEF Text!Privates
<1>3. Len(c.query) >= 2 /\ c.max \in 2 .. Len(c.query)
  BY DEF Numbers
<1>4. q \in Seq(TextSize) /\ Len(q) = Len(c.query)
  <2> DEFINE s == c.query
             n == Text!NoSize
  <2>1. s \in Seq(TextSize) /\ 2 \in 1 .. Len(s) /\ n \in TextSize
    BY <1>1, <1>3, TextSizes
  <2> HIDE DEF s, n
  <2>2. [s EXCEPT ![2] = n] \in Seq(TextSize) /\ Len([s EXCEPT ![2] = n]) = Len(s)
    BY <2>1, ExceptSeq
  <2> QED BY <2>2 DEF s, n
<1>5. q[2] = Text!NoSize /\ \A i \in 1 .. Len(c.query) : i # 2 => q[i] = c.query[i]
  <2>1. DOMAIN c.query = 1 .. Len(c.query) /\ 2 \in 1 .. Len(c.query)
    BY <1>1, <1>3, LenProperties
  <2> QED BY <2>1
<1> HIDE DEF q
<1>6. /\ g.query = q /\ g.list = c.list /\ g.cap = c.cap /\ g.max = c.max /\ g.map = c.map
      /\ g.mode = c.mode /\ g.cursor = c.cursor /\ g.colour = c.colour
  BY <1>2 DEF Text!Privates
<1>7. g \in Text!Privates
  <2> DEFINE T == Seq(Seq(Int))
  <2>1. c \in [list : Seq(TextDevices), cap : Nat, query : Seq(TextSize), map : T,
               max : Nat, mode : Int, cursor : TextSize, colour : TextColours]
    BY DEF Text!Privates, TextSize
  <2> HIDE DEF T
  <2>2. g \in [list : Seq(TextDevices), cap : Nat, query : Seq(TextSize), map : T,
               max : Nat, mode : Int, cursor : TextSize, colour : TextColours]
    BY <1>2, <1>4, <2>1
  <2> QED BY <2>2 DEF Text!Privates, TextSize, T
<1>8. Numbers(g)
  <2>1. 1 \in 1 .. Len(c.query)
    BY <1>3, <1>1
  <2> QED BY <1>4, <1>5, <1>6, <2>1 DEF Numbers
<1>9. ASSUME NEW r \in 1 .. c.max
      PROVE  \/ Text!QueryMode(g, r - 1) = Text!NoSize
             \/ Text!QueryMode(g, r - 1) = Text!QueryMode(c, r - 1)
  <2>1. Text!QueryMode(c, r - 1) = c.query[c.map[r][1] + 1] /\ c.map[r][1] + 1 \in 1 .. Len(c.query)
    BY QueryIs
  <2>2. Text!QueryMode(g, r - 1) = g.query[g.map[r][1] + 1]
    BY <1>6, <1>7, <1>8, QueryIs
  <2> QED BY <1>5, <1>6, <2>1, <2>2
<1>10. ASSUME NEW r \in 1 .. c.max, r = 2
       PROVE  Text!QueryMode(g, r - 1) = Text!NoSize
  <2>1. Text!QueryMode(g, r - 1) = g.query[g.map[r][1] + 1]
    BY <1>6, <1>7, <1>8, QueryIs
  <2>2. g.map[2][1] = 1
    BY <1>8 DEF Numbers
  <2>3. g.map[r][1] + 1 = 2
    BY <1>10, <2>2
  <2> QED BY <1>5, <1>6, <2>1, <2>3
<1> QED BY <1>6, <1>7, <1>8, <1>9, <1>10

\* Column i of the map is filled in, and what i tells is what E says.
LEMMA FilledIn ==
    ASSUME NEW c \in Text!Privates, Numbers(c), NEW i \in 2 .. c.cap, NEW E,
           \A r \in 1 .. c.max : E[r] \in Int,
           NEW g,
           g = [c EXCEPT !.map = [r \in 1 .. Len(c.map) |->
                   IF r <= c.max THEN [c.map[r] EXCEPT ![i] = E[r]] ELSE c.map[r]]]
    PROVE  /\ g \in Text!Privates /\ Numbers(g)
           /\ g.list = c.list /\ g.cap = c.cap /\ g.max = c.max
           /\ g.mode = c.mode /\ g.cursor = c.cursor /\ g.colour = c.colour
           /\ \A r \in 1 .. c.max :
                /\ g.map[r][i] = E[r]
                /\ \A j \in 1 .. c.cap : j # i => g.map[r][j] = c.map[r][j]
                /\ Text!QueryMode(g, r - 1) = Text!QueryMode(c, r - 1)
<1> DEFINE N == Len(c.map)
           Row(r) == IF r <= c.max THEN [c.map[r] EXCEPT ![i] = E[r]] ELSE c.map[r]
           map == [r \in 1 .. N |-> Row(r)]
<1>1. /\ N \in Nat /\ c.max \in Nat /\ c.cap \in Nat /\ Len(c.query) \in Nat
      /\ \A r \in 1 .. N : c.map[r] \in Seq(Int)
      /\ \A r \in 1 .. N : DOMAIN c.map[r] = 1 .. Len(c.map[r])
  BY PrivateIs
<1>2. /\ c.max \in 2 .. Len(c.query) /\ N = Len(c.query)
      /\ \A r \in 1 .. N : Len(c.map[r]) = c.cap
  BY DEF Numbers
<1>3. i \in 1 .. c.cap
  BY <1>1
<1>4. g = [c EXCEPT !.map = map]
  OBVIOUS
<1>5. ASSUME NEW r \in 1 .. N
      PROVE  /\ Row(r) \in Seq(Int) /\ Len(Row(r)) = c.cap
             /\ r <= c.max => Row(r)[i] = E[r]
             /\ \A j \in 1 .. c.cap : j # i => Row(r)[j] = c.map[r][j]
  <2>1. CASE r <= c.max
    <3> DEFINE s == c.map[r]
               t == [s EXCEPT ![i] = E[r]]
    <3>1. s \in Seq(Int) /\ Len(s) = c.cap /\ DOMAIN s = 1 .. c.cap
      BY <1>1, <1>2
    <3>2. E[r] \in Int /\ i \in 1 .. Len(s)
      BY <1>1, <1>3, <2>1, <3>1
    <3> HIDE DEF s
    <3>3. t \in Seq(Int) /\ Len(t) = Len(s)
      BY <3>1, <3>2, ExceptSeq
    <3>4. t[i] = E[r] /\ \A j \in 1 .. c.cap : j # i => t[j] = s[j]
      BY <1>3, <3>1
    <3>5. Row(r) = t
      BY <2>1 DEF s
    <3> HIDE DEF t, Row
    <3> QED BY <3>1, <3>3, <3>4, <3>5 DEF s
  <2>2. CASE ~(r <= c.max)
    BY <1>1, <1>2, <2>2
  <2> QED BY <2>1, <2>2
<1> HIDE DEF Row
<1>6. map \in Seq(Seq(Int)) /\ Len(map) = N
  <2> DEFINE T == Seq(Int)
  <2>1. \A r \in 1 .. N : Row(r) \in T
    BY <1>5
  <2> HIDE DEF T
  <2>2. map \in [1 .. N -> T]
    BY <2>1
  <2> HIDE DEF map, N
  <2>3. map \in Seq(T) /\ Len(map) = N
    BY <1>1, <2>2, SequenceOf
  <2> QED BY <2>3 DEF T
<1>7. \A r \in 1 .. N : map[r] = Row(r)
  OBVIOUS
<1> HIDE DEF map
<1>8. /\ g.map = map /\ g.query = c.query /\ g.list = c.list /\ g.cap = c.cap /\ g.max = c.max
      /\ g.mode = c.mode /\ g.cursor = c.cursor /\ g.colour = c.colour
  BY <1>4 DEF Text!Privates
<1>9. g \in Text!Privates
  <2> DEFINE T == Seq(Seq(Int))
  <2>1. map \in T
    BY <1>6
  <2> HIDE DEF T
  <2> QED BY <1>4, <2>1 DEF Text!Privates, T
<1>10. \A r \in 1 .. N : \A j \in 1 .. c.cap : j # i => g.map[r][j] = c.map[r][j]
  BY <1>5, <1>7, <1>8
<1>11. \A r \in 1 .. c.max : r \in 1 .. N /\ r <= c.max
  BY <1>1, <1>2
<1>12. \A r \in 1 .. c.max : g.map[r][i] = E[r]
  BY <1>5, <1>7, <1>8, <1>11
<1>13. \A r \in 1 .. N : g.map[r][1] = c.map[r][1]
  <2>1. 1 \in 1 .. c.cap /\ 1 # i
    BY SMTT(40), <1>1
  <2> QED BY <1>10, <2>1
<1>14. Numbers(g)
  <2>1. \A r \in 1 .. N : Len(g.map[r]) = c.cap
    BY <1>5, <1>7, <1>8
  <2>2. 1 \in 1 .. N /\ 2 \in 1 .. N
    BY <1>1, <1>2
  <2>3. \A r \in 3 .. c.max : r \in 1 .. N
    BY <1>1, <1>2
  <2>4. \A r \in 3 .. c.max : g.map[r][1] \in 2 .. Len(c.query) - 1
    BY <1>13, <2>3 DEF Numbers
  <2>5. Len(g.map) = N
    BY <1>6, <1>8
  <2>6. g.map[1][1] = 0 /\ g.map[2][1] = 1
    BY <1>13, <2>2 DEF Numbers
  <2>7. Len(g.query) >= 2 /\ g.query[1] = Size25 /\ g.query[2] \in {Size50, Text!NoSize}
    BY SMTT(40), <1>8 DEF Numbers
  <2> QED BY <1>2, <1>8, <2>1, <2>4, <2>5, <2>6, <2>7 DEF Numbers
<1>15. ASSUME NEW r \in 1 .. c.max
       PROVE  Text!QueryMode(g, r - 1) = Text!QueryMode(c, r - 1)
  <2>1. Text!QueryMode(c, r - 1) = c.query[c.map[r][1] + 1]
    BY QueryIs
  <2>2. Text!QueryMode(g, r - 1) = g.query[g.map[r][1] + 1]
    BY <1>8, <1>9, <1>14, QueryIs
  <2> QED BY <1>8, <1>11, <1>13, <2>1, <2>2
<1> QED BY <1>8, <1>9, <1>10, <1>11, <1>12, <1>14, <1>15

\* ConSplitterSyncOutputMode tells the modes of one device more.
LEMMA SyncKeeps ==
    ASSUME NEW c \in Text!Privates, Numbers(c), NEW list, NEW k \in Nat,
           Told(c, list, k, 1 .. c.max), NEW i, i = k + 1, i <= c.cap, i <= Len(list),
           Len(list) \in Nat, NEW d \in TextDevices, list[i] = d,
           NEW g, g = Text!SyncOutputMode(c, d, i)
    PROVE  /\ g \in Text!Privates /\ Numbers(g) /\ Told(g, list, i, 1 .. g.max)
           /\ g.list = c.list /\ g.cap = c.cap /\ g.cursor = c.cursor /\ g.colour = c.colour
<1> DEFINE s == TextModes[d]
           lacks == s[2] = Text!NoSize
           data == IF lacks THEN [c EXCEPT !.query[2] = Text!NoSize] ELSE c
           Size(r) == Text!QueryMode(data, r - 1)
           At(r) == {m \in DOMAIN s : /\ s[m] # Text!NoSize /\ Size(r) = s[m]
                                      /\ r = Text!Min(Text!RowsOf(data, s[m]))}
           Entry(r) == IF At(r) # {} THEN Text!Max(At(r)) - 1
                       ELSE IF r = 2 /\ lacks THEN 1 ELSE c.map[r][i]
           E == [r \in 1 .. c.max |-> Entry(r)]
           Told0(r) == IF r <= c.max THEN [c.map[r] EXCEPT ![i] = Entry(r)] ELSE c.map[r]
           Told1(r) == IF r <= c.max THEN [c.map[r] EXCEPT ![i] = E[r]] ELSE c.map[r]
           filled == [data EXCEPT !.map = [r \in 1 .. Len(c.map) |-> Told0(r)]]
           keep == {r \in 1 .. c.max : filled.map[r][i] # Text!NoMode}
<1>1. /\ c.max \in Nat /\ c.cap \in Nat /\ Len(c.query) \in Nat /\ Len(c.map) \in Nat
      /\ \A r \in 1 .. Len(c.map) : \A j \in 1 .. Len(c.map[r]) : c.map[r][j] \in Int
  BY PrivateIs
<1>2. /\ c.max \in 2 .. Len(c.query) /\ Len(c.map) = Len(c.query)
      /\ \A r \in 1 .. Len(c.map) : Len(c.map[r]) = c.cap
      /\ c.map[1][1] = 0 /\ c.map[2][1] = 1 /\ c.query[1] = Size25
      /\ c.query[2] \in {Size50, Text!NoSize}
  BY DEF Numbers
<1>3. /\ k <= Len(list) /\ k \in 1 .. c.cap
      /\ \A r \in 1 .. c.max, j \in 1 .. k : Tells(c, r, list[j], j)
      /\ \A r \in 1 .. c.max, j \in k + 1 .. c.cap : c.map[r][j] = -1
  BY SMTT(40) DEF Told
<1>4. i \in 2 .. c.cap /\ i \in k + 1 .. c.cap
  BY <1>1, <1>3
<1>5. /\ Len(s) \in Nat /\ Len(s) >= 2 /\ DOMAIN s = 1 .. Len(s)
      /\ s[1] = Size25 /\ s[2] \in {Size50, Text!NoSize}
  BY SMTT(40), TextModesAre
<1>6. g = Text!GetIntersection(filled, keep)
  BY DEF Text!SyncOutputMode
<1>7. /\ data \in Text!Privates /\ Numbers(data)
      /\ data.list = c.list /\ data.cap = c.cap /\ data.max = c.max /\ data.map = c.map
      /\ data.mode = c.mode /\ data.cursor = c.cursor /\ data.colour = c.colour
      /\ \A r \in 1 .. c.max : Size(r) = Text!NoSize \/ Size(r) = Text!QueryMode(c, r - 1)
      /\ lacks => \A r \in 1 .. c.max : r = 2 => Size(r) = Text!NoSize
  <2>1. CASE lacks
    <3>1. data = [c EXCEPT !.query[2] = Text!NoSize]
      BY <2>1
    <3> HIDE DEF data
    <3> QED BY <3>1, LackKeeps
  <2>2. CASE ~lacks
    BY <2>2
  <2> QED BY <2>1, <2>2
<1> HIDE DEF data
<1>8. /\ data.query[1] = Size25 /\ data.query[2] \in {Size50, Text!NoSize}
      /\ data.map[1][1] = 0 /\ data.map[2][1] = 1
  BY <1>7 DEF Numbers
<1>9. /\ \A r \in 1 .. c.max : r = 1 => Size(r) = Size25
      /\ \A r \in 1 .. c.max : r = 2 => Size(r) \in {Size50, Text!NoSize}
  <2>1. \A r \in 1 .. c.max : Size(r) = data.query[data.map[r][1] + 1]
    BY <1>7, QueryIs
  <2> QED BY <1>8, <2>1
<1>10. ASSUME NEW z
       PROVE  Text!RowsOf(data, z) = {r \in 1 .. c.max : Size(r) = z}
  BY <1>7 DEF Text!RowsOf
<1> HIDE DEF Size
<1>11. ASSUME NEW r \in 1 .. c.max, At(r) # {}
       PROVE  Entry(r) \in 0 .. Len(s) - 1 /\ s[Entry(r) + 1] = Size(r)
  <2>1. At(r) \subseteq 1 .. Len(s)
    BY <1>5
  <2>2. Text!Max(At(r)) \in At(r)
    <3> DEFINE a == At(r)
    <3>1. a \subseteq 1 .. Len(s) /\ a # {}
      BY <1>11, <2>1
    <3> HIDE DEF a
    <3>2. Text!Max(a) \in a
      BY SMTT(40), <1>5, <3>1, TextMax
    <3> QED BY <3>2 DEF a
  <2> DEFINE m == Text!Max(At(r))
  <2>3. m \in 1 .. Len(s) /\ s[m] = Size(r) /\ Entry(r) = m - 1
    BY <1>11, <2>1, <2>2
  <2> HIDE DEF m, Entry, s
  <2>4. m - 1 \in 0 .. Len(s) - 1 /\ m - 1 + 1 = m
    BY <1>5, <2>3
  <2> QED BY <2>3, <2>4
<1>12. ASSUME NEW r \in 1 .. c.max, r = 1
       PROVE  At(r) # {}
  <2>1. s[1] = Size(r) /\ 1 \in DOMAIN s /\ s[1] # Text!NoSize
    BY <1>5, <1>9, <1>12, TextSizes
  <2>2. Text!RowsOf(data, s[1]) \subseteq Nat /\ 1 \in Text!RowsOf(data, s[1])
    BY <1>1, <1>10, <1>12, <2>1
  <2>3. \A q \in Text!RowsOf(data, s[1]) : q >= 1
    BY <1>10
  <2>4. Text!Min(Text!RowsOf(data, s[1])) = 1
    <3> DEFINE a == Text!RowsOf(data, s[1])
    <3> HIDE DEF a
    <3>1. a \subseteq Nat /\ 1 \in a /\ \A q \in a : q >= 1
      BY <2>2, <2>3 DEF a
    <3>2. Text!Min(a) \in a /\ Text!Min(a) <= 1
      BY <3>1, TextMin
    <3>3. PICK x \in a : x = Text!Min(a)
      BY <3>2
    <3>4. Text!Min(a) = 1
      BY <3>1, <3>2, <3>3
    <3> QED BY <3>4 DEF a
  <2>5. 1 \in At(r)
    BY <1>12, <2>1, <2>4
  <2> QED BY <2>5
<1>13. ASSUME NEW r \in 1 .. c.max, r = 2, Size(r) # Text!NoSize
       PROVE  At(r) # {}
  <2>1. s[2] = Size50 /\ Size(r) = Size50
    BY <1>5, <1>7, <1>9, <1>13 DEF Size
  <2>2. 2 \in DOMAIN s /\ s[2] # Text!NoSize
    BY <1>5, <2>1, TextSizes
  <2>3. Text!RowsOf(data, s[2]) \subseteq Nat /\ 2 \in Text!RowsOf(data, s[2])
    BY <1>1, <1>10, <1>13, <2>1
  <2>4. \A q \in Text!RowsOf(data, s[2]) : q # 1 /\ q >= 1
    BY <1>9, <1>10, <2>1, TextSizes
  <2>5. Text!Min(Text!RowsOf(data, s[2])) = 2
    <3> DEFINE a == Text!RowsOf(data, s[2])
    <3> HIDE DEF a
    <3>1. a \subseteq Nat /\ 2 \in a /\ \A q \in a : q # 1 /\ q >= 1
      BY <2>3, <2>4 DEF a
    <3>2. Text!Min(a) \in a /\ Text!Min(a) <= 2
      BY <3>1, TextMin
    <3>3. PICK x \in a : x = Text!Min(a)
      BY <3>2
    <3>4. Text!Min(a) = 2
      BY <3>1, <3>2, <3>3
    <3> QED BY <3>4 DEF a
  <2>6. 2 \in At(r)
    BY <1>13, <2>1, <2>2, <2>5
  <2> QED BY <2>6
<1> HIDE DEF At
<1>14. ASSUME NEW r \in 1 .. c.max
       PROVE  /\ Entry(r) \in -1 .. Len(s) - 1 /\ Entry(r) \in Int
              /\ r <= 2 \/ Entry(r) # -1 =>
                   (Size(r) # Text!NoSize => Entry(r) # -1 /\ s[Entry(r) + 1] = Size(r))
  <2>1. CASE At(r) # {}
    <3>1. Entry(r) \in 0 .. Len(s) - 1 /\ s[Entry(r) + 1] = Size(r)
      BY <1>11, <2>1
    <3> HIDE DEF Entry, s
    <3> QED BY <1>5, <3>1
  <2>2. CASE At(r) = {} /\ r = 2 /\ lacks
    <3>1. Entry(r) = 1 /\ Size(r) = Text!NoSize
      BY <1>7, <2>2 DEF Size
    <3> HIDE DEF Entry, s
    <3> QED BY <1>5, <3>1
  <2>3. CASE At(r) = {} /\ ~(r = 2 /\ lacks)
    <3>1. Entry(r) = -1
      BY <1>3, <1>4, <2>3
    <3>2. r <= 2 => Size(r) = Text!NoSize
      BY <1>1, <1>12, <1>13, <2>3
    <3> HIDE DEF Entry, s
    <3> QED BY <1>5, <3>1, <3>2
  <2> QED BY <2>1, <2>2, <2>3
<1> HIDE DEF Entry
<1>15. \A r \in 1 .. c.max : E[r] = Entry(r) /\ E[r] \in Int
  BY <1>14
<1>16. filled = [data EXCEPT !.map = [r \in 1 .. Len(data.map) |->
                  IF r <= data.max THEN [data.map[r] EXCEPT ![i] = E[r]] ELSE data.map[r]]]
  <2>1. \A r \in 1 .. Len(c.map) : Told0(r) = Told1(r)
    <3> SUFFICES ASSUME NEW r \in 1 .. Len(c.map)
                 PROVE  Told0(r) = Told1(r)
      OBVIOUS
    <3>1. CASE r <= c.max
      <4>1. E[r] = Entry(r)
        BY <1>1, <1>15, <3>1
      <4> HIDE DEF E
      <4> QED BY <4>1
    <3>2. CASE ~(r <= c.max)
      BY <3>2
    <3> QED BY <3>1, <3>2
  <2>2. [r \in 1 .. Len(c.map) |-> Told0(r)] = [r \in 1 .. Len(c.map) |-> Told1(r)]
    <3> HIDE DEF Told0, Told1
    <3> QED BY <2>1
  <2> QED BY <1>7, <2>2
<1> HIDE DEF filled, E
<1>17. /\ filled \in Text!Privates /\ Numbers(filled)
       /\ filled.list = c.list /\ filled.cap = c.cap /\ filled.max = c.max
       /\ filled.cursor = c.cursor /\ filled.colour = c.colour
       /\ \A r \in 1 .. c.max :
            /\ filled.map[r][i] = Entry(r)
            /\ \A j \in 1 .. c.cap : j # i => filled.map[r][j] = c.map[r][j]
            /\ Text!QueryMode(filled, r - 1) = Size(r)
  <2> DEFINE p == filled
             a == data
             e == E
  <2>1. /\ a \in Text!Privates /\ Numbers(a) /\ i \in 2 .. a.cap
        /\ \A r \in 1 .. a.max : e[r] \in Int
        /\ p = [a EXCEPT !.map = [r \in 1 .. Len(a.map) |->
                  IF r <= a.max THEN [a.map[r] EXCEPT ![i] = e[r]] ELSE a.map[r]]]
    BY <1>4, <1>7, <1>15, <1>16
  <2> HIDE DEF p, a, e
  <2>2. /\ p \in Text!Privates /\ Numbers(p)
        /\ p.list = a.list /\ p.cap = a.cap /\ p.max = a.max
        /\ p.mode = a.mode /\ p.cursor = a.cursor /\ p.colour = a.colour
        /\ \A r \in 1 .. a.max :
             /\ p.map[r][i] = e[r]
             /\ \A j \in 1 .. a.cap : j # i => p.map[r][j] = a.map[r][j]
             /\ Text!QueryMode(p, r - 1) = Text!QueryMode(a, r - 1)
    BY SMTT(40), <2>1, FilledIn
  <2> QED BY <1>7, <1>15, <2>2 DEF p, a, e, Size
<1> DEFINE stay == {r \in 1 .. filled.max : r <= 2 \/ r \in keep}
<1>18. \A r \in stay : r \in 1 .. c.max /\ (r <= 2 \/ Entry(r) # -1)
  BY <1>17 DEF Text!NoMode
<1> HIDE DEF keep, stay
<1>19. Told(filled, list, i, stay)
  <2>1. ASSUME NEW r \in stay, NEW j \in 1 .. i
        PROVE  Tells(filled, r, list[j], j)
    <3>1. CASE j = i
      <4>1. /\ filled.map[r][i] = Entry(r) /\ Text!QueryMode(filled, r - 1) = Size(r)
            /\ Entry(r) \in -1 .. Len(s) - 1
            /\ Size(r) # Text!NoSize => Entry(r) # -1 /\ s[Entry(r) + 1] = Size(r)
        BY <1>14, <1>17, <1>18
      <4> QED BY <3>1, <4>1 DEF Tells
    <3>2. CASE j # i
      <4>1. j \in 1 .. k /\ j \in 1 .. c.cap /\ r \in 1 .. c.max
        BY <1>1, <1>3, <1>18, <3>2
      <4>2. Tells(c, r, list[j], j)
        BY <1>3, <4>1
      <4>3. filled.map[r][j] = c.map[r][j] /\ Text!QueryMode(filled, r - 1) = Size(r)
        BY <1>17, <3>2, <4>1
      <4>4. Size(r) = Text!NoSize \/ Size(r) = Text!QueryMode(c, r - 1)
        BY <1>7, <4>1 DEF Size
      <4> QED BY <4>2, <4>3, <4>4 DEF Tells
    <3> QED BY <3>1, <3>2
  <2>2. ASSUME NEW r \in 1 .. filled.max, NEW j \in i + 1 .. filled.cap
        PROVE  filled.map[r][j] = -1
    <3>1. r \in 1 .. c.max /\ j \in k + 1 .. c.cap /\ j \in 1 .. c.cap /\ j # i
      BY <1>1, <1>3, <1>17
    <3> QED BY SMTT(40), <1>3, <1>17, <3>1
  <2>3. i \in 1 .. filled.cap /\ i <= Len(list)
    BY <1>1, <1>4, <1>17
  <2> QED BY <2>1, <2>2, <2>3 DEF Told
<1>20. /\ g \in Text!Privates /\ Numbers(g) /\ Told(g, list, i, 1 .. g.max)
       /\ g.list = filled.list /\ g.cap = filled.cap /\ g.cursor = filled.cursor
       /\ g.colour = filled.colour
  <2>1. i \in Nat
    BY <1>4, <1>1
  <2>2. Told(filled, list, i, {r \in 1 .. filled.max : r <= 2 \/ r \in keep})
    BY <1>19 DEF stay
  <2> QED BY <1>6, <1>17, <2>1, <2>2, IntersectionKeeps
<1> QED BY <1>17, <1>20

\* What a virtual console shows is what its list holds.
LEMMA DrawnIs ==
    ASSUME NEW c \in Text!Privates
    PROVE  /\ Text!Drawn(c) = Gop!Held(c.list) /\ Text!Drawn(c) \subseteq TextDevices
           /\ \A i \in 1 .. Len(c.list) : c.list[i] \in Text!Drawn(c)
           /\ \A d \in Text!Drawn(c) : \E i \in 1 .. Len(c.list) : c.list[i] = d
           /\ c.list = <<>> => Text!Drawn(c) = {}
<1>1. Text!Drawn(c) = Gop!Held(c.list)
  BY DEF Text!Drawn, Text!Held, Gop!Held
<1>2. c.list \in Seq(TextDevices)
  BY PrivateIs
<1>3. c.list = <<>> => Text!Drawn(c) = {}
  BY DEF Text!Drawn, Text!Held
<1> DEFINE l == c.list
<1> HIDE DEF l
<1>4. /\ \A i \in 1 .. Len(l) : l[i] \in TextDevices /\ l[i] \in Gop!Held(l)
      /\ \A x \in Gop!Held(l) : x \in TextDevices /\ \E i \in 1 .. Len(l) : l[i] = x
  BY <1>2, HeldIn DEF l
<1> QED BY <1>1, <1>3, <1>4 DEF l

\* The mode ConsplitterSetConsoleOutMode takes is one of the console's.
LEMMA PreferIs ==
    ASSUME NEW c \in Text!Privates, Numbers(c)
    PROVE  Text!PreferMode(c) \in 0 .. c.max - 1
<1> DEFINE N == c.max
           T == [size : TextSize, mode : Int]
           e == [size |-> Text!NoSize, mode |-> Text!Adding]
           Size(m) == Text!QueryMode(c, m - 1)
           Better(s, a) == s # Text!NoSize /\ s[1] >= a.size[1] /\ s[2] >= a.size[2]
           Takes(m, a) == IF Better(Size(m), a) THEN [size |-> Size(m), mode |-> m - 1] ELSE a
           G == [m \in 1 .. N |-> [a \in T |-> Takes(m, a)]]
           Solves(g) == g = [m \in 0 .. N |-> IF m = 0 THEN e ELSE Takes(m, g[m - 1])]
           best == CHOOSE g : Solves(g)
<1>1. N \in Nat /\ N >= 2 /\ c.query[1] = Size25 /\ c.map[1][1] = 0
  BY PrivateIs DEF Numbers
<1>2. \A m \in 1 .. N : Size(m) \in TextSize
  BY QueryIs
<1>3. \A m \in 1 .. N : m = 1 => Size(m) = Size25
  <2>1. \A m \in 1 .. N : Size(m) = c.query[c.map[m][1] + 1]
    BY QueryIs
  <2> QED BY <1>1, <2>1
<1>4. Text!PreferMode(c) = best[N].mode
  BY DEF Text!PreferMode, best, Solves
<1> HIDE DEF Solves, best, Size, Better
<1>5. e \in T
  BY TextSizes DEF Text!Adding
<1>6. \A m \in 1 .. N : \A a \in T : Takes(m, a) \in T
  BY <1>2
<1>7. G \in StepsOf(N, T)
  <2> HIDE DEF Takes, T
  <2> QED BY <1>6 DEF StepsOf
<1> HIDE DEF e
<1>8. PICK f : Runs(f, N, T, e, G)
  <2> HIDE DEF G, T
  <2> QED BY <1>1, <1>5, <1>7, RunExists
<1>9. /\ f \in [0 .. N -> T] /\ f[0] = e
      /\ \A i \in 1 .. N : f[i] = Takes(i, f[i - 1])
  <2>1. /\ f \in [0 .. N -> T] /\ f[0] = e
        /\ \A i \in 1 .. N : f[i] = G[i][f[i - 1]]
    BY <1>8 DEF Runs
  <2>2. ASSUME NEW i \in 1 .. N
        PROVE  f[i] = Takes(i, f[i - 1])
    <3>1. f[i - 1] \in T /\ f[i] = G[i][f[i - 1]]
      <4> HIDE DEF G, T
      <4> QED BY <1>1, <2>1
    <3>2. G[i][f[i - 1]] = Takes(i, f[i - 1])
      <4> HIDE DEF Takes, T
      <4> QED BY <3>1
    <3> QED BY <3>1, <3>2
  <2> QED BY <2>1, <2>2
<1>10. Solves(f)
  <2>1. f = [m \in 0 .. N |-> IF m = 0 THEN e ELSE Takes(m, f[m - 1])]
    <3> HIDE DEF Takes, T
    <3> QED BY <1>1, <1>9
  <2> QED BY <2>1 DEF Solves
<1>11. Solves(best)
  BY <1>10 DEF best
<1>12. best[0] = e /\ \A i \in 1 .. N : best[i] = Takes(i, best[i - 1])
  <2>1. best = [m \in 0 .. N |-> IF m = 0 THEN e ELSE Takes(m, best[m - 1])]
    BY <1>11 DEF Solves
  <2> HIDE DEF Takes
  <2> QED BY <1>1, <2>1
<1> HIDE DEF G
<1> DEFINE Good(a, k) == a \in T /\ (k = 0 => a = e) /\ (k >= 1 => a.mode \in 0 .. k - 1)
           U == {k \in 0 .. N : Good(best[k], k)}
<1>13. 0 \in U
  BY <1>1, <1>5, <1>12
<1>14. ASSUME NEW k \in 0 .. N - 1, k \in U
       PROVE  k + 1 \in U
  <2> DEFINE a == best[k]
             n == k + 1
             b == best[n]
  <2>1. n \in 1 .. N /\ n \in 0 .. N /\ n - 1 = k
    BY <1>1
  <2>2. b = Takes(n, a)
    <3> HIDE DEF Takes
    <3> QED BY <1>12, <2>1
  <2>3. a \in T /\ (k = 0 => a = e) /\ (k >= 1 => a.mode \in 0 .. k - 1)
    BY <1>14
  <2> HIDE DEF a, b
  <2>4. b \in T
    <3> HIDE DEF Takes, T, n
    <3> QED BY <1>6, <2>1, <2>2, <2>3
  <2>5. b.mode \in 0 .. n - 1
    <3>1. CASE Better(Size(n), a)
      <4>1. b.mode = n - 1
        BY <2>2, <3>1
      <4> QED BY <1>1, <4>1
    <3>2. CASE ~Better(Size(n), a) /\ k >= 1
      <4>1. b.mode = a.mode
        BY <2>2, <3>2
      <4> QED BY <1>1, <2>3, <3>2, <4>1
    <3>3. CASE ~Better(Size(n), a) /\ k = 0
      <4>1. n = 1 /\ Size(n) = Size25 /\ a.size = Text!NoSize
        BY <1>3, <2>1, <2>3, <3>3 DEF e
      <4>2. Better(Size(n), a)
        BY <4>1, TextSizes DEF Better
      <4> QED BY <3>3, <4>2
    <3> QED BY <3>1, <3>2, <3>3
  <2> QED BY <1>1, <2>1, <2>4, <2>5 DEF b
<1> HIDE DEF U
<1>15. \A k \in 0 .. N : k \in U
  BY <1>1, <1>13, <1>14, CountUp
<1> QED BY <1>1, <1>4, <1>15 DEF U

\* Where the devices of a console are after they were sent to row m.
LEMMA SentIs ==
    ASSUME NEW c \in Text!Privates, Tables(c), c.list # <<>>, NEW m \in 0 .. c.max - 1,
           NEW was \in [TextDevices -> Nat], NEW failing,
           NEW to, to = Text!Sent(c, m, was, failing)
    PROVE  /\ to \in [TextDevices -> Nat]
           /\ \A d \in TextDevices \ Text!Drawn(c) : to[d] = was[d]
           /\ Text!QueryMode(c, m) # Text!NoSize =>
                \A d \in Text!Drawn(c) \ failing : TextModes[d][to[d] + 1] = Text!QueryMode(c, m)
<1> DEFINE Column(d) == CHOOSE i \in DOMAIN c.list : c.list[i] = d
           r == m + 1
           N(d) == c.map[m + 1][Column(d)]
           Set == Text!Drawn(c) \ failing
           To(d) == IF N(d) = -1 \/ TextModes[d][N(d) + 1] = Text!NoSize THEN was[d] ELSE N(d)
<1>1. /\ Numbers(c) /\ Told(c, c.list, Len(c.list), 1 .. c.max)
      /\ c.max \in Nat /\ DOMAIN c.list = 1 .. Len(c.list)
  BY PrivateIs DEF Tables
<1>2. r \in 1 .. c.max /\ r - 1 = m
  BY <1>1
<1>3. ASSUME NEW d \in Text!Drawn(c)
      PROVE  /\ d \in TextDevices /\ Column(d) \in 1 .. Len(c.list) /\ c.list[Column(d)] = d
             /\ Tells(c, r, d, Column(d))
  <2>1. d \in TextDevices /\ \E i \in 1 .. Len(c.list) : c.list[i] = d
    BY DrawnIs
  <2>2. Column(d) \in DOMAIN c.list /\ c.list[Column(d)] = d
    BY SMTT(40), <1>1, <2>1
  <2> HIDE DEF Column, r
  <2>3. Tells(c, r, c.list[Column(d)], Column(d))
    BY <1>1, <1>2, <2>2 DEF Told
  <2> QED BY <1>1, <2>1, <2>2, <2>3
<1>4. to = [d \in TextDevices |-> IF d \notin Set THEN was[d] ELSE To(d)]
  BY DEF Text!Sent, Text!NoMode
<1> HIDE DEF Column
<1>5. ASSUME NEW d \in Set
      PROVE  /\ To(d) \in Nat /\ d \in TextDevices
             /\ Text!QueryMode(c, m) # Text!NoSize =>
                  TextModes[d][To(d) + 1] = Text!QueryMode(c, m)
  <2>1. /\ d \in TextDevices /\ N(d) \in -1 .. Len(TextModes[d]) - 1
        /\ Text!QueryMode(c, m) # Text!NoSize =>
             N(d) # -1 /\ TextModes[d][N(d) + 1] = Text!QueryMode(c, m)
    BY <1>2, <1>3 DEF Tells
  <2>2. was[d] \in Nat /\ Len(TextModes[d]) \in Nat
    BY <2>1, TextModesAre
  <2> HIDE DEF N
  <2>3. To(d) \in Nat
    BY <2>1, <2>2
  <2>4. Text!QueryMode(c, m) # Text!NoSize => To(d) = N(d)
    BY <2>1
  <2> HIDE DEF To
  <2> QED BY <2>1, <2>3, <2>4
<1> HIDE DEF To
<1>6. to \in [TextDevices -> Nat]
  BY <1>4, <1>5
<1>7. \A d \in TextDevices \ Text!Drawn(c) : to[d] = was[d]
  BY <1>4
<1>8. \A d \in Set : to[d] = To(d)
  BY <1>4, <1>5
<1> QED BY <1>5, <1>6, <1>7, <1>8

\* Tables that are the same tell the same of the same devices.
LEMMA SameTold ==
    ASSUME NEW a, Numbers(a), NEW b, NEW k \in Nat, NEW list, NEW other, NEW rows,
           b.query = a.query, b.map = a.map, b.max = a.max, b.cap = a.cap,
           Told(a, list, k, rows), k <= Len(other), \A i \in 1 .. k : other[i] = list[i]
    PROVE  /\ Numbers(b) /\ Told(b, other, k, rows)
           /\ \A m : Text!QueryMode(b, m) = Text!QueryMode(a, m)
<1>1. Numbers(b)
  BY DEF Numbers
<1>2. \A m : Text!QueryMode(b, m) = Text!QueryMode(a, m)
  BY DEF Text!QueryMode
<1>3. /\ k \in 1 .. b.cap
      /\ \A r \in rows, i \in 1 .. k : Tells(a, r, list[i], i)
      /\ \A r \in 1 .. b.max, i \in k + 1 .. b.cap : b.map[r][i] = -1
  BY DEF Told
<1>4. ASSUME NEW r \in rows, NEW i \in 1 .. k
      PROVE  Tells(b, r, other[i], i)
  <2>1. Tells(a, r, list[i], i) /\ other[i] = list[i]
    BY <1>3
  <2>2. Text!QueryMode(b, r - 1) = Text!QueryMode(a, r - 1)
    BY <1>2
  <2> QED BY <2>1, <2>2 DEF Tells
<1> QED BY <1>1, <1>2, <1>3, <1>4 DEF Told

\* A device more in a console.
LEMMA AddedKeeps ==
    ASSUME NEW c \in Text!Privates, Tables(c), NEW d \in TextDevices, d \notin Text!Drawn(c),
           NEW g, g = Text!Added(c, d)
    PROVE  /\ g \in Text!Privates /\ Tables(g) /\ g.list # <<>>
           /\ Text!Drawn(g) = Text!Drawn(c) \cup {d}
           /\ g.cursor = c.cursor /\ g.colour = c.colour
<1> DEFINE k == Len(c.list)
           l == Append(c.list, d)
           full == Len(c.list) >= c.cap
           room == IF full THEN Text!GrowMapTable([c EXCEPT !.cap = @ + AllocUnit]) ELSE c
           a == [room EXCEPT !.mode = Text!Adding]
           modal == IF c.list = <<>> THEN Text!AddOutputMode(a, d)
                    ELSE Text!SyncOutputMode(a, d, k + 1)
<1>1. /\ c.list \in Seq(TextDevices) /\ k \in Nat /\ DOMAIN c.list = 1 .. k
      /\ c.cap \in Nat
      /\ k <= c.cap /\ c.cap >= 2
      /\ \A i, j \in DOMAIN c.list : c.list[i] = c.list[j] => i = j
  BY PrivateIs DEF Tables
<1>2. c.list = <<>> <=> k = 0
  BY <1>1, EmptySeq
<1>3. AllocUnit \in Nat /\ AllocUnit > 1
  BY OutputAssumption DEF Text!OutAssumption
<1>4. g = [modal EXCEPT !.list = Append(@, d)]
  BY DEF Text!Added
<1>5. /\ l \in Seq(TextDevices) /\ Len(l) = k + 1 /\ l[k + 1] = d
      /\ \A i \in 1 .. k : l[i] = c.list[i]
  BY <1>1, AppendProperties
<1>6. /\ Gop!Held(l) = Gop!Held(c.list) \cup {d}
      /\ \A i, j \in DOMAIN l : l[i] = l[j] => i = j
  <2> DEFINE s == c.list
  <2>1. /\ s \in Seq(TextDevices) /\ d \notin Gop!Held(s)
        /\ \A i, j \in DOMAIN s : s[i] = s[j] => i = j
    BY <1>1, DrawnIs
  <2> HIDE DEF s
  <2>2. /\ Gop!Held(Append(s, d)) = Gop!Held(s) \cup {d}
        /\ \A i, j \in DOMAIN Append(s, d) : Append(s, d)[i] = Append(s, d)[j] => i = j
    BY <2>1, OneMore
  <2> QED BY <2>2 DEF s
<1>7. l # <<>> /\ DOMAIN l = 1 .. k + 1
  <2> HIDE DEF l
  <2> QED BY <1>1, <1>5, LenProperties, EmptySeq
<1> HIDE DEF l
<1>8. /\ room \in Text!Privates /\ room.list = c.list /\ room.cap \in Nat /\ room.cap >= k + 1
      /\ room.cap >= 2
      /\ room.cursor = c.cursor /\ room.colour = c.colour
      /\ c.list # <<>> => Numbers(room) /\ Told(room, c.list, k, 1 .. room.max)
  <2>1. CASE full
    <3>1. Numbers(c) /\ Told(c, c.list, k, 1 .. c.max)
      BY <1>1, <1>2, <2>1 DEF Tables
    <3>2. room = Text!GrowMapTable([c EXCEPT !.cap = @ + AllocUnit])
      BY <2>1
    <3> HIDE DEF room
    <3>3. /\ room \in Text!Privates /\ Numbers(room) /\ Told(room, c.list, k, 1 .. room.max)
          /\ room.list = c.list /\ room.cap = c.cap + AllocUnit
          /\ room.cursor = c.cursor /\ room.colour = c.colour
      BY <1>1, <3>1, <3>2, GrowKeeps
    <3>4. room.cap \in Nat /\ room.cap >= k + 1 /\ room.cap >= 2
      BY <1>1, <1>3, <3>3
    <3> QED BY <3>3, <3>4
  <2>2. CASE ~full
    <3>1. room = c /\ c.cap >= k + 1
      BY <1>1, <2>2
    <3> HIDE DEF room
    <3> QED BY <1>1, <3>1 DEF Tables
  <2> QED BY <2>1, <2>2
<1> HIDE DEF room
<1>9. /\ a \in Text!Privates /\ a.list = room.list /\ a.cap = room.cap /\ a.query = room.query
      /\ a.map = room.map /\ a.max = room.max /\ a.cursor = room.cursor /\ a.colour = room.colour
  <2> DEFINE T == Seq(Seq(Int))
  <2>1. room \in [list : Seq(TextDevices), cap : Nat, query : Seq(TextSize), map : T,
                  max : Nat, mode : Int, cursor : TextSize, colour : TextColours]
    BY <1>8 DEF Text!Privates, TextSize
  <2>2. Text!Adding \in Int
    BY DEF Text!Adding
  <2> HIDE DEF T
  <2>3. /\ a \in [list : Seq(TextDevices), cap : Nat, query : Seq(TextSize), map : T,
                   max : Nat, mode : Int, cursor : TextSize, colour : TextColours]
        /\ a.list = room.list /\ a.cap = room.cap /\ a.query = room.query
        /\ a.map = room.map /\ a.max = room.max /\ a.cursor = room.cursor
        /\ a.colour = room.colour
    BY <2>1, <2>2
  <2> QED BY <2>3 DEF Text!Privates, TextSize, T
<1> HIDE DEF a
<1>10. /\ modal \in Text!Privates /\ Numbers(modal) /\ Told(modal, l, k + 1, 1 .. modal.max)
       /\ modal.list = c.list /\ modal.cap = room.cap
       /\ modal.cursor = c.cursor /\ modal.colour = c.colour
  <2>1. CASE c.list = <<>>
    <3>1. k = 0 /\ modal = Text!AddOutputMode(a, d) /\ Len(l) >= 1 /\ l[1] = d
      BY <1>1, <1>2, <1>5, <2>1
    <3>2. a.list = <<>> /\ a.cap >= 2
      BY <1>8, <1>9, <2>1
    <3> HIDE DEF modal
    <3>3. /\ modal \in Text!Privates /\ Numbers(modal) /\ Told(modal, l, 1, 1 .. modal.max)
          /\ modal.list = a.list /\ modal.cap = a.cap
          /\ modal.cursor = a.cursor /\ modal.colour = a.colour
      BY <1>9, <3>1, <3>2, AddOutputKeeps
    <3>4. k + 1 = 1
      BY <3>1
    <3> QED BY <1>8, <1>9, <3>3, <3>4
  <2>2. CASE c.list # <<>>
    <3>1. Numbers(a) /\ Told(a, l, k, 1 .. a.max)
      <4>1. Numbers(room) /\ Told(room, c.list, k, 1 .. room.max) /\ k <= Len(l)
        BY <1>1, <1>5, <1>8, <2>2
      <4>2. Numbers(a) /\ Told(a, l, k, 1 .. room.max)
        <5>1. k \in Nat
          BY <1>1
        <5> HIDE DEF k
        <5> QED BY <1>5, <1>9, <4>1, <5>1, SameTold
      <4> QED BY <1>9, <4>2
    <3>2. PICK i : i = k + 1
      OBVIOUS
    <3>3. /\ i <= a.cap /\ i <= Len(l) /\ Len(l) \in Nat /\ l[i] = d
          /\ modal = Text!SyncOutputMode(a, d, i)
      BY <1>1, <1>5, <1>8, <1>9, <2>2, <3>2
    <3> HIDE DEF modal
    <3>4. /\ modal \in Text!Privates /\ Numbers(modal) /\ Told(modal, l, i, 1 .. modal.max)
          /\ modal.list = a.list /\ modal.cap = a.cap
          /\ modal.cursor = a.cursor /\ modal.colour = a.colour
      <4>1. k \in Nat
        BY <1>1
      <4> HIDE DEF k
      <4> QED BY <1>9, <3>1, <3>2, <3>3, <4>1, SyncKeeps
    <3> QED BY <1>8, <1>9, <3>2, <3>4
  <2> QED BY <2>1, <2>2
<1> HIDE DEF modal
<1>11. /\ g \in Text!Privates /\ g.list = l /\ g.cap = modal.cap /\ g.query = modal.query
       /\ g.map = modal.map /\ g.max = modal.max
       /\ g.cursor = modal.cursor /\ g.colour = modal.colour
  <2>1. g = [modal EXCEPT !.list = l]
    BY <1>4, <1>10 DEF l, Text!Privates
  <2> QED BY <1>5, <1>10, <2>1 DEF Text!Privates
<1>12. Numbers(g) /\ Told(g, g.list, Len(g.list), 1 .. g.max)
  <2>1. PICK i \in Nat : i = k + 1
    BY <1>1
  <2>2. Numbers(g) /\ Told(g, l, i, 1 .. modal.max)
    <3>1. i <= Len(l) /\ Told(modal, l, i, 1 .. modal.max)
      BY <1>1, <1>5, <1>10, <2>1
    <3> HIDE DEF k
    <3> QED BY <1>10, <1>11, <3>1, SameTold
  <2> QED BY <1>5, <1>11, <2>1, <2>2
<1>13. Tables(g)
  <2>1. Len(g.list) <= g.cap /\ g.cap >= 2
    BY <1>1, <1>5, <1>8, <1>10, <1>11
  <2>2. \A i, j \in DOMAIN g.list : g.list[i] = g.list[j] => i = j
    BY <1>6, <1>11
  <2> QED BY <1>7, <1>11, <1>12, <2>1, <2>2 DEF Tables
<1>14. Text!Drawn(g) = Text!Drawn(c) \cup {d}
  BY <1>6, <1>11, DrawnIs
<1> QED BY <1>7, <1>10, <1>11, <1>13, <1>14

\* ConSplitterTextOutDeleteDevice's new map tells the modes of all that are left.
LEMMA RebuiltKeeps ==
    ASSUME NEW c \in Text!Privates, c.cap >= 2, NEW left \in Seq(TextDevices),
           left # <<>>, Len(left) <= c.cap, \A i, j \in DOMAIN left : left[i] = left[j] => i = j,
           NEW g, g = Text!Rebuilt(c, left)
    PROVE  /\ g \in Text!Privates /\ Tables(g) /\ g.list = left
           /\ g.cursor = c.cursor /\ g.colour = c.colour
<1> DEFINE L == Len(left)
           T == Text!Privates
           blank == [c EXCEPT !.list = left, !.map = <<>>,
                              !.query = Text!Fill(Len(@), Text!NoSize)]
           S(a, i) == Text!SyncOutputMode(a, left[i], i)
           base == Text!AddOutputMode(blank, left[1])
           Solves(h) == h = [i \in 1 .. L |-> IF i = 1 THEN base ELSE S(h[i - 1], i)]
           columns == CHOOSE h : Solves(h)
           Good(a, i) == /\ a \in T /\ Numbers(a) /\ Told(a, left, i, 1 .. a.max)
                         /\ a.list = left /\ a.cap = c.cap
                         /\ a.cursor = c.cursor /\ a.colour = c.colour
           Next(a, i) == IF S(a, i) \in T THEN S(a, i) ELSE a
           G == [j \in 1 .. L - 1 |-> [a \in T |-> Next(a, j + 1)]]
<1>1. /\ L \in Nat \ {0} /\ DOMAIN left = 1 .. L
      /\ \A i \in 1 .. L : left[i] \in TextDevices
  BY LenProperties, EmptySeq
<1>2. g = columns[L]
  BY DEF Text!Rebuilt, columns, Solves
<1> HIDE DEF columns, Solves
<1>3. /\ blank \in Text!Privates /\ blank.list = left /\ blank.cap = c.cap /\ blank.map = <<>>
      /\ blank.cursor = c.cursor /\ blank.colour = c.colour
  <2> DEFINE M == Seq(Seq(Int))
             q == Text!Fill(Len(c.query), Text!NoSize)
             e == <<>>
  <2>1. e \in M /\ q \in Seq(TextSize)
    <3>1. e \in M
      <4> DEFINE I == Seq(Int)
      <4> HIDE DEF I
      <4>1. e \in Seq(I)
        BY EmptySeq
      <4> QED BY <4>1 DEF I
    <3>2. Len(c.query) \in Nat /\ q \in [1 .. Len(c.query) -> TextSize]
      BY PrivateIs, TextSizes DEF Text!Fill
    <3> HIDE DEF q, M
    <3> QED BY <3>1, <3>2, SequenceOf
  <2>2. c \in [list : Seq(TextDevices), cap : Nat, query : Seq(TextSize), map : M,
               max : Nat, mode : Int, cursor : TextSize, colour : TextColours]
    BY DEF Text!Privates, TextSize
  <2>3. blank = [c EXCEPT !.list = left, !.map = e, !.query = q]
    BY <2>2
  <2> HIDE DEF M, e, q, blank
  <2>4. /\ blank \in [list : Seq(TextDevices), cap : Nat, query : Seq(TextSize), map : M,
                   max : Nat, mode : Int, cursor : TextSize, colour : TextColours]
        /\ blank.list = left /\ blank.cap = c.cap /\ blank.map = e
        /\ blank.cursor = c.cursor /\ blank.colour = c.colour
    BY <2>1, <2>2, <2>3
  <2> QED BY <2>4 DEF Text!Privates, TextSize, M, e
<1> HIDE DEF blank
<1>4. Good(base, 1)
  <2>1. blank.map = <<>> \/ blank.list = <<>>
    BY <1>3
  <2>2. blank.cap >= 2 /\ left[1] \in TextDevices /\ L >= 1
    BY <1>1, <1>3
  <2> HIDE DEF base
  <2>3. /\ base \in Text!Privates /\ Numbers(base) /\ Told(base, left, 1, 1 .. base.max)
        /\ base.list = blank.list /\ base.cap = blank.cap
        /\ base.cursor = blank.cursor /\ base.colour = blank.colour
    BY <1>3, <2>1, <2>2, AddOutputKeeps DEF base
  <2> QED BY <1>3, <2>3
<1> HIDE DEF base
<1>5. ASSUME NEW a, NEW k \in 1 .. L - 1, Good(a, k)
      PROVE  Good(S(a, k + 1), k + 1)
  <2> DEFINE b == S(a, k + 1)
  <2>1. PICK i : i = k + 1
    OBVIOUS
  <2>2. /\ k \in Nat /\ i \in 1 .. L /\ i <= a.cap /\ left[i] \in TextDevices
        /\ b = Text!SyncOutputMode(a, left[i], i)
    <3>1. b = Text!SyncOutputMode(a, left[i], i)
      BY <2>1
    <3>2. k \in Nat /\ i \in 1 .. L
      BY <1>1, <2>1
    <3>3. c.cap \in Nat /\ a.cap = c.cap
      BY <1>5, PrivateIs
    <3> HIDE DEF b, Good, T
    <3> QED BY <1>1, <3>1, <3>2, <3>3
  <2> HIDE DEF b
  <2>3. /\ b \in Text!Privates /\ Numbers(b) /\ Told(b, left, i, 1 .. b.max)
        /\ b.list = a.list /\ b.cap = a.cap /\ b.cursor = a.cursor /\ b.colour = a.colour
    <3>1. i <= Len(left) /\ Len(left) \in Nat
      BY <1>1, <2>2
    <3> QED BY <1>5, <2>1, <2>2, <3>1, SyncKeeps
  <2>4. Good(b, i)
    BY <1>5, <2>3
  <2> HIDE DEF Good
  <2> QED BY <2>1, <2>4 DEF b
<1>6. G \in StepsOf(L - 1, T) /\ base \in T /\ L - 1 \in Nat
  <2>1. \A a \in T, i \in 1 .. L : Next(a, i) \in T
    <3> HIDE DEF S, T
    <3> QED OBVIOUS
  <2>2. \A j \in 1 .. L - 1 : j + 1 \in 1 .. L
    BY <1>1
  <2> HIDE DEF Next, T
  <2>3. G \in StepsOf(L - 1, T)
    BY <2>1, <2>2 DEF StepsOf
  <2>4. base \in T
    BY <1>4
  <2> QED BY <1>1, <2>3, <2>4
<1>7. PICK f : Runs(f, L - 1, T, base, G)
  <2> DEFINE n == L - 1
  <2>1. n \in Nat /\ G \in StepsOf(n, T) /\ base \in T
    BY <1>6
  <2> HIDE DEF G, T, n
  <2>2. \E f : Runs(f, n, T, base, G)
    BY <2>1, RunExists
  <2> QED BY <2>2 DEF n
<1>8. /\ f[0] = base
      /\ \A j \in 1 .. L - 1 : f[j - 1] \in T => f[j] = Next(f[j - 1], j + 1)
  <2>1. f[0] = base /\ \A j \in 1 .. L - 1 : f[j] = G[j][f[j - 1]]
    BY <1>7 DEF Runs
  <2>2. ASSUME NEW j \in 1 .. L - 1, f[j - 1] \in T
        PROVE  G[j][f[j - 1]] = Next(f[j - 1], j + 1)
    <3> HIDE DEF Next, T
    <3> QED BY <2>2
  <2> HIDE DEF G, Next
  <2> QED BY <2>1, <2>2
<1> HIDE DEF S, G
<1>9. ASSUME NEW k \in 0 .. L - 1 - 1, Good(f[k], k + 1)
      PROVE  /\ Good(f[k + 1], k + 1 + 1)
             /\ f[k + 1] = S(f[k], k + 1 + 1)
  <2> DEFINE a == f[k]
  <2>1. PICK j : j = k + 1
    OBVIOUS
  <2>2. j \in 1 .. L - 1 /\ j - 1 = k
    BY <1>1, <2>1
  <2>3. Good(a, j)
    <3> HIDE DEF Good
    <3> QED BY <1>9, <2>1
  <2>4. Good(S(a, j + 1), j + 1)
    <3> HIDE DEF Good, a
    <3> QED BY <1>5, <2>2, <2>3
  <2>5. f[j] = S(a, j + 1)
    <3>1. a \in T /\ S(a, j + 1) \in T
      BY <2>3, <2>4
    <3>2. f[j] = Next(a, j + 1)
      <4> HIDE DEF Next, T
      <4> QED BY <1>8, <2>2, <3>1
    <3> QED BY <3>1, <3>2
  <2> HIDE DEF Good
  <2> QED BY <2>1, <2>4, <2>5
<1> DEFINE U == {k \in 0 .. L - 1 : Good(f[k], k + 1)}
<1>10. \A k \in 0 .. L - 1 : Good(f[k], k + 1)
  <2> DEFINE n == L - 1
  <2>1. 0 \in U
    <3>1. 0 \in 0 .. L - 1 /\ 0 + 1 = 1
      BY <1>1
    <3> HIDE DEF Good
    <3> QED BY <1>4, <1>8, <3>1
  <2>2. ASSUME NEW k \in 0 .. n - 1, k \in U
        PROVE  k + 1 \in U
    <3>1. k + 1 \in 0 .. L - 1 /\ k \in 0 .. L - 1 - 1
      BY <1>1
    <3> HIDE DEF Good
    <3> QED BY <1>9, <2>2, <3>1
  <2>3. n \in Nat
    BY <1>1
  <2> HIDE DEF U
  <2>4. \A k \in 0 .. n : k \in U
    <3> HIDE DEF n
    <3> QED BY <2>1, <2>2, <2>3, CountUp
  <2> HIDE DEF Good
  <2> QED BY <2>4 DEF U
<1> HIDE DEF U
<1>11. Solves(columns)
  <2> DEFINE h == [i \in 1 .. L |-> f[i - 1]]
  <2>1. ASSUME NEW i \in 1 .. L
        PROVE  h[i] = IF i = 1 THEN base ELSE S(h[i - 1], i)
    <3>1. CASE i = 1
      BY <1>8, <3>1
    <3>2. CASE i # 1
      <4>1. PICK k : k = i - 2
        OBVIOUS
      <4>2. /\ k \in 0 .. L - 1 - 1 /\ k + 1 + 1 = i /\ k + 1 = i - 1 /\ k \in 0 .. L - 1
            /\ i - 1 \in 1 .. L /\ i - 1 - 1 = k
        BY <1>1, <3>2, <4>1
      <4>3. Good(f[k], k + 1)
        <5> HIDE DEF Good
        <5> QED BY <1>10, <4>2
      <4>4. f[k + 1] = S(f[k], k + 1 + 1)
        <5> HIDE DEF Good
        <5> QED BY <1>9, <4>2, <4>3
      <4>5. h[i - 1] = f[k] /\ h[i] = f[k + 1]
        BY <4>2
      <4> HIDE DEF h
      <4> QED BY <3>2, <4>2, <4>4, <4>5
    <3> QED BY <3>1, <3>2
  <2>2. Solves(h)
    <3>1. h = [i \in 1 .. L |-> h[i]]
      OBVIOUS
    <3> HIDE DEF h
    <3>2. h = [i \in 1 .. L |-> IF i = 1 THEN base ELSE S(h[i - 1], i)]
      BY <2>1, <3>1
    <3> QED BY <3>2 DEF Solves, S
  <2> QED BY <2>2 DEF columns
<1>12. /\ columns[1] = base
       /\ \A i \in 1 .. L : i # 1 => columns[i] = S(columns[i - 1], i)
  <2>1. columns = [i \in 1 .. L |-> IF i = 1 THEN base ELSE S(columns[i - 1], i)]
    BY <1>11 DEF Solves, S
  <2>2. 1 \in 1 .. L
    BY <1>1
  <2> HIDE DEF L
  <2>3. \A i \in 1 .. L : columns[i] = IF i = 1 THEN base ELSE S(columns[i - 1], i)
    BY <2>1
  <2> QED BY <2>2, <2>3
<1> DEFINE V == {k \in 0 .. L - 1 : Good(columns[k + 1], k + 1)}
<1>13. Good(columns[L], L)
  <2> DEFINE n == L - 1
  <2>1. 0 \in V
    <3>1. 0 \in 0 .. L - 1 /\ 0 + 1 = 1
      BY <1>1
    <3> HIDE DEF Good
    <3> QED BY <1>4, <1>12, <3>1
  <2>2. ASSUME NEW k \in 0 .. n - 1, k \in V
        PROVE  k + 1 \in V
    <3>1. PICK j : j = k + 1
      OBVIOUS
    <3>2. j \in 0 .. L - 1 /\ j \in 1 .. L - 1 /\ j + 1 \in 1 .. L /\ j + 1 # 1 /\ j + 1 - 1 = j
      BY <1>1, <3>1
    <3>3. Good(columns[j], j)
      <4> HIDE DEF Good
      <4> QED BY <2>2, <3>1
    <3>4. Good(S(columns[j], j + 1), j + 1)
      <4> HIDE DEF Good
      <4> QED BY <1>5, <3>2, <3>3
    <3>5. columns[j + 1] = S(columns[j], j + 1)
      BY <1>12, <3>2
    <3> HIDE DEF Good
    <3> QED BY <3>1, <3>2, <3>4, <3>5
  <2>3. n \in Nat
    BY <1>1
  <2> HIDE DEF V
  <2>4. \A k \in 0 .. n : k \in V
    <3> HIDE DEF n
    <3> QED BY <2>1, <2>2, <2>3, CountUp
  <2>5. n \in V /\ n + 1 = L
    BY <1>1, <2>4
  <2> HIDE DEF Good
  <2> QED BY <2>5 DEF V
<1>14. /\ g \in Text!Privates /\ Numbers(g) /\ Told(g, left, L, 1 .. g.max) /\ g.list = left
       /\ g.cap = c.cap /\ g.cursor = c.cursor /\ g.colour = c.colour
  BY <1>2, <1>13
<1>15. Tables(g)
  <2> HIDE DEF T
  <2> QED BY <1>14 DEF Tables
<1> QED BY <1>14, <1>15

\* TextOutSetMode of a mode there is.
LEMMA ModeSetKeeps ==
    ASSUME NEW c \in Text!Privates, Tables(c), NEW m \in 0 .. c.max - 1,
           NEW g, g = Text!TextOutSetMode(c, m)
    PROVE  /\ g \in Text!Privates /\ Tables(g) /\ g.list = c.list /\ g.colour = c.colour
           /\ Text!Drawn(g) = Text!Drawn(c)
           /\ g.mode = m /\ g.max = c.max
           /\ \A n : Text!QueryMode(g, n) = Text!QueryMode(c, n)
<1> DEFINE zero == <<0, 0>>
<1>1. zero \in TextSize /\ zero[1] = 0 /\ zero[2] = 0
  BY DEF TextSize
<1>2. m \in Int /\ c.max \in Nat /\ Len(c.list) \in Nat
  BY PrivateIs
<1>3. g = [c EXCEPT !.mode = m, !.cursor = zero]
  BY DEF Text!TextOutSetMode
<1> HIDE DEF zero
<1>4. /\ g \in Text!Privates /\ g.list = c.list /\ g.cap = c.cap /\ g.query = c.query
      /\ g.map = c.map /\ g.max = c.max /\ g.mode = m /\ g.cursor = zero /\ g.colour = c.colour
  <2> DEFINE T == Seq(Seq(Int))
  <2>1. c \in [list : Seq(TextDevices), cap : Nat, query : Seq(TextSize), map : T,
               max : Nat, mode : Int, cursor : TextSize, colour : TextColours]
    BY DEF Text!Privates, TextSize
  <2> HIDE DEF T
  <2>2. /\ g \in [list : Seq(TextDevices), cap : Nat, query : Seq(TextSize), map : T,
                  max : Nat, mode : Int, cursor : TextSize, colour : TextColours]
        /\ g.list = c.list /\ g.cap = c.cap /\ g.query = c.query
        /\ g.map = c.map /\ g.max = c.max /\ g.mode = m /\ g.cursor = zero
        /\ g.colour = c.colour
    BY <1>1, <1>2, <1>3, <2>1
  <2> QED BY <2>2 DEF Text!Privates, TextSize, T
<1>5. \A n : Text!QueryMode(g, n) = Text!QueryMode(c, n)
  BY <1>4 DEF Text!QueryMode
<1>6. CASE c.list = <<>>
  <2>1. Deserted(c)
    BY <1>6 DEF Tables
  <2>2. m = 0
    BY <2>1 DEF Deserted
  <2>3. Deserted(g)
    BY <1>1, <1>4, <2>1, <2>2, TextSizes DEF Deserted
  <2> QED BY <1>4, <1>5, <1>6, <2>3 DEF Tables, Text!Drawn
<1>7. CASE c.list # <<>>
  <2>1. Numbers(c) /\ Told(c, c.list, Len(c.list), 1 .. c.max)
    BY <1>7 DEF Tables
  <2> DEFINE k == Len(c.list)
  <2>2. Numbers(g) /\ Told(g, c.list, k, 1 .. c.max)
    <3> DEFINE l == c.list
               rows == 1 .. c.max
    <3>1. k \in Nat /\ k <= Len(l) /\ Told(c, l, k, rows) /\ Numbers(c)
      BY <1>2, <2>1
    <3>2. g.query = c.query /\ g.map = c.map /\ g.max = c.max /\ g.cap = c.cap
      BY <1>4
    <3> HIDE DEF k, l, rows
    <3>3. Numbers(g) /\ Told(g, l, k, rows)
      BY <3>1, <3>2, SameTold
    <3> QED BY <3>3 DEF l, rows
  <2> QED BY <1>4, <1>5, <1>7, <2>2 DEF Tables, Text!Drawn
<1> QED BY <1>6, <1>7

\* Devices that stay as they are keep a console in its mode.
LEMMA InModeStays ==
    ASSUME NEW a \in Text!Privates, NEW b \in Text!Privates, NEW was, NEW to, NEW out, NEW but,
           InMode(a, was, out), Text!Drawn(b) = Text!Drawn(a),
           b.mode \in 0 .. b.max - 1, Text!QueryMode(b, b.mode) = Text!QueryMode(a, a.mode),
           \A d \in Text!Drawn(b) \ but : d \notin out /\ to[d] = was[d]
    PROVE  InMode(b, to, but)
  BY DEF InMode

\* A console that has lost its mode is in mode 0 then, with its devices.
LEMMA LostKeeps ==
    ASSUME NEW c \in Text!Privates, Tables(c), c.list # <<>>, NEW out,
           NEW was \in [TextDevices -> Nat],
           NEW g, g = IF c.mode < 0 THEN Text!TextOutSetMode(c, 0) ELSE c,
           NEW to, to = Text!SentIfLost(c, was)
    PROVE  /\ g \in Text!Privates /\ Tables(g) /\ g.list = c.list /\ g.colour = c.colour
           /\ Text!Drawn(g) = Text!Drawn(c)
           /\ to \in [TextDevices -> Nat]
           /\ \A d \in TextDevices \ Text!Drawn(c) : to[d] = was[d]
           /\ c.mode = -1 \/ InMode(c, was, out) => InMode(g, to, out)
<1>1. c.mode \in Int /\ c.max \in Nat
  BY PrivateIs
<1>2. CASE c.mode < 0
  <2>1. g = Text!TextOutSetMode(c, 0) /\ to = Text!Sent(c, 0, was, {})
    BY <1>2 DEF Text!SentIfLost
  <2>2. PICK m : m = 0
    OBVIOUS
  <2>3. m \in 0 .. c.max - 1
    BY <1>1, <2>2 DEF Tables, Numbers
  <2>4. g = Text!TextOutSetMode(c, m) /\ to = Text!Sent(c, m, was, {})
    BY <2>1, <2>2
  <2>5. /\ g \in Text!Privates /\ Tables(g) /\ g.list = c.list /\ g.colour = c.colour
        /\ Text!Drawn(g) = Text!Drawn(c)
        /\ g.mode = m /\ g.max = c.max
        /\ \A n : Text!QueryMode(g, n) = Text!QueryMode(c, n)
    BY <2>3, <2>4, ModeSetKeeps
  <2>6. /\ to \in [TextDevices -> Nat]
        /\ \A d \in TextDevices \ Text!Drawn(c) : to[d] = was[d]
        /\ Text!QueryMode(c, m) # Text!NoSize =>
             \A d \in Text!Drawn(c) \ {} : TextModes[d][to[d] + 1] = Text!QueryMode(c, m)
    BY <2>3, <2>4, SentIs
  <2>7. InMode(g, to, out)
    BY <2>3, <2>5, <2>6 DEF InMode
  <2> QED BY <2>5, <2>6, <2>7
<1>3. CASE ~(c.mode < 0)
  <2>1. g = c /\ to = was
    BY <1>3 DEF Text!SentIfLost
  <2>2. c.mode # -1
    BY <1>1, <1>3
  <2> QED BY <2>1, <2>2
<1> QED BY <1>2, <1>3

\* One console's part in the intersection of the two.
LEMMA IntersectedKeeps ==
    ASSUME NEW c \in Text!Privates, Tables(c), c.list # <<>>, NEW keep,
           NEW g, g = Text!GetIntersection(c, keep), NEW out, NEW modes
    PROVE  /\ g \in Text!Privates /\ Tables(g) /\ g.list = c.list /\ g.colour = c.colour
           /\ Text!Drawn(g) = Text!Drawn(c)
           /\ InMode(c, modes, out) => g.mode = -1 \/ InMode(g, modes, out)
<1> DEFINE k == Len(c.list)
           stay == {r \in 1 .. c.max : r <= 2 \/ r \in keep}
<1>1. k \in Nat /\ Numbers(c) /\ Told(c, c.list, k, 1 .. c.max)
  BY PrivateIs DEF Tables
<1>2. Told(c, c.list, k, stay)
  BY <1>1 DEF Told
<1>3. /\ g \in Text!Privates /\ Numbers(g) /\ Told(g, c.list, k, 1 .. g.max)
      /\ g.list = c.list /\ g.cap = c.cap /\ g.cursor = c.cursor /\ g.colour = c.colour
      /\ c.mode \in 0 .. c.max - 1 =>
           \/ g.mode = -1
           \/ /\ g.mode \in 0 .. g.max - 1
              /\ Text!QueryMode(g, g.mode) = Text!QueryMode(c, c.mode)
  <2> HIDE DEF k
  <2> QED BY <1>1, <1>2, IntersectionKeeps
<1>4. Tables(g)
  BY <1>3 DEF Tables
<1>5. Text!Drawn(g) = Text!Drawn(c)
  BY <1>3 DEF Text!Drawn
<1>6. ASSUME InMode(c, modes, out), g.mode # -1
      PROVE  InMode(g, modes, out)
  <2>1. /\ g.mode \in 0 .. g.max - 1
        /\ Text!QueryMode(g, g.mode) = Text!QueryMode(c, c.mode)
    BY <1>3, <1>6 DEF InMode
  <2> QED BY <1>3, <1>5, <1>6, <2>1, InModeStays
<1> QED BY <1>3, <1>4, <1>5, <1>6

\* What ConSplitterGetIntersectionBetweenConOutAndStrErr may leave keeps the
\* tables, and a console in its mode as long as it was, but for shared devices.
LEMMA BetweenKeeps ==
    ASSUME NEW all \in [Text!Virtuals -> Text!Privates], \A v \in Text!Virtuals : Tables(all[v]),
           textMode \in [TextDevices -> Nat], NEW to \in Text!Between(all), NEW out
    PROVE  /\ to.con \in [Text!Virtuals -> Text!Privates] /\ to.mode \in [TextDevices -> Nat]
           /\ \A v \in Text!Virtuals :
                /\ Tables(to.con[v]) /\ to.con[v].list = all[v].list
                /\ Text!Drawn(to.con[v]) = Text!Drawn(all[v])
                /\ to.con[v].colour = all[v].colour
           /\ \A d \in TextDevices : (\A v \in Text!Virtuals : d \notin Text!Drawn(all[v])) =>
                to.mode[d] = textMode[d]
           /\ Text!Drawn(all["ConOut"]) \cap Text!Drawn(all["StdErr"]) \subseteq out =>
                \A w \in Text!Virtuals :
                   InMode(all[w], textMode, out) => InMode(to.con[w], to.mode, out)
<1>1. Text!Virtuals = {"ConOut", "StdErr"}
  BY DEF Text!Virtuals
<1> DEFINE p == Text!Intersected(all)
           last == Text!SentLost(p, textMode)
           x == [con |-> Text!SetLost(p), mode |-> last]
           y == [con |-> all, mode |-> textMode]
<1>2. PICK shared \in Text!MayShare(all) : to = IF shared THEN x ELSE y
  BY DEF Text!Between
<1>3. CASE ~shared
  <2>1. to = y
    BY <1>2, <1>3
  <2>2. to.con = all /\ to.mode = textMode
    BY <2>1
  <2> QED BY <1>1, <2>2
<1>4. CASE shared
  <2> DEFINE o == all["ConOut"]
             e == all["StdErr"]
             g == p["ConOut"]
             h == p["StdErr"]
             q == Text!SetLost(p)
             mid == Text!SentIfLost(g, textMode)
             gone == IF g.mode < 0 THEN Text!TextOutSetMode(g, 0) ELSE g
             hone == IF h.mode < 0 THEN Text!TextOutSetMode(h, 0) ELSE h
  <2>1. o.list # <<>> /\ e.list # <<>>
    BY <1>2, <1>4 DEF Text!MayShare
  <2>2. to.con = q /\ to.mode = last
    BY <1>2, <1>4
  <2>3. /\ \E keep : g = Text!GetIntersection(o, keep)
        /\ \E keep : h = Text!GetIntersection(e, keep)
    <3>1. "ConOut" \in Text!Virtuals /\ "StdErr" \in Text!Virtuals /\ "ConOut" # "StdErr"
      BY <1>1
    <3> QED BY <3>1 DEF Text!Intersected
  <2>4. last = Text!SentIfLost(h, mid)
    BY DEF Text!SentLost
  <2>5. /\ q["ConOut"] = gone /\ q["StdErr"] = hone
        /\ q = [v \in Text!Virtuals |-> q[v]]
    BY <1>1 DEF Text!SetLost
  <2> HIDE DEF p, last, q
  <2>6. /\ o \in Text!Privates /\ e \in Text!Privates /\ Tables(o) /\ Tables(e)
    BY <1>1
  <2> HIDE DEF o, e, g, h
  <2>7. /\ g \in Text!Privates /\ Tables(g) /\ g.list = o.list /\ g.colour = o.colour
        /\ Text!Drawn(g) = Text!Drawn(o)
        /\ InMode(o, textMode, out) => g.mode = -1 \/ InMode(g, textMode, out)
    BY <2>1, <2>3, <2>6, IntersectedKeeps
  <2>8. /\ h \in Text!Privates /\ Tables(h) /\ h.list = e.list /\ h.colour = e.colour
        /\ Text!Drawn(h) = Text!Drawn(e)
        /\ InMode(e, textMode, out) => h.mode = -1 \/ InMode(h, textMode, out)
    BY <2>1, <2>3, <2>6, IntersectedKeeps
  <2> HIDE DEF mid, gone, hone
  <2>9. /\ gone \in Text!Privates /\ Tables(gone) /\ gone.list = g.list /\ gone.colour = g.colour
        /\ Text!Drawn(gone) = Text!Drawn(g)
        /\ mid \in [TextDevices -> Nat]
        /\ \A d \in TextDevices \ Text!Drawn(g) : mid[d] = textMode[d]
        /\ g.mode = -1 \/ InMode(g, textMode, out) => InMode(gone, mid, out)
    BY <2>1, <2>7, LostKeeps DEF gone, mid
  <2>10. /\ hone \in Text!Privates /\ Tables(hone) /\ hone.list = h.list /\ hone.colour = h.colour
         /\ Text!Drawn(hone) = Text!Drawn(h)
         /\ last \in [TextDevices -> Nat]
         /\ \A d \in TextDevices \ Text!Drawn(h) : last[d] = mid[d]
         /\ h.mode = -1 \/ InMode(h, mid, out) => InMode(hone, last, out)
    BY SMTT(40), <2>1, <2>4, <2>8, <2>9, LostKeeps DEF hone
  <2>11. Text!Drawn(g) \subseteq TextDevices /\ Text!Drawn(h) \subseteq TextDevices
    BY <2>7, <2>8, DrawnIs
  <2>12. ASSUME Text!Drawn(o) \cap Text!Drawn(e) \subseteq out, InMode(o, textMode, out)
         PROVE  InMode(gone, last, out)
    <3>1. InMode(gone, mid, out)
      BY <2>7, <2>9, <2>12
    <3>2. \A d \in Text!Drawn(gone) \ out : last[d] = mid[d]
      BY <2>7, <2>8, <2>9, <2>10, <2>11, <2>12
    <3>3. gone.mode \in 0 .. gone.max - 1
      BY <3>1 DEF InMode
    <3> QED BY <2>9, <3>1, <3>2, <3>3, InModeStays
  <2>13. ASSUME Text!Drawn(o) \cap Text!Drawn(e) \subseteq out, InMode(e, textMode, out)
         PROVE  InMode(hone, last, out)
    <3>1. CASE h.mode = -1
      BY <2>10, <3>1
    <3>2. CASE InMode(h, textMode, out)
      <4>1. \A d \in Text!Drawn(h) \ out : mid[d] = textMode[d]
        BY <2>7, <2>8, <2>9, <2>11, <2>13
      <4>2. h.mode \in 0 .. h.max - 1
        BY <3>2 DEF InMode
      <4>3. InMode(h, mid, out)
        BY <2>8, <3>2, <4>1, <4>2, InModeStays
      <4> QED BY <2>10, <4>3
    <3> QED BY <2>8, <2>13, <3>1, <3>2
  <2>14. ASSUME NEW d \in TextDevices, \A v \in Text!Virtuals : d \notin Text!Drawn(all[v])
         PROVE  last[d] = textMode[d]
    <3>1. d \notin Text!Drawn(o) /\ d \notin Text!Drawn(e)
      BY <1>1, <2>14 DEF o, e
    <3> QED BY <2>7, <2>8, <2>9, <2>10, <3>1
  <2>15. to.con \in [Text!Virtuals -> Text!Privates]
    BY <1>1, <2>2, <2>5, <2>9, <2>10
  <2>16. ASSUME NEW v \in Text!Virtuals
         PROVE  /\ Tables(to.con[v]) /\ to.con[v].list = all[v].list
                /\ Text!Drawn(to.con[v]) = Text!Drawn(all[v])
                /\ to.con[v].colour = all[v].colour
    <3>1. CASE v = "ConOut"
      BY <2>2, <2>5, <2>7, <2>9, <3>1 DEF o
    <3>2. CASE v = "StdErr"
      BY <2>2, <2>5, <2>8, <2>10, <3>2 DEF e
    <3> QED BY <1>1, <3>1, <3>2
  <2>17. ASSUME Text!Drawn(all["ConOut"]) \cap Text!Drawn(all["StdErr"]) \subseteq out,
                NEW w \in Text!Virtuals, InMode(all[w], textMode, out)
         PROVE  InMode(to.con[w], to.mode, out)
    <3>1. CASE w = "ConOut"
      BY <2>2, <2>5, <2>12, <2>17, <3>1 DEF o, e
    <3>2. CASE w = "StdErr"
      BY <2>2, <2>5, <2>13, <2>17, <3>2 DEF o, e
    <3> QED BY <1>1, <3>1, <3>2
  <2> QED BY <2>2, <2>10, <2>14, <2>15, <2>16, <2>17
<1> QED BY <1>3, <1>4

\* The inductive invariant, of the consoles c, the modes m and colours k of the
\* devices, and the histories s and l: the tables are sound, devices for both
\* consoles are taken for lagging, and the others are as their console has it.
TextSound(c, m, k, s, l) ==
    /\ c \in [Text!Virtuals -> Text!Privates]
    /\ m \in [TextDevices -> Nat] /\ k \in [TextDevices -> TextColours]
    /\ s \subseteq Text!Virtuals /\ l \subseteq TextDevices
    /\ \A v \in Text!Virtuals : Tables(c[v])
    /\ Text!Drawn(c["StdErr"]) \subseteq ErrDevices
    /\ Text!Drawn(c["ConOut"]) \cap Text!Drawn(c["StdErr"]) \subseteq l
    /\ \A v \in Text!Virtuals \ s : InMode(c[v], m, l)
    /\ \A d \in Text!Drawn(c["ConOut"]) \ ErrDevices : k[d] = c["ConOut"].colour
TextInv == TextSound(con, textMode, textColour, stale, lagging)

\* The invariant of the next state, by the names of its values.
LEMMA TextAfter ==
    ASSUME NEW c, c = con', NEW m, m = textMode', NEW k, k = textColour',
           NEW s, s = stale', NEW l, l = lagging', TextSound(c, m, k, s, l)
    PROVE  TextInv'
<1>1. TextSound(con', textMode', textColour', stale', lagging')
  OBVIOUS
<1> QED BY <1>1 DEF TextInv

\* What the invariant says of a console and of the other.
LEMMA TextIs ==
    ASSUME TextInv
    PROVE  /\ con \in [Text!Virtuals -> Text!Privates]
           /\ textMode \in [TextDevices -> Nat] /\ textColour \in [TextDevices -> TextColours]
           /\ stale \subseteq Text!Virtuals /\ lagging \subseteq TextDevices
           /\ Text!Virtuals = {"ConOut", "StdErr"}
           /\ \A v \in Text!Virtuals :
                /\ con[v] \in Text!Privates /\ Tables(con[v])
                /\ Text!Drawn(con[v]) \subseteq TextDevices
           /\ \A v, w \in Text!Virtuals : v # w =>
                /\ Text!Others(v) = Text!Drawn(con[w])
                /\ Text!Drawn(con[v]) \cap Text!Drawn(con[w]) \subseteq lagging
<1>1. /\ con \in [Text!Virtuals -> Text!Privates]
      /\ textMode \in [TextDevices -> Nat] /\ textColour \in [TextDevices -> TextColours]
      /\ stale \subseteq Text!Virtuals /\ lagging \subseteq TextDevices
  BY DEF TextInv, TextSound
<1>2. Text!Virtuals = {"ConOut", "StdErr"}
  BY DEF Text!Virtuals
<1>3. ASSUME NEW v \in Text!Virtuals
      PROVE  con[v] \in Text!Privates /\ Tables(con[v]) /\ Text!Drawn(con[v]) \subseteq TextDevices
  <2>1. con[v] \in Text!Privates
    BY <1>1
  <2>2. Tables(con[v])
    BY DEF TextInv, TextSound
  <2> QED BY <2>1, <2>2, DrawnIs
<1>4. ASSUME NEW v \in Text!Virtuals, NEW w \in Text!Virtuals, v # w
      PROVE  /\ Text!Others(v) = Text!Drawn(con[w])
             /\ Text!Drawn(con[v]) \cap Text!Drawn(con[w]) \subseteq lagging
  <2>1. Text!Virtuals \ {v} = {w}
    BY <1>2, <1>4
  <2>2. Text!Others(v) = Text!Drawn(con[w])
    BY <2>1 DEF Text!Others
  <2>3. Text!Drawn(con["ConOut"]) \cap Text!Drawn(con["StdErr"]) \subseteq lagging
    BY DEF TextInv, TextSound
  <2> QED BY <1>2, <1>4, <2>2, <2>3
<1> QED BY <1>1, <1>2, <1>3, <1>4

\* A console with its cursor and colour anew.
LEMMA AnewKeeps ==
    ASSUME NEW c \in Text!Privates, Tables(c), NEW g \in Text!Privates,
           g.list = c.list, g.cap = c.cap, g.query = c.query,
           g.map = c.map, g.max = c.max, g.mode = c.mode,
           c.list = <<>> => g.cursor[1] < Size25[1] /\ g.cursor[2] < Size25[2]
    PROVE  /\ Tables(g) /\ Text!Drawn(g) = Text!Drawn(c)
           /\ \A n : Text!QueryMode(g, n) = Text!QueryMode(c, n)
<1>1. /\ g.list = c.list /\ g.cap = c.cap /\ g.query = c.query
      /\ g.map = c.map /\ g.max = c.max /\ g.mode = c.mode
  OBVIOUS
<1>2. \A n : Text!QueryMode(g, n) = Text!QueryMode(c, n)
  BY <1>1 DEF Text!QueryMode
<1>3. CASE c.list = <<>>
  <2>1. Deserted(g)
    BY <1>1, <1>3 DEF Tables, Deserted
  <2> QED BY <1>1, <1>2, <1>3, <2>1 DEF Tables, Text!Drawn
<1>4. CASE c.list # <<>>
  <2> DEFINE l == c.list
             k0 == Len(l)
             rows == 1 .. c.max
  <2>1. k0 \in Nat /\ k0 <= Len(l) /\ Numbers(c) /\ Told(c, l, k0, rows)
    BY <1>4, PrivateIs DEF Tables
  <2> HIDE DEF l, k0, rows
  <2>2. Numbers(g) /\ Told(g, l, k0, rows)
    BY <1>1, <2>1, SameTold
  <2> QED BY <1>1, <1>2, <1>4, <2>2 DEF Tables, Text!Drawn, l, k0, rows
<1> QED BY <1>3, <1>4

\* A device that is started on keeps the invariant.
LEMMA TextStartKeeps ==
    ASSUME TextInv, NEW v \in Text!Virtuals, NEW d \in TextDevices,
           v = "StdErr" => d \in ErrDevices, Text!Start(v, d)
    PROVE  TextInv'
<1>1. /\ con \in [Text!Virtuals -> Text!Privates]
      /\ textMode \in [TextDevices -> Nat] /\ textColour \in [TextDevices -> TextColours]
      /\ stale \subseteq Text!Virtuals /\ lagging \subseteq TextDevices
      /\ Text!Virtuals = {"ConOut", "StdErr"}
      /\ \A w \in Text!Virtuals :
           con[w] \in Text!Privates /\ Tables(con[w]) /\ Text!Drawn(con[w]) \subseteq TextDevices
  BY TextIs
<1>2. PICK w \in Text!Virtuals :
        w # v /\ Text!Others(v) = Text!Drawn(con[w]) /\ \A x \in Text!Virtuals : x = v \/ x = w
  <2>1. \E w \in Text!Virtuals : w # v /\ \A x \in Text!Virtuals : x = v \/ x = w
    BY <1>1
  <2> QED BY <2>1, TextIs
<1> DEFINE shown == Text!Drawn(con[v]) \cup {d}
           old == [con EXCEPT ![v] = Text!Added(con[v], d)]
           out == lagging \cup shown
<1>3. /\ d \notin Text!Drawn(con[v])
      /\ textColour' = [e \in TextDevices |-> IF e \in shown THEN Gray ELSE textColour[e]]
      /\ stale' = stale \ {v}
      /\ lagging' = (lagging \ shown) \cup (Text!Others(v) \cap shown)
  BY DEF Text!Start
<1>4. PICK to \in Text!Between(old) :
        /\ con' = [[to.con EXCEPT ![v] = Text!TextOutSetMode(@, Text!PreferMode(to.con[v]))]
                     EXCEPT ![v].colour = Gray]
        /\ textMode' = Text!Sent(to.con[v], Text!PreferMode(to.con[v]), to.mode, {})
  <2> DEFINE P(x) == Text!PreferMode(x.con[v])
             C(x) == [x.con EXCEPT ![v] = Text!TextOutSetMode(@, P(x))]
             M(x) == Text!Sent(x.con[v], P(x), x.mode, {})
  <2>1. PICK t \in Text!TextOutAddDevice(v, d) :
          con' = [t.con EXCEPT ![v].colour = Gray] /\ textMode' = t.mode
    BY DEF Text!Start
  <2>2. Text!TextOutAddDevice(v, d) = {[con |-> C(x), mode |-> M(x)] : x \in Text!Between(old)}
    BY DEF Text!TextOutAddDevice
  <2> HIDE DEF C, M, old
  <2>3. PICK to \in Text!Between(old) : t = [con |-> C(to), mode |-> M(to)]
    BY <2>2
  <2>4. t.con = C(to) /\ t.mode = M(to)
    BY <2>3
  <2>5. con' = [C(to) EXCEPT ![v].colour = Gray] /\ textMode' = M(to)
    BY <2>1, <2>4
  <2> QED BY <2>5 DEF C, M
<1> DEFINE a == Text!Added(con[v], d)
<1>5. /\ a \in Text!Privates /\ Tables(a) /\ a.list # <<>> /\ Text!Drawn(a) = shown
      /\ a.colour = con[v].colour
  BY <1>1, <1>3, AddedKeeps
<1>6. old \in [Text!Virtuals -> Text!Privates] /\ old[v] = a /\ old[w] = con[w]
  BY <1>1, <1>2, <1>5
<1> HIDE DEF old, a, shown, out
<1>7. \A x \in Text!Virtuals : Tables(old[x])
  BY <1>1, <1>2, <1>5, <1>6
<1>8. Text!Drawn(old["ConOut"]) \cap Text!Drawn(old["StdErr"]) \subseteq out
  <2>1. Text!Drawn(old["ConOut"]) = shown \/ Text!Drawn(old["StdErr"]) = shown
    BY <1>1, <1>5, <1>6
  <2> QED BY <2>1 DEF out
<1>9. /\ to.con \in [Text!Virtuals -> Text!Privates] /\ to.mode \in [TextDevices -> Nat]
      /\ \A x \in Text!Virtuals :
           /\ Tables(to.con[x]) /\ to.con[x].list = old[x].list
           /\ Text!Drawn(to.con[x]) = Text!Drawn(old[x])
           /\ to.con[x].colour = old[x].colour
      /\ \A x \in Text!Virtuals :
           InMode(old[x], textMode, out) => InMode(to.con[x], to.mode, out)
  BY <1>1, <1>6, <1>7, <1>8, BetweenKeeps
<1> DEFINE b == to.con[v]
           n == Text!PreferMode(b)
           set == Text!TextOutSetMode(b, n)
           g == [set EXCEPT !.colour = Gray]
           h == to.con[w]
           m == Text!Sent(b, n, to.mode, {})
<1>10. b \in Text!Privates /\ Tables(b) /\ b.list # <<>> /\ Text!Drawn(b) = shown
  BY <1>5, <1>6, <1>9
<1>11. /\ h \in Text!Privates /\ Tables(h) /\ Text!Drawn(h) = Text!Drawn(con[w])
       /\ h.colour = con[w].colour
  BY <1>6, <1>9
<1>12. /\ con' = [to.con EXCEPT ![v] = g] /\ textMode' = m
  BY <1>4, <1>9
<1> HIDE DEF b, h
<1>13. n \in 0 .. b.max - 1
  <2>1. Numbers(b)
    BY <1>10 DEF Tables
  <2> QED BY <1>10, <2>1, PreferIs
<1> HIDE DEF n
<1>14. /\ set \in Text!Privates /\ Tables(set) /\ set.list = b.list
       /\ Text!Drawn(set) = shown /\ set.mode = n /\ set.max = b.max
       /\ \A i : Text!QueryMode(set, i) = Text!QueryMode(b, i)
  BY <1>10, <1>13, ModeSetKeeps
<1>15. /\ m \in [TextDevices -> Nat]
       /\ \A e \in TextDevices \ shown : m[e] = to.mode[e]
       /\ Text!QueryMode(b, n) # Text!NoSize =>
            \A e \in shown \ {} : TextModes[e][m[e] + 1] = Text!QueryMode(b, n)
  BY SMTT(40), <1>9, <1>10, <1>13, SentIs
<1> HIDE DEF set, m
<1>16. Gray \in TextColours
  BY OutputAssumption DEF Text!OutAssumption
<1>17. /\ g \in Text!Privates /\ Tables(g) /\ Text!Drawn(g) = shown /\ g.colour = Gray
       /\ InMode(g, m, lagging')
  <2> DEFINE T == Seq(Seq(Int))
  <2>1. set \in [list : Seq(TextDevices), cap : Nat, query : Seq(TextSize), map : T,
                 max : Nat, mode : Int, cursor : TextSize, colour : TextColours]
    BY <1>14 DEF Text!Privates, TextSize
  <2> HIDE DEF T
  <2>2. /\ g \in [list : Seq(TextDevices), cap : Nat, query : Seq(TextSize), map : T,
                  max : Nat, mode : Int, cursor : TextSize, colour : TextColours]
        /\ g.list = set.list /\ g.cap = set.cap /\ g.query = set.query
        /\ g.map = set.map /\ g.max = set.max /\ g.mode = set.mode /\ g.colour = Gray
    BY <1>16, <2>1
  <2>3. g \in Text!Privates /\ g.list # <<>>
    BY <1>10, <1>14, <2>2 DEF Text!Privates, TextSize, T
  <2> HIDE DEF g
  <2>4. /\ Tables(g) /\ Text!Drawn(g) = shown
        /\ \A i : Text!QueryMode(g, i) = Text!QueryMode(set, i)
    BY <1>14, <2>2, <2>3, AnewKeeps
  <2>5. InMode(g, m, lagging')
    BY <1>13, <1>14, <1>15, <2>2, <2>4 DEF InMode
  <2> QED BY <2>2, <2>3, <2>4, <2>5
<1> HIDE DEF g
<1>18. ASSUME w \notin stale
       PROVE  InMode(h, m, lagging')
  <2>1. InMode(con[w], textMode, lagging)
    BY <1>18 DEF TextInv, TextSound
  <2>2. InMode(con[w], textMode, out)
    BY <2>1 DEF InMode, out
  <2>3. InMode(h, to.mode, out)
    BY <1>6, <1>9, <2>2 DEF h
  <2>4. ASSUME NEW e \in Text!Drawn(h) \ lagging'
        PROVE  e \notin out /\ m[e] = to.mode[e]
    <3>1. e \in Text!Drawn(con[w]) /\ e \in TextDevices
      BY <1>1, <1>11, <2>4
    <3>2. e \notin shown /\ e \notin lagging
      BY <1>2, <1>3, <2>4, <3>1
    <3> QED BY <1>15, <3>1, <3>2 DEF out
  <2>5. h.mode \in 0 .. h.max - 1
    BY <2>3 DEF InMode
  <2> DEFINE l == lagging'
  <2>6. \A e \in Text!Drawn(h) \ l : e \notin out /\ m[e] = to.mode[e]
    BY <2>4
  <2> HIDE DEF l
  <2>7. InMode(h, m, l)
    BY <1>11, <2>3, <2>5, <2>6, InModeStays
  <2> QED BY <2>7 DEF l
<1> DEFINE c == [to.con EXCEPT ![v] = g]
           l == (lagging \ shown) \cup (Text!Drawn(con[w]) \cap shown)
           k == [e \in TextDevices |-> IF e \in shown THEN Gray ELSE textColour[e]]
           s == stale \ {v}
<1>19. c = con' /\ m = textMode' /\ k = textColour' /\ s = stale' /\ l = lagging'
  BY <1>2, <1>3, <1>12
<1>20. c \in [Text!Virtuals -> Text!Privates] /\ c[v] = g /\ c[w] = h
  BY <1>2, <1>9, <1>17 DEF h
<1>21. /\ k \in [TextDevices -> TextColours] /\ s \in SUBSET Text!Virtuals
       /\ l \in SUBSET TextDevices
  BY <1>1, <1>16
<1>22. InMode(g, m, l) /\ (w \notin stale => InMode(h, m, l))
  BY <1>17, <1>18, <1>19
<1> HIDE DEF c
<1>23. \A x \in Text!Virtuals : Tables(c[x])
  BY <1>2, <1>11, <1>17, <1>20
<1>24. \A x \in Text!Virtuals \ s : InMode(c[x], m, l)
  <2> HIDE DEF l
  <2> QED BY <1>2, <1>20, <1>22
<1>25. Text!Drawn(c["StdErr"]) \subseteq ErrDevices
  <2>1. Text!Drawn(con["StdErr"]) \subseteq ErrDevices
    BY DEF TextInv, TextSound
  <2>2. CASE v = "StdErr"
    BY <1>17, <1>20, <2>1, <2>2 DEF shown
  <2>3. CASE w = "StdErr"
    BY <1>11, <1>20, <2>1, <2>3
  <2> QED BY <1>1, <1>2, <2>2, <2>3
<1>26. Text!Drawn(c["ConOut"]) \cap Text!Drawn(c["StdErr"]) \subseteq l
  <2>1. Text!Drawn(g) \cap Text!Drawn(h) \subseteq l
    BY <1>11, <1>17
  <2> HIDE DEF l
  <2>2. CASE v = "StdErr" /\ w = "ConOut"
    BY <1>20, <2>1, <2>2
  <2>3. CASE w = "StdErr" /\ v = "ConOut"
    BY <1>20, <2>1, <2>3
  <2> QED BY <1>1, <1>2, <2>2, <2>3
<1>27. \A e \in Text!Drawn(c["ConOut"]) \ ErrDevices : k[e] = c["ConOut"].colour
  <2>1. CASE v = "ConOut"
    <3>1. shown \subseteq TextDevices
      BY <1>1 DEF shown
    <3> QED BY <1>17, <1>20, <2>1, <3>1
  <2>2. CASE w = "ConOut" /\ v = "StdErr"
    <3>1. shown \subseteq ErrDevices
      BY <2>2 DEF TextInv, TextSound, shown
    <3>2. \A e \in Text!Drawn(con["ConOut"]) \ ErrDevices : textColour[e] = con["ConOut"].colour
      BY DEF TextInv, TextSound
    <3>3. Text!Drawn(con["ConOut"]) \subseteq TextDevices
      BY <1>1
    <3> QED BY <1>11, <1>20, <2>2, <3>1, <3>2, <3>3
  <2> QED BY <1>1, <1>2, <2>1, <2>2
<1> HIDE DEF k, s, l
<1>28. m \in [TextDevices -> Nat]
  BY <1>15
<1>29. TextSound(c, m, k, s, l)
  BY <1>20, <1>21, <1>23, <1>24, <1>25, <1>26, <1>27, <1>28 DEF TextSound
<1> QED BY <1>19, <1>29, TextAfter

\* Console g shows the devices of a, in the same mode; its cursor may be elsewhere.
ShowsSame(g, a) ==
    /\ g \in Text!Privates /\ g.list = a.list /\ g.cap = a.cap /\ g.query = a.query
    /\ g.map = a.map /\ g.max = a.max /\ g.mode = a.mode
    /\ a.list = <<>> => g.cursor[1] < Size25[1] /\ g.cursor[2] < Size25[2]

\* The devices' colours become to: those of g that had another than a's get its own.
Coloured(to, g, a) ==
    /\ to \in [TextDevices -> TextColours]
    /\ \A d \in TextDevices :
          \/ to[d] = textColour[d] /\ (d \in Text!Drawn(a) => g.colour = a.colour)
          \/ to[d] = g.colour /\ d \in Text!Drawn(a)

\* The console v is another that shows the same devices in the same mode.
LEMMA ConsoleAnew ==
    ASSUME TextInv, NEW v \in Text!Virtuals, NEW g, ShowsSame(g, con[v]),
           con' = [con EXCEPT ![v] = g], UNCHANGED <<textMode, stale, lagging>>,
           NEW to, Coloured(to, g, con[v]), textColour' = to
    PROVE  TextInv'
<1>0. /\ g \in Text!Privates /\ to \in [TextDevices -> TextColours]
      /\ \A d \in TextDevices :
            \/ to[d] = textColour[d] /\ (d \in Text!Drawn(con[v]) => g.colour = con[v].colour)
            \/ to[d] = g.colour /\ d \in Text!Drawn(con[v])
  BY DEF ShowsSame, Coloured
<1>1. /\ con \in [Text!Virtuals -> Text!Privates]
      /\ textMode \in [TextDevices -> Nat] /\ textColour \in [TextDevices -> TextColours]
      /\ stale \subseteq Text!Virtuals /\ lagging \subseteq TextDevices
      /\ Text!Virtuals = {"ConOut", "StdErr"}
      /\ \A w \in Text!Virtuals :
           con[w] \in Text!Privates /\ Tables(con[w]) /\ Text!Drawn(con[w]) \subseteq TextDevices
  BY TextIs
<1> DEFINE c == [con EXCEPT ![v] = g]
<1>2. /\ Tables(g) /\ Text!Drawn(g) = Text!Drawn(con[v])
      /\ g.mode = con[v].mode /\ g.max = con[v].max
      /\ \A n : Text!QueryMode(g, n) = Text!QueryMode(con[v], n)
  <2> DEFINE a == con[v]
  <2>1. a \in Text!Privates /\ Tables(a)
    BY <1>1
  <2>2. /\ g.list = a.list /\ g.cap = a.cap /\ g.query = a.query
        /\ g.map = a.map /\ g.max = a.max /\ g.mode = a.mode
        /\ a.list = <<>> => g.cursor[1] < Size25[1] /\ g.cursor[2] < Size25[2]
    BY DEF ShowsSame
  <2> HIDE DEF a
  <2>3. /\ Tables(g) /\ Text!Drawn(g) = Text!Drawn(a)
        /\ \A n : Text!QueryMode(g, n) = Text!QueryMode(a, n)
    BY <1>0, <2>1, <2>2, AnewKeeps
  <2> QED BY <2>2, <2>3 DEF a
<1>3. c = con' /\ to = textColour' /\ to \in [TextDevices -> TextColours]
  BY <1>0
<1>4. /\ c \in [Text!Virtuals -> Text!Privates] /\ c[v] = g
      /\ \A w \in Text!Virtuals : w # v => c[w] = con[w]
  BY <1>0, <1>1, <1>2
<1> HIDE DEF c
<1>5. \A w \in Text!Virtuals : Tables(c[w]) /\ Text!Drawn(c[w]) = Text!Drawn(con[w])
  BY <1>1, <1>2, <1>4
<1>6. /\ Text!Drawn(c["StdErr"]) \subseteq ErrDevices
      /\ Text!Drawn(c["ConOut"]) \cap Text!Drawn(c["StdErr"]) \subseteq lagging
  BY <1>1, <1>5 DEF TextInv, TextSound
<1>7. ASSUME NEW w \in Text!Virtuals \ stale
      PROVE  InMode(c[w], textMode, lagging)
  <2>1. InMode(con[w], textMode, lagging)
    BY DEF TextInv, TextSound
  <2>2. CASE w = v
    BY <1>2, <1>4, <2>1, <2>2 DEF InMode
  <2>3. CASE w # v
    BY <1>4, <2>1, <2>3
  <2> QED BY <2>2, <2>3
<1>8. ASSUME NEW d \in Text!Drawn(c["ConOut"]) \ ErrDevices
      PROVE  to[d] = c["ConOut"].colour
  <2>1. /\ d \in Text!Drawn(con["ConOut"]) /\ d \in TextDevices
        /\ textColour[d] = con["ConOut"].colour
    BY <1>1, <1>5, <1>8 DEF TextInv, TextSound
  <2>2. CASE v = "ConOut"
    BY <1>0, <1>2, <1>4, <2>1, <2>2
  <2>3. CASE v = "StdErr"
    <3>1. d \notin Text!Drawn(con[v])
      BY <1>8, <2>3 DEF TextInv, TextSound
    <3> QED BY <1>0, <1>1, <1>4, <2>1, <2>3, <3>1
  <2> QED BY <1>1, <2>2, <2>3
<1> DEFINE m == textMode
           s == stale
           l == lagging
<1>9. /\ m = textMode' /\ s = stale' /\ l = lagging'
      /\ m \in [TextDevices -> Nat] /\ s \in SUBSET Text!Virtuals /\ l \in SUBSET TextDevices
      /\ Text!Drawn(c["ConOut"]) \cap Text!Drawn(c["StdErr"]) \subseteq l
      /\ \A w \in Text!Virtuals \ s : InMode(c[w], m, l)
  BY <1>1, <1>6, <1>7
<1> HIDE DEF m, s, l
<1>10. /\ \A w \in Text!Virtuals : Tables(c[w])
       /\ Text!Drawn(c["StdErr"]) \subseteq ErrDevices
       /\ \A d \in Text!Drawn(c["ConOut"]) \ ErrDevices : to[d] = c["ConOut"].colour
  BY <1>5, <1>6, <1>8
<1>11. TextSound(c, m, to, s, l)
  BY <1>3, <1>4, <1>9, <1>10 DEF TextSound
<1> QED BY <1>3, <1>9, <1>11, TextAfter

\* The console v is set to mode n, and its devices, but for those that fail, are
\* where m has them.
LEMMA ConsoleModeSet ==
    ASSUME TextInv, NEW v \in Text!Virtuals, NEW n \in 0 .. con[v].max - 1,
           NEW m \in [TextDevices -> Nat], NEW failing, failing \subseteq TextDevices,
           \A d \in TextDevices \ Text!Drawn(con[v]) : m[d] = textMode[d],
           Text!QueryMode(con[v], n) # Text!NoSize =>
             \A d \in Text!Drawn(con[v]) \ failing :
                TextModes[d][m[d] + 1] = Text!QueryMode(con[v], n),
           con' = [con EXCEPT ![v] = Text!TextOutSetMode(@, n)], textMode' = m,
           lagging' = (lagging \ Text!Drawn(con[v])) \cup failing
                        \cup (Text!Others(v) \cap Text!Drawn(con[v])),
           stale' = stale \ {v},
           NEW k \in [TextDevices -> TextColours], textColour' = k,
           \A d \in TextDevices :
             \/ k[d] = textColour[d]
             \/ k[d] = con[v].colour /\ d \in Text!Drawn(con[v])
    PROVE  TextInv'
<1>1. /\ con \in [Text!Virtuals -> Text!Privates]
      /\ textMode \in [TextDevices -> Nat] /\ textColour \in [TextDevices -> TextColours]
      /\ stale \subseteq Text!Virtuals /\ lagging \subseteq TextDevices
      /\ Text!Virtuals = {"ConOut", "StdErr"}
      /\ \A w \in Text!Virtuals :
           con[w] \in Text!Privates /\ Tables(con[w]) /\ Text!Drawn(con[w]) \subseteq TextDevices
  BY TextIs
<1>2. PICK w \in Text!Virtuals :
        w # v /\ Text!Others(v) = Text!Drawn(con[w]) /\ \A x \in Text!Virtuals : x = v \/ x = w
  <2>1. \E w \in Text!Virtuals : w # v /\ \A x \in Text!Virtuals : x = v \/ x = w
    BY <1>1
  <2> QED BY <2>1, TextIs
<1> DEFINE a == con[v]
           shown == Text!Drawn(a)
           g == Text!TextOutSetMode(a, n)
           c == [con EXCEPT ![v] = g]
           s == stale \ {v}
           l == (lagging \ shown) \cup failing \cup (Text!Drawn(con[w]) \cap shown)
<1>3. /\ g \in Text!Privates /\ Tables(g) /\ g.list = a.list /\ g.colour = a.colour
      /\ Text!Drawn(g) = shown
      /\ g.mode = n /\ g.max = a.max
      /\ \A i : Text!QueryMode(g, i) = Text!QueryMode(a, i)
  BY <1>1, ModeSetKeeps
<1>4. a.colour \in TextColours
  BY <1>1, PrivateIs
<1>5. c = con' /\ k = textColour' /\ s = stale' /\ l = lagging'
  BY <1>2
<1>6. /\ k \in [TextDevices -> TextColours] /\ s \in SUBSET Text!Virtuals
      /\ l \in SUBSET TextDevices
  BY <1>1, <1>4
<1> HIDE DEF g
<1>7. c \in [Text!Virtuals -> Text!Privates] /\ c[v] = g /\ c[w] = con[w]
  BY <1>1, <1>2, <1>3
<1> HIDE DEF c
<1>8. \A x \in Text!Virtuals : Tables(c[x]) /\ Text!Drawn(c[x]) = Text!Drawn(con[x])
  BY <1>1, <1>2, <1>3, <1>7
<1>9. Text!Drawn(c["StdErr"]) \subseteq ErrDevices
  BY <1>1, <1>8 DEF TextInv, TextSound
<1>10. Text!Drawn(c["ConOut"]) \cap Text!Drawn(c["StdErr"]) \subseteq l
  <2>1. shown \cap Text!Drawn(con[w]) \subseteq l
    OBVIOUS
  <2> HIDE DEF l
  <2>2. CASE v = "StdErr" /\ w = "ConOut"
    BY <1>8, <2>1, <2>2
  <2>3. CASE w = "StdErr" /\ v = "ConOut"
    BY <1>8, <2>1, <2>3
  <2> QED BY <1>1, <1>2, <2>2, <2>3
<1>11. InMode(g, m, l)
  <2>1. \A d \in shown \ l : d \notin failing
    OBVIOUS
  <2> HIDE DEF l
  <2> QED BY <1>3, <2>1 DEF InMode
<1>12. ASSUME w \notin stale
       PROVE  InMode(con[w], m, l)
  <2> DEFINE h == con[w]
  <2>1. InMode(h, textMode, lagging)
    BY <1>12 DEF TextInv, TextSound
  <2>2. h \in Text!Privates /\ Text!Drawn(h) \subseteq TextDevices
    BY <1>1
  <2>3. \A d \in Text!Drawn(h) \ l : d \notin lagging /\ m[d] = textMode[d]
    BY <2>2
  <2>4. h.mode \in 0 .. h.max - 1
    BY <2>1 DEF InMode
  <2> HIDE DEF h, l
  <2>5. InMode(h, m, l)
    BY <2>1, <2>2, <2>3, <2>4, InModeStays
  <2> QED BY <2>5 DEF h
<1>13. \A x \in Text!Virtuals \ s : InMode(c[x], m, l)
  <2> HIDE DEF l
  <2> QED BY <1>2, <1>7, <1>11, <1>12
<1>14. ASSUME NEW d \in Text!Drawn(c["ConOut"]) \ ErrDevices
       PROVE  k[d] = c["ConOut"].colour
  <2>1. /\ d \in Text!Drawn(con["ConOut"]) /\ d \in TextDevices
        /\ textColour[d] = con["ConOut"].colour
    BY <1>1, <1>8, <1>14 DEF TextInv, TextSound
  <2>2. CASE v = "ConOut"
    BY <1>3, <1>7, <2>1, <2>2
  <2>3. CASE v = "StdErr" /\ w = "ConOut"
    <3>1. d \notin Text!Drawn(con[v])
      BY <1>14, <2>3 DEF TextInv, TextSound
    <3> QED BY <1>7, <2>1, <2>3, <3>1
  <2> QED BY <1>1, <1>2, <2>2, <2>3
<1> DEFINE mm == m
<1>15. /\ mm = textMode' /\ mm \in [TextDevices -> Nat]
       /\ \A x \in Text!Virtuals \ s : InMode(c[x], mm, l)
  BY <1>13
<1> HIDE DEF s, l, mm
<1>16. \A x \in Text!Virtuals : Tables(c[x])
  BY <1>8
<1>17. \A d \in Text!Drawn(c["ConOut"]) \ ErrDevices : k[d] = c["ConOut"].colour
  BY <1>14
<1>18. TextSound(c, mm, k, s, l)
  BY <1>6, <1>7, <1>9, <1>10, <1>15, <1>16, <1>17 DEF TextSound
<1> QED BY <1>5, <1>15, <1>18, TextAfter

\* Consoles with fewer devices, each still in its mode and colour.
LEMMA FewerSound ==
    ASSUME TextInv, NEW c \in [Text!Virtuals -> Text!Privates],
           NEW m \in [TextDevices -> Nat], NEW s \in SUBSET Text!Virtuals,
           \A x \in Text!Virtuals :
             /\ Tables(c[x]) /\ Text!Drawn(c[x]) \subseteq Text!Drawn(con[x])
             /\ c[x].colour = con[x].colour,
           \A x \in Text!Virtuals \ s : InMode(c[x], m, lagging)
    PROVE  TextSound(c, m, textColour, s, lagging)
<1>1. /\ textColour \in [TextDevices -> TextColours] /\ lagging \subseteq TextDevices
      /\ Text!Virtuals = {"ConOut", "StdErr"}
  BY TextIs
<1>2. Text!Drawn(c["StdErr"]) \subseteq ErrDevices
  BY <1>1 DEF TextInv, TextSound
<1>3. Text!Drawn(c["ConOut"]) \cap Text!Drawn(c["StdErr"]) \subseteq lagging
  BY <1>1 DEF TextInv, TextSound
<1>4. \A d \in Text!Drawn(c["ConOut"]) \ ErrDevices : textColour[d] = c["ConOut"].colour
  BY <1>1 DEF TextInv, TextSound
<1> QED BY <1>1, <1>2, <1>3, <1>4 DEF TextSound

\* The last device of a console is gone.
LEMMA EmptiedKeeps ==
    ASSUME NEW c \in Text!Privates, Tables(c), c.list # <<>>,
           NEW g, g = Text!Emptied(c), NEW m, NEW out
    PROVE  /\ g \in Text!Privates /\ Tables(g) /\ g.colour = c.colour
           /\ Text!Drawn(g) = {} /\ InMode(g, m, out)
<1> DEFINE T == Seq(Seq(Int))
           none == <<>>
           zero == <<0, 0>>
           q == [c.query EXCEPT ![1] = Size25]
<1>1. c \in [list : Seq(TextDevices), cap : Nat, query : Seq(TextSize), map : T,
             max : Nat, mode : Int, cursor : TextSize, colour : TextColours]
  BY DEF Text!Privates, TextSize
<1>2. /\ zero \in TextSize /\ zero[1] = 0 /\ zero[2] = 0
      /\ none \in Seq(TextDevices) /\ Len(none) = 0 /\ DOMAIN none = {}
  BY DEF TextSize
<1>3. Numbers(c) /\ c.cap >= 2
  BY DEF Tables
<1>4. q \in Seq(TextSize) /\ Len(q) = Len(c.query) /\ q[1] = Size25 /\ Len(q) >= 2
  <2> DEFINE s == c.query
  <2>1. s \in Seq(TextSize) /\ Len(s) >= 2 /\ Size25 \in TextSize
    BY <1>3, PrivateIs, TextSizes DEF Numbers
  <2> HIDE DEF s
  <2>2. 1 \in 1 .. Len(s) /\ DOMAIN s = 1 .. Len(s)
    BY <2>1, LenProperties
  <2>3. /\ [s EXCEPT ![1] = Size25] \in Seq(TextSize)
        /\ Len([s EXCEPT ![1] = Size25]) = Len(s) /\ [s EXCEPT ![1] = Size25][1] = Size25
    BY <2>1, <2>2, ExceptSeq
  <2> QED BY <2>1, <2>3 DEF s
<1> DEFINE b == [c EXCEPT !.list = none, !.max = 1, !.query = q]
<1>5. g = [b EXCEPT !.mode = 0, !.cursor = zero]
  BY <1>1 DEF Text!Emptied, Text!TextOutSetMode
<1> HIDE DEF T, none, zero, q
<1>6. /\ g \in [list : Seq(TextDevices), cap : Nat, query : Seq(TextSize), map : T,
                max : Nat, mode : Int, cursor : TextSize, colour : TextColours]
      /\ g.list = none /\ g.cap = c.cap /\ g.query = q /\ g.map = c.map /\ g.max = 1
      /\ g.mode = 0 /\ g.cursor = zero /\ g.colour = c.colour
  <2> DEFINE L == Seq(TextDevices)
             Q == Seq(TextSize)
  <2>1. /\ c \in [list : L, cap : Nat, query : Q, map : T,
                  max : Nat, mode : Int, cursor : TextSize, colour : TextColours]
        /\ none \in L /\ zero \in TextSize /\ q \in Q
    BY <1>1, <1>2, <1>4
  <2> HIDE DEF L, Q
  <2>2. /\ b \in [list : L, cap : Nat, query : Q, map : T,
                  max : Nat, mode : Int, cursor : TextSize, colour : TextColours]
        /\ b.list = none /\ b.cap = c.cap /\ b.query = q /\ b.map = c.map /\ b.max = 1
        /\ b.colour = c.colour
    BY <2>1
  <2> HIDE DEF b
  <2>3. /\ g \in [list : L, cap : Nat, query : Q, map : T,
                  max : Nat, mode : Int, cursor : TextSize, colour : TextColours]
        /\ g.list = b.list /\ g.cap = b.cap /\ g.query = b.query /\ g.map = b.map
        /\ g.max = b.max /\ g.mode = 0 /\ g.cursor = zero /\ g.colour = b.colour
    <3>1. b \in [list : L, cap : Nat, query : Q, map : T,
                 max : Nat, mode : Int, cursor : TextSize, colour : TextColours]
      BY <2>2
    <3> DEFINE nought == 0
    <3>2. zero \in TextSize /\ nought \in Int
      BY <2>1
    <3>3. g = [b EXCEPT !.mode = nought, !.cursor = zero]
      BY <1>5
    <3> HIDE DEF nought
    <3>4. /\ g \in [list : L, cap : Nat, query : Q, map : T,
                    max : Nat, mode : Int, cursor : TextSize, colour : TextColours]
          /\ g.list = b.list /\ g.cap = b.cap /\ g.query = b.query /\ g.map = b.map
          /\ g.max = b.max /\ g.mode = nought /\ g.cursor = zero /\ g.colour = b.colour
      BY <3>1, <3>2, <3>3
    <3> QED BY <3>4 DEF nought
  <2> QED BY <2>2, <2>3 DEF L, Q
<1>7. g \in Text!Privates
  BY <1>6 DEF Text!Privates, TextSize, T
<1>8. Deserted(g)
  BY SMTT(40), <1>2, <1>3, <1>4, <1>6, TextSizes DEF Deserted, Numbers
<1>9. Tables(g)
  <2>1. g.cap \in Nat /\ g.cap >= 2 /\ Len(g.list) = 0 /\ DOMAIN g.list = {} /\ g.list = <<>>
    BY <1>2, <1>3, <1>6, PrivateIs DEF none
  <2> QED BY <1>8, <2>1 DEF Tables
<1>10. Text!Drawn(g) = {}
  BY <1>6, <1>7, DrawnIs DEF none
<1>11. InMode(g, m, out)
  BY <1>6, <1>10 DEF InMode
<1> QED BY <1>6, <1>7, <1>9, <1>10, <1>11

\* A device that is stopped on keeps the invariant.
LEMMA TextStopKeeps ==
    ASSUME TextInv, NEW v \in Text!Virtuals, NEW d, Text!Stop(v, d)
    PROVE  TextInv'
<1>1. /\ con \in [Text!Virtuals -> Text!Privates]
      /\ textMode \in [TextDevices -> Nat] /\ textColour \in [TextDevices -> TextColours]
      /\ stale \subseteq Text!Virtuals /\ lagging \subseteq TextDevices
      /\ Text!Virtuals = {"ConOut", "StdErr"}
      /\ \A w \in Text!Virtuals :
           con[w] \in Text!Privates /\ Tables(con[w]) /\ Text!Drawn(con[w]) \subseteq TextDevices
  BY TextIs
<1>2. PICK w \in Text!Virtuals : w # v /\ \A x \in Text!Virtuals : x = v \/ x = w
  BY <1>1
<1> DEFINE a == con[v]
<1>3. PICK k \in DOMAIN a.list : Text!TextOutDeleteDevice(v, k)
  BY DEF Text!Stop
<1> DEFINE left == [i \in 1 .. Len(a.list) - 1 |-> IF i < k THEN a.list[i] ELSE a.list[i + 1]]
           e == Text!Emptied(a)
           r == Text!Rebuilt(a, left)
<1>4. textColour = textColour' /\ lagging = lagging'
  BY DEF Text!Stop
<1>5. /\ a \in Text!Privates /\ Tables(a) /\ a.list \in Seq(TextDevices)
      /\ a.list # <<>> /\ Len(a.list) \in Nat /\ a.cap \in Nat
      /\ Len(a.list) <= a.cap /\ a.cap >= 2
      /\ \A i, j \in DOMAIN a.list : a.list[i] = a.list[j] => i = j
  <2>1. a \in Text!Privates /\ Tables(a)
    BY <1>1
  <2>2. a.list # <<>>
    BY <1>3
  <2> QED BY <2>1, <2>2, PrivateIs DEF Tables
<1>6. /\ left \in Seq(TextDevices) /\ Len(left) = Len(a.list) - 1
      /\ Gop!Held(left) \subseteq Text!Drawn(a)
      /\ \A i, j \in DOMAIN left : left[i] = left[j] => i = j
  <2> DEFINE s == a.list
  <2>1. s \in Seq(TextDevices) /\ \A i, j \in DOMAIN s : s[i] = s[j] => i = j
    BY <1>5
  <2>2. k \in DOMAIN s /\ left = [i \in 1 .. Len(s) - 1 |-> IF i < k THEN s[i] ELSE s[i + 1]]
    OBVIOUS
  <2>3. Gop!Held(s) = Text!Drawn(a)
    BY <1>5, DrawnIs
  <2> HIDE DEF s, left
  <2>4. /\ left \in Seq(TextDevices) /\ Len(left) = Len(s) - 1
        /\ Gop!Held(left) = Gop!Held(s) \ {s[k]}
        /\ \A i, j \in DOMAIN left : left[i] = left[j] => i = j
    BY SMTT(40), <2>1, <2>2, OneLess
  <2> QED BY <2>3, <2>4 DEF s
<1>7. IF left = <<>>
      THEN /\ con' = [con EXCEPT ![v] = e] /\ stale' = stale \ {v} /\ textMode' = textMode
      ELSE /\ \E to \in Text!Between([con EXCEPT ![v] = r]) :
                con' = to.con /\ textMode' = to.mode
           /\ stale' = stale \cup {v}
  BY <1>3 DEF Text!TextOutDeleteDevice
<1> HIDE DEF left
<1>8. CASE left = <<>>
  <2> DEFINE c == [con EXCEPT ![v] = e]
             m == textMode
             k0 == textColour
             s == stale \ {v}
             l == lagging
  <2>1. /\ e \in Text!Privates /\ Tables(e) /\ e.colour = a.colour
        /\ Text!Drawn(e) = {} /\ InMode(e, m, l)
    BY <1>5, EmptiedKeeps
  <2>2. c = con' /\ m = textMode' /\ k0 = textColour' /\ s = stale' /\ l = lagging'
    BY <1>4, <1>7, <1>8
  <2> HIDE DEF e
  <2>3. c \in [Text!Virtuals -> Text!Privates] /\ c[v] = e /\ c[w] = con[w]
    BY <1>1, <1>2, <2>1
  <2> HIDE DEF c
  <2>4. \A x \in Text!Virtuals : /\ Tables(c[x]) /\ Text!Drawn(c[x]) \subseteq Text!Drawn(con[x])
                                 /\ c[x].colour = con[x].colour
    BY <1>1, <1>2, <2>1, <2>3
  <2>5. w \notin stale => InMode(con[w], m, l)
    BY DEF TextInv, TextSound
  <2>6. \A x \in Text!Virtuals \ s : InMode(c[x], m, l)
    BY <1>2, <2>1, <2>3, <2>5
  <2>7. m \in [TextDevices -> Nat] /\ s \in SUBSET Text!Virtuals
    BY <1>1
  <2>8. TextSound(c, m, k0, s, l)
    <3> HIDE DEF m, s
    <3> QED BY <2>3, <2>4, <2>6, <2>7, FewerSound
  <2> HIDE DEF m, k0, s, l
  <2> QED BY <2>2, <2>8, TextAfter
<1>9. CASE left # <<>>
  <2> DEFINE old == [con EXCEPT ![v] = r]
  <2>1. PICK to \in Text!Between(old) : con' = to.con /\ textMode' = to.mode
    BY <1>7, <1>9
  <2>2. stale' = stale \cup {v}
    BY <1>7, <1>9
  <2>3. /\ r \in Text!Privates /\ Tables(r) /\ r.list = left /\ r.colour = a.colour
    <3>1. Len(left) <= a.cap
      BY <1>5, <1>6
    <3> QED BY <1>5, <1>6, <1>9, <3>1, RebuiltKeeps
  <2>4. Text!Drawn(r) \subseteq Text!Drawn(a)
    BY <1>6, <2>3, DrawnIs
  <2> HIDE DEF r
  <2>5. old \in [Text!Virtuals -> Text!Privates] /\ old[v] = r /\ old[w] = con[w]
    BY <1>1, <1>2, <2>3
  <2> HIDE DEF old
  <2>6. \A x \in Text!Virtuals : /\ Tables(old[x]) /\ old[x].colour = con[x].colour
                                 /\ Text!Drawn(old[x]) \subseteq Text!Drawn(con[x])
    BY <1>1, <1>2, <2>3, <2>4, <2>5
  <2>7. Text!Drawn(old["ConOut"]) \cap Text!Drawn(old["StdErr"]) \subseteq lagging
    BY <1>1, <2>6 DEF TextInv, TextSound
  <2>8. /\ to.con \in [Text!Virtuals -> Text!Privates] /\ to.mode \in [TextDevices -> Nat]
        /\ \A x \in Text!Virtuals :
             /\ Tables(to.con[x]) /\ Text!Drawn(to.con[x]) = Text!Drawn(old[x])
             /\ to.con[x].colour = old[x].colour
        /\ \A x \in Text!Virtuals :
             InMode(old[x], textMode, lagging) => InMode(to.con[x], to.mode, lagging)
    BY SMTT(40), <1>1, <2>5, <2>6, <2>7, BetweenKeeps
  <2> DEFINE c == to.con
             m == to.mode
             k0 == textColour
             s == stale \cup {v}
             l == lagging
  <2>9. c = con' /\ m = textMode' /\ k0 = textColour' /\ s = stale' /\ l = lagging'
    BY <1>4, <2>1, <2>2
  <2>10. \A x \in Text!Virtuals : /\ Tables(c[x]) /\ Text!Drawn(c[x]) \subseteq Text!Drawn(con[x])
                                  /\ c[x].colour = con[x].colour
    BY <2>6, <2>8
  <2>11. \A x \in Text!Virtuals \ s : InMode(c[x], m, l)
    <3>1. w \notin stale => InMode(con[w], textMode, lagging)
      BY DEF TextInv, TextSound
    <3>2. w \notin stale => InMode(c[w], m, l)
      BY <2>5, <2>8, <3>1
    <3> HIDE DEF c, m, l
    <3> QED BY <1>2, <3>2
  <2>12. /\ c \in [Text!Virtuals -> Text!Privates] /\ m \in [TextDevices -> Nat]
         /\ s \in SUBSET Text!Virtuals
    BY <1>1, <2>8
  <2>13. TextSound(c, m, k0, s, l)
    <3> HIDE DEF c, m, s
    <3> QED BY <2>10, <2>11, <2>12, FewerSound
  <2> HIDE DEF c, m, k0, s, l
  <2> QED BY <2>9, <2>13, TextAfter
<1> QED BY <1>8, <1>9

\* A console without devices reports 80 x 25, and any console has a mode 0.
LEMMA FirstSize ==
    ASSUME NEW c \in Text!Privates, Tables(c)
    PROVE  /\ 0 \in 0 .. c.max - 1
           /\ Text!QueryMode(c, 0) = Size25
           /\ c.list = <<>> => c.mode = 0 /\ c.max = 1
<1>1. c.max \in Nat
  BY PrivateIs
<1>2. CASE c.list = <<>>
  <2>1. Deserted(c)
    BY <1>2 DEF Tables
  <2>2. Text!QueryMode(c, 0) = Size25
    BY <2>1 DEF Deserted, Text!QueryMode
  <2> QED BY <1>1, <2>1, <2>2 DEF Deserted
<1>3. CASE c.list # <<>>
  <2>1. Numbers(c)
    BY <1>3 DEF Tables
  <2>2. 1 \in 1 .. c.max
    BY <1>1, <2>1 DEF Numbers
  <2>3. Text!QueryMode(c, 1 - 1) = c.query[c.map[1][1] + 1]
    BY <2>1, <2>2, QueryIs
  <2>4. Text!QueryMode(c, 0) = Size25
    BY <2>1, <2>3 DEF Numbers
  <2> QED BY <1>1, <1>3, <2>2, <2>4
<1> QED BY <1>2, <1>3

\* A console with its cursor at p.
LEMMA CursorAt ==
    ASSUME NEW c \in Text!Privates, NEW p \in TextSize,
           NEW g, g = [c EXCEPT !.cursor = p]
    PROVE  /\ g \in Text!Privates /\ g.list = c.list /\ g.cap = c.cap /\ g.query = c.query
           /\ g.map = c.map /\ g.max = c.max /\ g.mode = c.mode
           /\ g.cursor = p /\ g.colour = c.colour
<1> DEFINE T == Seq(Seq(Int))
<1>1. c \in [list : Seq(TextDevices), cap : Nat, query : Seq(TextSize), map : T,
             max : Nat, mode : Int, cursor : TextSize, colour : TextColours]
  BY DEF Text!Privates, TextSize
<1> HIDE DEF T
<1>2. /\ g \in [list : Seq(TextDevices), cap : Nat, query : Seq(TextSize), map : T,
                max : Nat, mode : Int, cursor : TextSize, colour : TextColours]
      /\ g.list = c.list /\ g.cap = c.cap /\ g.query = c.query
      /\ g.map = c.map /\ g.max = c.max /\ g.mode = c.mode
      /\ g.cursor = p /\ g.colour = c.colour
  BY <1>1
<1> QED BY <1>2 DEF Text!Privates, TextSize, T

\* A console with the colour k.
LEMMA ColourAs ==
    ASSUME NEW c \in Text!Privates, NEW k \in TextColours,
           NEW g, g = [c EXCEPT !.colour = k]
    PROVE  /\ g \in Text!Privates /\ g.list = c.list /\ g.cap = c.cap /\ g.query = c.query
           /\ g.map = c.map /\ g.max = c.max /\ g.mode = c.mode
           /\ g.cursor = c.cursor /\ g.colour = k
<1> DEFINE T == Seq(Seq(Int))
<1>1. c \in [list : Seq(TextDevices), cap : Nat, query : Seq(TextSize), map : T,
             max : Nat, mode : Int, cursor : TextSize, colour : TextColours]
  BY DEF Text!Privates, TextSize
<1> HIDE DEF T
<1>2. /\ g \in [list : Seq(TextDevices), cap : Nat, query : Seq(TextSize), map : T,
                max : Nat, mode : Int, cursor : TextSize, colour : TextColours]
      /\ g.list = c.list /\ g.cap = c.cap /\ g.query = c.query
      /\ g.map = c.map /\ g.max = c.max /\ g.mode = c.mode
      /\ g.cursor = c.cursor /\ g.colour = k
  BY <1>1
<1> QED BY <1>2 DEF Text!Privates, TextSize, T

\* The cursor of a console is moved, and its devices may have its colour anew.
LEMMA CursorKeeps ==
    ASSUME TextInv, NEW v \in Text!Virtuals, NEW p \in TextSize,
           con[v].list = <<>> => p[1] < Size25[1] /\ p[2] < Size25[2],
           con' = [con EXCEPT ![v].cursor = p],
           UNCHANGED <<textMode, stale, lagging>>,
           NEW to \in [TextDevices -> TextColours], textColour' = to,
           \A d \in TextDevices :
             \/ to[d] = textColour[d]
             \/ to[d] = con[v].colour /\ d \in Text!Drawn(con[v])
    PROVE  TextInv'
<1>1. con[v] \in Text!Privates
  BY TextIs
<1> DEFINE a == con[v]
           g == [a EXCEPT !.cursor = p]
<1>2. con' = [con EXCEPT ![v] = g]
  OBVIOUS
<1>3. a.colour \in TextColours
  BY <1>1, PrivateIs
<1>4. /\ g \in Text!Privates /\ g.list = a.list /\ g.cap = a.cap /\ g.query = a.query
      /\ g.map = a.map /\ g.max = a.max /\ g.mode = a.mode
      /\ g.cursor = p /\ g.colour = a.colour
  <2>1. g = [a EXCEPT !.cursor = p] /\ a \in Text!Privates
    BY <1>1
  <2> HIDE DEF g, a
  <2> QED BY <1>3, <2>1, CursorAt
<1> HIDE DEF g
<1>5. \A d \in TextDevices :
        \/ to[d] = textColour[d] /\ (d \in Text!Drawn(a) => g.colour = a.colour)
        \/ to[d] = g.colour /\ d \in Text!Drawn(a)
  BY <1>4
<1>6. a.list = <<>> => g.cursor[1] < Size25[1] /\ g.cursor[2] < Size25[2]
  BY <1>4
<1>7. ShowsSame(g, a) /\ Coloured(to, g, a)
  BY <1>4, <1>5, <1>6 DEF ShowsSame, Coloured
<1> QED BY <1>2, <1>7, ConsoleAnew

\* SetMode keeps the invariant.
LEMMA TextSetModeKeeps ==
    ASSUME TextInv, NEW v \in Text!Virtuals, NEW m, Text!SetMode(v, m)
    PROVE  TextInv'
<1> DEFINE a == con[v]
           shade == textColour
<1>1. /\ a \in Text!Privates /\ Tables(a) /\ Text!Drawn(a) \subseteq TextDevices
      /\ textMode \in [TextDevices -> Nat] /\ textColour \in [TextDevices -> TextColours]
  BY TextIs
<1>2. m \in 0 .. a.max - 1 /\ textColour' = textColour
  BY DEF Text!SetMode
<1>3. /\ shade \in [TextDevices -> TextColours] /\ textColour' = shade
      /\ \A d \in TextDevices : shade[d] = textColour[d]
  BY <1>1, <1>2
<1>4. CASE a.mode = m
  <2> DEFINE zero == <<0, 0>>
  <2>1. con' = [con EXCEPT ![v].cursor = zero] /\ UNCHANGED <<textMode, stale, lagging>>
    BY <1>4 DEF Text!SetMode
  <2>2. zero \in TextSize /\ zero[1] < Size25[1] /\ zero[2] < Size25[2]
    BY TextSizes DEF TextSize
  <2> HIDE DEF zero, shade
  <2> QED BY <1>3, <2>1, <2>2, CursorKeeps
<1>5. CASE a.mode # m
  <2>1. PICK failing \in SUBSET (FaultyTexts \cap Text!Drawn(a)) :
          /\ textMode' = Text!Sent(a, m, textMode, failing)
          /\ con' = [con EXCEPT ![v] = Text!TextOutSetMode(@, m)]
          /\ stale' = stale \ {v}
          /\ lagging' = (lagging \ Text!Drawn(a)) \cup failing
                            \cup (Text!Others(v) \cap Text!Drawn(a))
    BY <1>5 DEF Text!SetMode
  <2>2. a.list # <<>>
    <3>1. a.list = <<>> => a.mode = 0 /\ a.max = 1
      BY <1>1, FirstSize
    <3> QED BY <1>2, <1>5, <3>1
  <2> DEFINE to == Text!Sent(a, m, textMode, failing)
  <2>3. /\ to \in [TextDevices -> Nat]
        /\ \A d \in TextDevices \ Text!Drawn(a) : to[d] = textMode[d]
        /\ Text!QueryMode(a, m) # Text!NoSize =>
             \A d \in Text!Drawn(a) \ failing : TextModes[d][to[d] + 1] = Text!QueryMode(a, m)
    BY <1>1, <1>2, <2>2, SentIs
  <2>4. failing \subseteq TextDevices
    BY <1>1
  <2>5. textMode' = to
    BY <2>1
  <2> HIDE DEF to, shade
  <2> QED BY <1>2, <1>3, <2>1, <2>3, <2>4, <2>5, ConsoleModeSet
<1> QED BY <1>4, <1>5

\* Reset keeps the invariant: mode 0 is 80 x 25 on every device.
LEMMA TextResetKeeps ==
    ASSUME TextInv, NEW v \in Text!Virtuals, Text!Reset(v)
    PROVE  TextInv'
<1> DEFINE a == con[v]
           shown == Text!Drawn(a)
           n == 0
<1>1. /\ a \in Text!Privates /\ Tables(a) /\ shown \subseteq TextDevices
      /\ textMode \in [TextDevices -> Nat] /\ textColour \in [TextDevices -> TextColours]
  BY TextIs
<1>2. PICK failing \in SUBSET (FaultyTexts \cap shown) :
        /\ textMode' = [d \in TextDevices |-> IF d \in shown \ failing THEN 0 ELSE textMode[d]]
        /\ lagging' = (lagging \ shown) \cup failing \cup (Text!Others(v) \cap shown)
  BY DEF Text!Reset
<1>3. /\ con' = [con EXCEPT ![v] = Text!TextOutSetMode(@, n)]
      /\ textColour' = [d \in TextDevices |-> IF d \in shown THEN a.colour ELSE textColour[d]]
      /\ stale' = stale \ {v}
  BY DEF Text!Reset
<1> DEFINE m == [d \in TextDevices |-> IF d \in shown \ failing THEN 0 ELSE textMode[d]]
<1>4. n \in 0 .. a.max - 1 /\ Text!QueryMode(a, n) = Size25
  BY <1>1, FirstSize
<1>5. /\ m \in [TextDevices -> Nat] /\ \A d \in TextDevices \ shown : m[d] = textMode[d]
      /\ \A d \in shown \ failing : TextModes[d][m[d] + 1] = Size25
  <2>1. m \in [TextDevices -> Nat] /\ \A d \in TextDevices \ shown : m[d] = textMode[d]
    BY <1>1
  <2>2. ASSUME NEW d \in shown \ failing
        PROVE  TextModes[d][m[d] + 1] = Size25
    <3>1. d \in TextDevices /\ m[d] = 0
      BY <1>1, <2>2
    <3>2. TextModes[d][1] = Size25
      BY <3>1, TextModesAre
    <3> QED BY <3>1, <3>2
  <2> QED BY <2>1, <2>2
<1>6. textMode' = m /\ failing \subseteq TextDevices
  BY <1>1, <1>2
<1> DEFINE k == [d \in TextDevices |-> IF d \in shown THEN a.colour ELSE textColour[d]]
<1>7. /\ textColour' = k /\ k \in [TextDevices -> TextColours]
      /\ \A d \in TextDevices : k[d] = textColour[d] \/ (k[d] = a.colour /\ d \in shown)
  BY <1>1, <1>3, PrivateIs
<1>8. lagging' = (lagging \ shown) \cup failing \cup (Text!Others(v) \cap shown)
  BY <1>2
<1> HIDE DEF m, n, k
<1>9. Text!QueryMode(a, n) # Text!NoSize =>
        \A d \in shown \ failing : TextModes[d][m[d] + 1] = Text!QueryMode(a, n)
  BY <1>4, <1>5
<1> QED BY <1>3, <1>4, <1>5, <1>6, <1>7, <1>8, <1>9, ConsoleModeSet

\* SetAttribute keeps the invariant.
LEMMA TextAttributeKeeps ==
    ASSUME TextInv, NEW v \in Text!Virtuals, NEW k \in TextColours, Text!SetAttribute(v, k)
    PROVE  TextInv'
<1> DEFINE a == con[v]
           g == [a EXCEPT !.colour = k]
           to == [d \in TextDevices |-> IF d \in Text!Drawn(a) THEN k ELSE textColour[d]]
<1>1. a \in Text!Privates /\ Tables(a) /\ textColour \in [TextDevices -> TextColours]
  BY TextIs
<1>2. con' = [con EXCEPT ![v] = g] /\ textColour' = to /\ UNCHANGED <<textMode, stale, lagging>>
  BY DEF Text!SetAttribute
<1>3. /\ g \in Text!Privates /\ g.list = a.list /\ g.cap = a.cap /\ g.query = a.query
      /\ g.map = a.map /\ g.max = a.max /\ g.mode = a.mode
      /\ g.cursor = a.cursor /\ g.colour = k
  <2>1. g = [a EXCEPT !.colour = k]
    OBVIOUS
  <2> HIDE DEF g, a
  <2> QED BY <1>1, <2>1, ColourAs
<1> HIDE DEF g
<1>4. /\ to \in [TextDevices -> TextColours]
      /\ \A d \in TextDevices :
           \/ to[d] = textColour[d] /\ (d \in Text!Drawn(a) => g.colour = a.colour)
           \/ to[d] = g.colour /\ d \in Text!Drawn(a)
  BY <1>1, <1>3
<1>5. a.list = <<>> => g.cursor[1] < Size25[1] /\ g.cursor[2] < Size25[2]
  BY <1>1, <1>3 DEF Tables, Deserted
<1>6. ShowsSame(g, a) /\ Coloured(to, g, a)
  BY <1>3, <1>4, <1>5 DEF ShowsSame, Coloured
<1> HIDE DEF to
<1> QED BY <1>2, <1>6, ConsoleAnew

\* ClearScreen keeps the invariant.
LEMMA TextClearKeeps ==
    ASSUME TextInv, NEW v \in Text!Virtuals, Text!ClearScreen(v)
    PROVE  TextInv'
<1> DEFINE zero == <<0, 0>>
           shade == textColour
<1>1. /\ con' = [con EXCEPT ![v].cursor = zero]
      /\ UNCHANGED <<textMode, stale, lagging>>
      /\ textColour' = textColour
  BY DEF Text!ClearScreen
<1>2. /\ shade \in [TextDevices -> TextColours] /\ textColour' = shade
      /\ \A d \in TextDevices : shade[d] = textColour[d]
  BY <1>1, TextIs
<1>3. zero \in TextSize /\ zero[1] < Size25[1] /\ zero[2] < Size25[2]
  BY TextSizes DEF TextSize
<1> HIDE DEF zero, shade
<1> QED BY <1>1, <1>2, <1>3, CursorKeeps

\* SetCursorPosition keeps the invariant: without devices the size is 80 x 25.
LEMMA TextCursorKeeps ==
    ASSUME TextInv, NEW v \in Text!Virtuals, NEW p \in TextPositions,
           Text!SetCursorPosition(v, p)
    PROVE  TextInv'
<1> DEFINE a == con[v]
           shade == textColour
<1>1. a \in Text!Privates /\ Tables(a) /\ textColour \in [TextDevices -> TextColours]
  BY TextIs
<1>2. /\ a.mode >= 0 => Text!Fits(p, Text!QueryMode(a, a.mode))
      /\ con' = [con EXCEPT ![v].cursor = p]
      /\ UNCHANGED <<textMode, stale, lagging>>
      /\ textColour' = textColour
  BY DEF Text!SetCursorPosition
<1>3. p \in TextSize
  BY OutputAssumption DEF Text!OutAssumption, TextSize
<1>4. a.list = <<>> => p[1] < Size25[1] /\ p[2] < Size25[2]
  BY <1>1, <1>2, FirstSize DEF Text!Fits
<1>5. /\ shade \in [TextDevices -> TextColours] /\ textColour' = shade
      /\ \A d \in TextDevices : shade[d] = textColour[d]
  BY <1>1, <1>2
<1> HIDE DEF shade
<1> QED BY <1>2, <1>3, <1>4, <1>5, CursorKeeps

\* A character moves the cursor to a place on the screen.
LEMMA MovedFits ==
    ASSUME NEW p \in TextSize, NEW s \in TextSize, p[1] < s[1], p[2] < s[2], NEW char,
           NEW q, q = Text!Moved(p, char, s)
    PROVE  q \in TextSize /\ q[1] < s[1] /\ q[2] < s[2]
<1>1. /\ p = <<p[1], p[2]>> /\ p[1] \in Nat /\ p[2] \in Nat /\ s[1] \in Nat /\ s[2] \in Nat
  BY DEF TextSize
<1> DEFINE down == IF p[2] < s[2] - 1 THEN p[2] + 1 ELSE p[2]
<1>2. down \in Nat /\ down < s[2]
  BY <1>1
<1> HIDE DEF down
<1>3. \E x \in Nat, y \in Nat : q = <<x, y>> /\ x < s[1] /\ y < s[2]
  <2>1. CASE char = "bs"
    <3>1. q = IF p[1] > 0 THEN <<p[1] - 1, p[2]>>
              ELSE IF p[2] > 0 THEN <<s[1] - 1, p[2] - 1>> ELSE p
      BY <2>1 DEF Text!Moved
    <3>2. CASE p[1] > 0
      BY <1>1, <3>1, <3>2
    <3>3. CASE p[1] = 0 /\ p[2] > 0
      BY <1>1, <3>1, <3>3
    <3>4. CASE p[1] = 0 /\ p[2] = 0
      BY <1>1, <3>1, <3>4
    <3> QED BY <1>1, <3>2, <3>3, <3>4
  <2>2. CASE char = "lf"
    <3>1. q = <<p[1], down>>
      BY <2>2 DEF Text!Moved, down
    <3> QED BY <1>1, <1>2, <3>1
  <2>3. CASE char = "cr"
    <3>1. q = <<0, p[2]>>
      BY <2>3 DEF Text!Moved
    <3> QED BY <1>1, <3>1
  <2>4. CASE char \notin {"bs", "lf", "cr"}
    <3>1. q = IF p[1] < s[1] - 1 THEN <<p[1] + 1, p[2]>> ELSE <<0, down>>
      BY <2>4 DEF Text!Moved, down
    <3>2. CASE p[1] < s[1] - 1
      BY <1>1, <3>1, <3>2
    <3>3. CASE ~(p[1] < s[1] - 1)
      BY <1>1, <1>2, <3>1, <3>3
    <3> QED BY <3>2, <3>3
  <2> QED BY <2>1, <2>2, <2>3, <2>4
<1> QED BY <1>3 DEF TextSize

\* OutputString keeps the invariant.
LEMMA TextStringKeeps ==
    ASSUME TextInv, NEW v \in Text!Virtuals, NEW char, Text!OutputString(v, char)
    PROVE  TextInv'
<1> DEFINE a == con[v]
           to == [d \in TextDevices |-> IF d \in Text!Drawn(a) THEN a.colour ELSE textColour[d]]
<1>1. a \in Text!Privates /\ Tables(a) /\ textColour \in [TextDevices -> TextColours]
  BY TextIs
<1>2. /\ textColour' = to /\ UNCHANGED <<textMode, stale, lagging>>
      /\ to \in [TextDevices -> TextColours]
      /\ \A d \in TextDevices :
           to[d] = textColour[d] \/ (to[d] = a.colour /\ d \in Text!Drawn(a))
  BY <1>1, PrivateIs DEF Text!OutputString
<1>3. CASE a.list = <<>>
  <2>1. con' = [con EXCEPT ![v].cursor = Text!Moved(@, char, Text!QueryMode(a, a.mode))]
    BY <1>3 DEF Text!OutputString
  <2>2. a.mode = 0 /\ Text!QueryMode(a, 0) = Size25
    BY <1>1, <1>3, FirstSize
  <2> DEFINE q == Text!Moved(a.cursor, char, Size25)
  <2>3. con' = [con EXCEPT ![v].cursor = q]
    BY <2>1, <2>2
  <2>4. a.cursor \in TextSize /\ a.cursor[1] < Size25[1] /\ a.cursor[2] < Size25[2]
    BY <1>1, <1>3, PrivateIs DEF Tables, Deserted
  <2>5. q \in TextSize /\ q[1] < Size25[1] /\ q[2] < Size25[2]
    BY <2>4, TextSizes, MovedFits
  <2> HIDE DEF q, to
  <2> QED BY <1>2, <2>3, <2>5, CursorKeeps
<1>4. CASE a.list # <<>>
  <2>1. PICK p \in TextPositions : con' = [con EXCEPT ![v].cursor = p]
    BY <1>4 DEF Text!OutputString
  <2>2. p \in TextSize
    BY OutputAssumption DEF Text!OutAssumption, TextSize
  <2> HIDE DEF to
  <2> QED BY <1>2, <1>4, <2>1, <2>2, CursorKeeps
<1> QED BY <1>3, <1>4

\* Every step of the text consoles keeps the invariant.
LEMMA TextStepKeeps == TextInv /\ [Text!Next]_Text!vars => TextInv'
<1> SUFFICES ASSUME TextInv, [Text!Next]_Text!vars
             PROVE  TextInv'
  OBVIOUS
<1>1. ASSUME NEW d \in TextDevices, Text!ConOutDriverBindingStart(d)
      PROVE  TextInv'
  <2>1. "ConOut" \in Text!Virtuals /\ Text!Start("ConOut", d)
    BY <1>1 DEF Text!ConOutDriverBindingStart, Text!Virtuals
  <2> QED BY <2>1, TextStartKeeps
<1>2. ASSUME NEW d \in TextDevices, Text!ConOutDriverBindingStop(d)
      PROVE  TextInv'
  <2>1. "ConOut" \in Text!Virtuals /\ Text!Stop("ConOut", d)
    BY <1>2 DEF Text!ConOutDriverBindingStop, Text!Virtuals
  <2> QED BY <2>1, TextStopKeeps
<1>3. ASSUME NEW d \in TextDevices, Text!StdErrDriverBindingStart(d)
      PROVE  TextInv'
  <2>1. "StdErr" \in Text!Virtuals /\ d \in ErrDevices /\ Text!Start("StdErr", d)
    BY <1>3 DEF Text!StdErrDriverBindingStart, Text!Virtuals
  <2> QED BY <2>1, TextStartKeeps
<1>4. ASSUME NEW d \in TextDevices, Text!StdErrDriverBindingStop(d)
      PROVE  TextInv'
  <2>1. "StdErr" \in Text!Virtuals /\ Text!Stop("StdErr", d)
    BY <1>4 DEF Text!StdErrDriverBindingStop, Text!Virtuals
  <2> QED BY <2>1, TextStopKeeps
<1>5. CASE UNCHANGED Text!vars
  <2>1. /\ con = con' /\ textMode = textMode' /\ textColour = textColour'
        /\ stale = stale' /\ lagging = lagging'
    BY <1>5 DEF Text!vars
  <2>2. TextSound(con, textMode, textColour, stale, lagging)
    BY DEF TextInv
  <2> DEFINE c == con
             m == textMode
             k == textColour
             s == stale
             l == lagging
  <2>3. /\ c = con' /\ m = textMode' /\ k = textColour' /\ s = stale' /\ l = lagging'
        /\ TextSound(c, m, k, s, l)
    BY <2>1, <2>2
  <2> HIDE DEF c, m, k, s, l
  <2> QED BY <2>3, TextAfter
<1>6. CASE Text!Next
  <2>1. CASE \E d \in TextDevices :
               \/ Text!ConOutDriverBindingStart(d) \/ Text!ConOutDriverBindingStop(d)
               \/ Text!StdErrDriverBindingStart(d) \/ Text!StdErrDriverBindingStop(d)
    BY <1>1, <1>2, <1>3, <1>4, <2>1
  <2>2. ASSUME NEW v \in Text!Virtuals, NEW m, Text!SetMode(v, m)
        PROVE  TextInv'
    BY <2>2, TextSetModeKeeps
  <2>3. ASSUME NEW v \in Text!Virtuals, Text!Reset(v) \/ Text!ClearScreen(v)
        PROVE  TextInv'
    BY <2>3, TextResetKeeps, TextClearKeeps
  <2>4. ASSUME NEW v \in Text!Virtuals, NEW a \in TextColours, Text!SetAttribute(v, a)
        PROVE  TextInv'
    BY <2>4, TextAttributeKeeps
  <2>5. ASSUME NEW v \in Text!Virtuals, NEW p \in TextPositions, Text!SetCursorPosition(v, p)
        PROVE  TextInv'
    BY <2>5, TextCursorKeeps
  <2>6. ASSUME NEW v \in Text!Virtuals, NEW char, Text!OutputString(v, char)
        PROVE  TextInv'
    BY <2>6, TextStringKeeps
  <2> QED BY <1>6, <2>1, <2>2, <2>3, <2>4, <2>5, <2>6 DEF Text!Next
<1> QED BY <1>5, <1>6

\* The consoles are constructed without devices.
LEMMA TextStarts == Text!Init => TextInv
<1> SUFFICES ASSUME Text!Init
             PROVE  TextInv
  OBVIOUS
<1> DEFINE c == Text!Constructed
           none == <<>>
           zero == <<0, 0>>
           size == Text!NoSize
           blank == [i \in 1 .. AllocUnit |-> size]
           q == [blank EXCEPT ![1] = Size25]
<1>1. AllocUnit \in Nat /\ AllocUnit > 1 /\ Gray \in TextColours
  BY OutputAssumption DEF Text!OutAssumption
<1>2. q \in Seq(TextSize) /\ Len(q) = AllocUnit /\ q[1] = Size25
  <2>1. size \in TextSize /\ Size25 \in TextSize
    BY TextSizes
  <2> HIDE DEF size
  <2>2. blank \in Seq(TextSize) /\ Len(blank) = AllocUnit
    BY <1>1, <2>1
  <2> HIDE DEF blank
  <2>3. 1 \in 1 .. Len(blank)
    BY <1>1, <2>2
  <2> QED BY <2>1, <2>2, <2>3, ExceptSeq
<1>3. zero \in TextSize /\ zero[1] = 0 /\ zero[2] = 0
  BY DEF TextSize
<1>4. none \in Seq(TextDevices) /\ none \in Seq(Seq(Int)) /\ Len(none) = 0 /\ DOMAIN none = {}
  OBVIOUS
<1>5. c = [list |-> none, cap |-> AllocUnit, map |-> none, max |-> 1, mode |-> 0,
           query |-> q, cursor |-> zero, colour |-> Gray]
  BY DEF Text!Constructed, Text!Fill
<1> HIDE DEF c, zero, q
<1>6. c \in Text!Privates
  <2> HIDE DEF none
  <2> QED BY <1>1, <1>2, <1>3, <1>4, <1>5 DEF Text!Privates, TextSize
<1>7. Tables(c)
  <2>1. Deserted(c)
    BY <1>1, <1>2, <1>3, <1>5, TextSizes DEF Deserted
  <2> QED BY <1>1, <1>4, <1>5, <2>1 DEF Tables
<1>8. Text!Drawn(c) = {}
  BY <1>5, <1>6, DrawnIs
<1>9. \A m, out : InMode(c, m, out)
  BY <1>5, <1>8 DEF InMode
<1>10. /\ con = [v \in Text!Virtuals |-> c]
       /\ textMode = [d \in TextDevices |-> 0] /\ textColour = [d \in TextDevices |-> Gray]
       /\ stale = {} /\ lagging = {}
  BY DEF Text!Init, c
<1>11. Text!Virtuals = {"ConOut", "StdErr"}
  BY DEF Text!Virtuals
<1>12. \A v \in Text!Virtuals : con[v] = c
  BY <1>10
<1>13. con \in [Text!Virtuals -> Text!Privates]
  BY <1>6, <1>10
<1>14. textMode \in [TextDevices -> Nat] /\ textColour \in [TextDevices -> TextColours]
  BY <1>1, <1>10
<1>15. \A v \in Text!Virtuals : /\ Tables(con[v]) /\ Text!Drawn(con[v]) = {}
                                /\ InMode(con[v], textMode, lagging)
  BY <1>7, <1>8, <1>9, <1>12
<1> HIDE DEF none
<1> QED BY <1>10, <1>11, <1>13, <1>14, <1>15 DEF TextInv, TextSound

\* The tables tell the devices' modes, and have a place for all of them.
LEMMA TextInvTells == TextInv => MapTellsModes
<1> SUFFICES ASSUME TextInv
             PROVE  MapTellsModes
  OBVIOUS
<1>1. Text!TypeOK
  BY TextIs DEF Text!TypeOK
<1>2. ASSUME NEW v \in Text!Virtuals, NEW c, c = con[v]
      PROVE  /\ \A m \in 0 .. c.max - 1 : Text!QueryMode(c, m) # Text!NoSize =>
                  \A i \in DOMAIN c.list :
                     /\ c.map[m + 1][i] \in 0 .. Len(TextModes[c.list[i]]) - 1
                     /\ TextModes[c.list[i]][c.map[m + 1][i] + 1] = Text!QueryMode(c, m)
             /\ Len(c.list) <= c.cap /\ c.max <= Len(c.query)
             /\ c.map # <<>> => Len(c.map) >= c.max
             /\ \A r \in DOMAIN c.map : Len(c.map[r]) = c.cap
  <2>1. c \in Text!Privates /\ Tables(c)
    BY <1>2, TextIs
  <2>2. /\ c.max \in Nat /\ Len(c.map) \in Nat /\ DOMAIN c.map = 1 .. Len(c.map)
        /\ (c.map = <<>> <=> Len(c.map) = 0) /\ Len(c.query) \in Nat
        /\ Len(c.list) \in Nat /\ DOMAIN c.list = 1 .. Len(c.list)
        /\ \A i \in 1 .. Len(c.list) : c.list[i] \in TextDevices
    BY <2>1, PrivateIs
  <2>3. CASE c.list = <<>>
    <3>1. DOMAIN c.list = {}
      BY <2>3
    <3> QED BY <2>1, <2>2, <2>3, <3>1 DEF Tables, Deserted
  <2>4. CASE c.list # <<>>
    <3>1. Numbers(c) /\ Told(c, c.list, Len(c.list), 1 .. c.max)
      BY <2>1, <2>4 DEF Tables
    <3>2. ASSUME NEW m \in 0 .. c.max - 1, Text!QueryMode(c, m) # Text!NoSize,
                 NEW i \in DOMAIN c.list
          PROVE  /\ c.map[m + 1][i] \in 0 .. Len(TextModes[c.list[i]]) - 1
                 /\ TextModes[c.list[i]][c.map[m + 1][i] + 1] = Text!QueryMode(c, m)
      <4>1. PICK r \in 1 .. c.max : r = m + 1 /\ m = r - 1
        BY <2>2, <3>2
      <4>2. PICK d \in TextDevices : d = c.list[i]
        BY <2>2
      <4>3. Tells(c, r, d, i)
        BY <2>2, <3>1, <4>2 DEF Told
      <4>4. Text!QueryMode(c, r - 1) = Text!QueryMode(c, m)
        BY <4>1
      <4>5. /\ c.map[r][i] \in -1 .. Len(TextModes[d]) - 1
            /\ c.map[r][i] # -1 /\ TextModes[d][c.map[r][i] + 1] = Text!QueryMode(c, m)
        BY <3>2, <4>3, <4>4 DEF Tells
      <4>6. Len(TextModes[d]) \in Nat
        BY TextModesAre
      <4> QED BY <4>1, <4>2, <4>5, <4>6
    <3> QED BY <2>1, <2>2, <3>1, <3>2 DEF Tables, Numbers
  <2> QED BY <2>3, <2>4
<1>3. Text!MapTellsModes
  BY <1>2 DEF Text!MapTellsModes
<1>4. Text!MapLargeEnough
  BY <1>2 DEF Text!MapLargeEnough
<1> QED BY <1>1, <1>3, <1>4 DEF MapTellsModes

\* Modes, colours and cursors are what the devices and clients have them.
LEMMA TextInvSets == TextInv => ModeIsSet
<1> SUFFICES ASSUME TextInv
             PROVE  ModeIsSet
  OBVIOUS
<1>1. ASSUME NEW v \in Text!Virtuals
      PROVE  con[v] \in Text!Privates /\ Tables(con[v])
  BY TextIs
<1>2. Text!ModeIsSet
  <2>1. ASSUME NEW v \in Text!Virtuals \ stale
        PROVE  con[v].mode \in 0 .. con[v].max - 1 /\ Text!ModeHeld(v)
    <3>1. InMode(con[v], textMode, lagging)
      BY DEF TextInv, TextSound
    <3> QED BY <3>1 DEF InMode, Text!ModeHeld
  <2> QED BY <2>1 DEF Text!ModeIsSet
<1>3. Text!CursorOnScreen
  <2>1. ASSUME NEW v \in Text!Virtuals, con[v].list = <<>>
        PROVE  Text!Fits(con[v].cursor, Text!QueryMode(con[v], con[v].mode))
    <3>1. con[v].mode = 0 /\ Text!QueryMode(con[v], 0) = Size25
      BY <1>1, <2>1, FirstSize
    <3>2. con[v].cursor[1] < Size25[1] /\ con[v].cursor[2] < Size25[2]
      BY <1>1, <2>1 DEF Tables, Deserted
    <3> QED BY <3>1, <3>2 DEF Text!Fits
  <2> QED BY <2>1 DEF Text!CursorOnScreen
<1>4. Text!ColourShared
  BY DEF TextInv, TextSound, Text!ColourShared
<1> QED BY <1>2, <1>3, <1>4 DEF ModeIsSet

\* The text consoles' tables and states are what the invariant says.
LEMMA TextInvKept == Text!Spec => []TextInv
<1>1. Text!Init => TextInv
  BY TextStarts
<1>2. TextInv /\ [Text!Next]_Text!vars => TextInv'
  BY TextStepKeeps
<1> QED BY <1>1, <1>2, PTL DEF Text!Spec

\* ConSplitterGrowMapTable, AddOutputMode, SyncOutputMode, GetIntersection and
\* TextOutDeleteDevice: whatever devices there are and in whatever order they come
\* and go at the two consoles, a mode a client can query is on every device of the
\* console the mode of that size by the map, and the map has a place for each.
THEOREM TextModesTold == Text!Spec => []MapTellsModes
<1>1. TextInv => MapTellsModes
  BY TextInvTells
<1> QED BY <1>1, TextInvKept, PTL

\* TextOutSetMode, Reset, OutputString and the two routines that start and stop a
\* device: but for a console that has lost a device, its current mode is one of its
\* modes and every device is in the mode of that size that did not fail and serves
\* no other console; without devices the cursor stays on 80 x 25; and the colour of
\* mConOut is that of each device that cannot serve mStdErr.
THEOREM TextModeHeld == Text!Spec => []ModeIsSet
<1>1. TextInv => ModeIsSet
  BY TextInvSets
<1> QED BY <1>1, TextInvKept, PTL

(***************************************************************************)
(* FrameBufferBlt.                                                         *)
(***************************************************************************)

\* Of the first k rows of data, n bytes each at the addresses to, every byte is
\* where it belongs in mem, and the other bytes are those of base.
Written(mem, base, to, data, n, k) ==
    /\ mem \in [DOMAIN base -> Int]
    /\ \A i \in 0 .. k - 1, a \in DOMAIN base :
          a \in to[i] .. to[i] + n - 1 => mem[a] = data[i][a - to[i]]
    /\ \A a \in DOMAIN base :
          (\A i \in 0 .. k - 1 : a \notin to[i] .. to[i] + n - 1) => mem[a] = base[a]

\* Bytes that are copied are there, and the others are not touched.
Copied(new, mem, to, data, n) ==
    /\ new \in [DOMAIN mem -> Int]
    /\ \A a \in DOMAIN mem : a \in to .. to + n - 1 => new[a] = data[a - to]
    /\ \A a \in DOMAIN mem : a \notin to .. to + n - 1 => new[a] = mem[a]

\* CopyMem copies bytes.
LEMMA CopyMemIs ==
    ASSUME NEW D, NEW mem \in [D -> Int], NEW to \in Int, NEW n \in Nat,
           NEW data \in [0 .. n - 1 -> Int]
    PROVE  Copied(Blt!CopyMem(mem, to, data, n), mem, to, data, n)
<1> DEFINE put == [a \in D |-> IF a \in to .. to + n - 1 THEN data[a - to] ELSE mem[a]]
<1>1. Blt!CopyMem(mem, to, data, n) = put
  BY DEF Blt!CopyMem
<1>2. \A a \in D : a \in to .. to + n - 1 => a - to \in 0 .. n - 1
  OBVIOUS
<1>3. put \in [D -> Int]
  BY <1>2
<1> QED BY <1>1, <1>3 DEF Copied

\* One row more, behind those that are there.
LEMMA RowWritten ==
    ASSUME NEW D, NEW base \in [D -> Int], NEW h \in Nat, NEW n \in Nat,
           NEW to \in [0 .. h - 1 -> Int], NEW data \in [0 .. h - 1 -> [0 .. n - 1 -> Int]],
           \A i, j \in 0 .. h - 1 : i < j => to[i] + n <= to[j],
           NEW k \in 0 .. h - 1, NEW mem, Written(mem, base, to, data, n, k)
    PROVE  Written(Blt!CopyMem(mem, to[k], data[k], n), base, to, data, n, k + 1)
<1> DEFINE new == Blt!CopyMem(mem, to[k], data[k], n)
<1>1. /\ mem \in [D -> Int] /\ DOMAIN base = D
      /\ \A i \in 0 .. k - 1, a \in D : a \in to[i] .. to[i] + n - 1 => mem[a] = data[i][a - to[i]]
      /\ \A a \in D : (\A i \in 0 .. k - 1 : a \notin to[i] .. to[i] + n - 1) => mem[a] = base[a]
  BY DEF Written
<1>2. /\ new \in [D -> Int]
      /\ \A a \in D : /\ a \in to[k] .. to[k] + n - 1 => new[a] = data[k][a - to[k]]
                      /\ a \notin to[k] .. to[k] + n - 1 => new[a] = mem[a]
  <2> PICK t \in Int : t = to[k]
    OBVIOUS
  <2> PICK d \in [0 .. n - 1 -> Int] : d = data[k]
    OBVIOUS
  <2>1. Copied(Blt!CopyMem(mem, t, d, n), mem, t, d, n)
    BY <1>1, CopyMemIs
  <2> QED BY <1>1, <2>1 DEF Copied
<1> HIDE DEF new
<1>3. ASSUME NEW i \in 0 .. k, NEW a \in D, a \in to[i] .. to[i] + n - 1
      PROVE  new[a] = data[i][a - to[i]]
  <2>1. CASE i = k
    BY <1>2, <1>3, <2>1
  <2>2. CASE i # k
    <3>1. i \in 0 .. k - 1 /\ i \in 0 .. h - 1 /\ i < k
      BY <2>2
    <3>2. a \notin to[k] .. to[k] + n - 1
      <4>1. to[i] + n <= to[k] /\ to[i] \in Int /\ to[k] \in Int
        BY <3>1
      <4> QED BY SMTT(40), <1>3, <4>1
    <3> QED BY <1>1, <1>2, <1>3, <3>1, <3>2
  <2> QED BY <2>1, <2>2
<1>4. ASSUME NEW a \in D, \A i \in 0 .. k : a \notin to[i] .. to[i] + n - 1
      PROVE  new[a] = base[a]
  <2>1. k \in 0 .. k /\ \A i \in 0 .. k - 1 : i \in 0 .. k
    OBVIOUS
  <2> QED BY <1>1, <1>2, <1>4, <2>1
<1>5. k + 1 - 1 = k
  OBVIOUS
<1> QED BY SMTT(40), <1>1, <1>2, <1>3, <1>4, <1>5 DEF Written, new

\* Nothing is written yet.
LEMMA NoneWritten ==
    ASSUME NEW D, NEW base \in [D -> Int], NEW to, NEW data, NEW n
    PROVE  Written(base, base, to, data, n, 0)
  BY DEF Written

\* Rows that do not overlap are all there in the end, if each is copied when those
\* before it are there.
LEMMA RowsWritten ==
    ASSUME NEW D, NEW base \in [D -> Int], NEW h \in Nat, NEW n \in Nat,
           NEW to \in [0 .. h - 1 -> Int], NEW data \in [0 .. h - 1 -> [0 .. n - 1 -> Int]],
           \A i, j \in 0 .. h - 1 : i < j => to[i] + n <= to[j],
           NEW f, f[0] = base,
           \A k \in 0 .. h - 1 : Written(f[k], base, to, data, n, k) =>
               f[k + 1] = Blt!CopyMem(f[k], to[k], data[k], n)
    PROVE  Written(f[h], base, to, data, n, h)
<1> DEFINE U == {k \in 0 .. h : Written(f[k], base, to, data, n, k)}
<1>1. 0 \in U
  <2>1. Written(f[0], base, to, data, n, 0)
    BY NoneWritten
  <2> QED BY <2>1
<1>2. ASSUME NEW k \in 0 .. h - 1, k \in U
      PROVE  k + 1 \in U
  <2>1. Written(f[k], base, to, data, n, k)
    BY <1>2
  <2>2. f[k + 1] = Blt!CopyMem(f[k], to[k], data[k], n)
    BY <2>1
  <2>3. Written(f[k + 1], base, to, data, n, k + 1)
    BY <2>1, <2>2, RowWritten
  <2> QED BY <2>3
<1> HIDE DEF U
<1>3. \A k \in 0 .. h : k \in U
  BY <1>1, <1>2, CountUp
<1> QED BY <1>3 DEF U

\* CopyRows copies its rows.
LEMMA CopyRowsIs ==
    ASSUME NEW D, NEW base \in [D -> Int], NEW h \in Nat, NEW n \in Nat,
           NEW to \in [0 .. h - 1 -> Int], NEW data \in [0 .. h - 1 -> [0 .. n - 1 -> Int]],
           \A i, j \in 0 .. h - 1 : i < j => to[i] + n <= to[j]
    PROVE  Written(Blt!CopyRows(base, h, to, data, n), base, to, data, n, h)
<1> DEFINE T == [D -> Int]
           Row(k, m) == Blt!CopyMem(m, to[k - 1], data[k - 1], n)
           G == [k \in 1 .. h |-> [m \in T |-> Row(k, m)]]
           Solves(g) == g = [k \in 0 .. h |-> IF k = 0 THEN base ELSE Row(k, g[k - 1])]
           copied == CHOOSE g : Solves(g)
<1>1. G \in StepsOf(h, T)
  <2>1. ASSUME NEW k \in 1 .. h, NEW m \in T
        PROVE  Row(k, m) \in T
    <3> PICK t \in Int : t = to[k - 1]
      OBVIOUS
    <3> PICK d \in [0 .. n - 1 -> Int] : d = data[k - 1]
      OBVIOUS
    <3>1. Copied(Blt!CopyMem(m, t, d, n), m, t, d, n)
      BY CopyMemIs
    <3> QED BY <3>1 DEF Copied
  <2> HIDE DEF T, Row
  <2> QED BY <2>1 DEF StepsOf
<1>2. PICK f : Runs(f, h, T, base, G)
  <2> HIDE DEF G
  <2> QED BY <1>1, RunExists
<1>3. Solves(f)
  <2>1. /\ f \in [0 .. h -> T] /\ f[0] = base
        /\ \A k \in 1 .. h : f[k] = G[k][f[k - 1]]
    BY <1>2 DEF Runs
  <2>2. ASSUME NEW k \in 1 .. h
        PROVE  f[k] = Row(k, f[k - 1])
    <3>1. f[k - 1] \in T /\ f[k] = G[k][f[k - 1]]
      <4> HIDE DEF G, T
      <4> QED BY <2>1
    <3> HIDE DEF Row, T
    <3> QED BY <3>1
  <2> HIDE DEF Row, T
  <2> QED BY <2>1, <2>2
<1>4. Solves(copied)
  <2> HIDE DEF Solves
  <2> QED BY <1>3
<1>5. Blt!CopyRows(base, h, to, data, n) = copied[h]
  BY DEF Blt!CopyRows
<1> HIDE DEF copied
<1>6. copied[0] = base /\ \A k \in 1 .. h : copied[k] = Row(k, copied[k - 1])
  <2> HIDE DEF Row
  <2> QED BY <1>4
<1>7. \A k \in 0 .. h - 1 : copied[k + 1] = Blt!CopyMem(copied[k], to[k], data[k], n)
  <2> TAKE k \in 0 .. h - 1
  <2>1. k + 1 \in 1 .. h /\ k + 1 - 1 = k
    OBVIOUS
  <2> QED BY <1>6, <2>1
<1> HIDE DEF Solves, Row, G, T
<1>8. Written(copied[h], base, to, data, n, h)
  BY <1>6, <1>7, RowsWritten
<1> QED BY <1>5, <1>8

\* A configuration made of a screen: its colours are in three of the pixel's bytes
\* and its lines, of two pixels at least, are in memory with one more behind them.
Ready(g) ==
    /\ g.Width \in Nat /\ g.Height \in Nat
    /\ g.PixelsPerScanLine \in Nat \ {0, 1} /\ g.Width <= g.PixelsPerScanLine
    /\ g.BytesPerPixel \in {3, 4}
    /\ g.masks \in [1 .. 3 -> 0 .. g.BytesPerPixel - 1]
    /\ \A i, j \in 1 .. 3 : g.masks[i] = g.masks[j] => i = j
    /\ g.bgr \in BOOLEAN
    /\ g.bgr => g.BytesPerPixel = 4 /\ \A i \in 1 .. 3 : g.masks[i] = 3 - i
    /\ (g.Height + 1) * (g.BytesPerPixel * g.PixelsPerScanLine) <= MemorySize

\* The inductive invariant: the library is not configured or for a screen, and
\* memory and the caller's bitmap are as large as they were.
BltInv ==
    /\ bltInstalled \in BOOLEAN /\ calls \in 0 .. MaxCalls
    /\ memory \in [0 .. MemorySize - 1 -> Int]
    /\ \E b \in Bitmaps : bitmap \in [DOMAIN b -> Int]
    /\ configure = Blt!NotConfigured \/ Ready(configure)

\* FrameBufferBltLibConfigurePixelFormat: the last byte of a colour or the
\* reserved one, counted from 1.
LEMMA BytesOfPixel ==
    ASSUME Blt!BltAssumption, NEW i \in Blt!Screens
    PROVE  /\ Blt!FrameBufferBltLibConfigurePixelFormat(i) \in {3, 4}
           /\ \A k \in 1 .. 3 : i.masks[k] < Blt!FrameBufferBltLibConfigurePixelFormat(i)
           /\ i.reserved < Blt!FrameBufferBltLibConfigurePixelFormat(i)
<1> DEFINE S == {i.masks[k] : k \in 1 .. 3} \cup {i.reserved}
           Last(b) == b \in S /\ \A c \in S : c <= b
           last == CHOOSE b \in S : \A c \in S : c <= b
<1>1. /\ i.masks \in [1 .. 3 -> 0 .. 3] /\ i.reserved \in 0 .. 3
      /\ \A j, k \in 1 .. 3 : i.masks[j] = i.masks[k] => j = k
  BY DEF Blt!BltAssumption
<1>2. S \subseteq 0 .. 3 /\ i.reserved \in S /\ \A k \in 1 .. 3 : i.masks[k] \in S
  BY <1>1
<1>3. 3 \in S \/ 2 \in S
  <2>1. i.masks[1] \in 0 .. 3 /\ i.masks[2] \in 0 .. 3 /\ i.masks[3] \in 0 .. 3
    BY <1>1
  <2>2. i.masks[1] # i.masks[2] /\ i.masks[1] # i.masks[3] /\ i.masks[2] # i.masks[3]
    BY <1>1
  <2>3. \E k \in 1 .. 3 : i.masks[k] \in {2, 3}
    BY <2>1, <2>2
  <2> QED BY <1>2, <2>3
<1>4. Blt!FrameBufferBltLibConfigurePixelFormat(i) = 1 + last
  BY DEF Blt!FrameBufferBltLibConfigurePixelFormat
<1> HIDE DEF S
<1>5. \E b \in {2, 3} : Last(b)
  <2>1. CASE 3 \in S
    BY <1>2, <2>1
  <2>2. CASE 3 \notin S
    BY <1>2, <1>3, <2>2
  <2> QED BY <2>1, <2>2
<1>6. Last(last)
  BY <1>5
<1> HIDE DEF last
<1>7. last \in {2, 3}
  BY <1>2, <1>5, <1>6
<1>8. /\ i.reserved \in 0 .. last
      /\ \A k \in 1 .. 3 : i.masks[k] \in 0 .. last
  BY <1>1, <1>2, <1>6
<1>9. 1 + last \in {3, 4} /\ \A x \in 0 .. last : x < 1 + last
  BY <1>7
<1> HIDE DEF Last
<1> QED BY <1>4, <1>8, <1>9

\* FrameBufferBltConfigure makes such a configuration of a screen.
LEMMA MadeReady ==
    ASSUME Blt!BltAssumption, NEW i \in Blt!Screens, NEW size,
           Blt!FrameBufferBltConfigure(i, size).status = "SUCCESS"
    PROVE  Ready(Blt!FrameBufferBltConfigure(i, size).made)
<1> DEFINE B == Blt!FrameBufferBltLibConfigurePixelFormat(i)
           g == [Width |-> i.HorizontalResolution, Height |-> i.VerticalResolution,
                 PixelsPerScanLine |-> i.PixelsPerScanLine, BytesPerPixel |-> B,
                 masks |-> i.masks, bgr |-> i.masks = <<2, 1, 0>> /\ i.reserved = 3]
<1>1. /\ i.HorizontalResolution \in Nat /\ i.VerticalResolution \in Nat
      /\ i.PixelsPerScanLine \in Nat \ {0, 1}
      /\ i.PixelsPerScanLine * (i.VerticalResolution + 1) * 4 <= MemorySize
      /\ MemorySize \in Nat
      /\ i.masks \in [1 .. 3 -> 0 .. 3] /\ i.reserved \in 0 .. 3
      /\ \A j, k \in 1 .. 3 : i.masks[j] = i.masks[k] => j = k
  BY DEF Blt!BltAssumption
<1>2. B \in {3, 4} /\ i.reserved < B /\ \A k \in 1 .. 3 : i.masks[k] < B
  BY BytesOfPixel
<1>3. /\ Blt!FrameBufferBltConfigure(i, size).made = g
      /\ i.HorizontalResolution <= i.PixelsPerScanLine
  BY <1>1 DEF Blt!FrameBufferBltConfigure
<1> HIDE DEF B
<1>4. /\ g.Width = i.HorizontalResolution /\ g.Height = i.VerticalResolution
      /\ g.PixelsPerScanLine = i.PixelsPerScanLine /\ g.BytesPerPixel = B
      /\ g.masks = i.masks /\ g.bgr = (i.masks = <<2, 1, 0>> /\ i.reserved = 3)
  OBVIOUS
<1> HIDE DEF g
<1>5. g.masks \in [1 .. 3 -> 0 .. B - 1]
  <2>1. \A k \in 1 .. 3 : i.masks[k] \in 0 .. B - 1
    BY <1>1, <1>2
  <2> QED BY <1>1, <1>4, <2>1
<1>6. g.bgr \in BOOLEAN /\ (g.bgr => B = 4 /\ \A k \in 1 .. 3 : g.masks[k] = 3 - k)
  <2>1. ASSUME i.masks = <<2, 1, 0>>, i.reserved = 3
        PROVE  B = 4 /\ \A k \in 1 .. 3 : i.masks[k] = 3 - k
    BY <1>2, <2>1
  <2> QED BY <1>4, <2>1
<1>7. (i.VerticalResolution + 1) * (B * i.PixelsPerScanLine) <= MemorySize
  <2> PICK v \in Nat, p \in Nat : v = i.VerticalResolution + 1 /\ p = i.PixelsPerScanLine
    BY <1>1
  <2>1. p * v \in Nat /\ p * v * 4 <= MemorySize
    BY <1>1
  <2>2. v * (3 * p) = 3 * (p * v) /\ v * (4 * p) = 4 * (p * v)
    BY Z3
  <2>3. v * (B * p) <= p * v * 4
    BY <1>2, <2>1, <2>2
  <2>4. v * (B * p) \in Nat
    BY <1>2, <2>1, <2>2
  <2> QED BY <1>1, <2>1, <2>3, <2>4
<1> QED BY <1>1, <1>2, <1>3, <1>4, <1>5, <1>6, <1>7 DEF Ready

\* A line begins where those above it end.
LEMMA LinesApart ==
    ASSUME NEW y \in Nat, NEW z \in Nat, y < z, NEW s \in Nat
    PROVE  y * s + s <= z * s
  BY Z3

\* Place u of line y is one of the n from lo on of line z.
Meets(s, y, u, z, lo, n) ==
    y * s + u \in z * s + lo .. z * s + lo + n - 1 <=> y = z /\ u \in lo .. lo + n - 1

\* It is that if it is the same line, and there.
LEMMA SameLine ==
    ASSUME NEW s \in Nat, NEW y \in Nat, NEW u \in 0 .. s - 1,
           NEW z \in Nat, NEW lo \in Nat, NEW n \in Nat, lo + n <= s
    PROVE  Meets(s, y, u, z, lo, n)
<1>1. y * s \in Nat /\ z * s \in Nat
  BY Z3
<1>2. CASE y = z
  BY <1>1, <1>2 DEF Meets
<1>3. CASE y < z
  <2>1. y * s + s <= z * s
    BY <1>3, LinesApart
  <2> QED BY <1>1, <1>3, <2>1 DEF Meets
<1>4. CASE z < y
  <2>1. z * s + s <= y * s
    BY <1>4, LinesApart
  <2> QED BY <1>1, <1>4, <2>1 DEF Meets
<1> QED BY <1>2, <1>3, <1>4

\* The address of a pixel: its line, and its place there.
LEMMA AddressIs ==
    ASSUME Ready(configure), NEW x \in Nat, NEW y \in Nat
    PROVE  /\ Blt!Stride \in Nat
           /\ Blt!Stride = configure.BytesPerPixel * configure.PixelsPerScanLine
           /\ Blt!Address(x, y) = y * Blt!Stride + configure.BytesPerPixel * x
           /\ Blt!Address(x, y) \in Nat /\ y * Blt!Stride \in Nat
<1> PICK p \in Nat : p = configure.PixelsPerScanLine
  BY DEF Ready
<1>1. configure.BytesPerPixel \in {3, 4}
  BY DEF Ready
<1>2. /\ y * p \in Nat /\ y * (3 * p) = 3 * (y * p) /\ y * (4 * p) = 4 * (y * p)
  BY Z3
<1>3. CASE configure.BytesPerPixel = 3
  BY <1>2, <1>3 DEF Blt!Address, Blt!Stride
<1>4. CASE configure.BytesPerPixel = 4
  BY <1>2, <1>4 DEF Blt!Address, Blt!Stride
<1> QED BY <1>1, <1>3, <1>4

\* Pixel x of a line has its bytes there, and they are those of a row of w pixels
\* from d on if x is one of them.
LEMMA PixelIs ==
    ASSUME Ready(configure), NEW x \in 0 .. configure.Width - 1,
           NEW m \in 0 .. configure.BytesPerPixel - 1,
           NEW d \in Nat, NEW w \in Nat, d + w <= configure.Width
    PROVE  LET B == configure.BytesPerPixel IN
           /\ B * x + m \in 0 .. Blt!Stride - 1
           /\ B * d \in Nat /\ w * B \in Nat /\ B * d + w * B <= Blt!Stride
           /\ B * x + m \in B * d .. B * d + w * B - 1 <=> x \in d .. d + w - 1
<1> PICK p \in Nat : p = configure.PixelsPerScanLine
  BY DEF Ready
<1>1. /\ configure.BytesPerPixel \in {3, 4} /\ configure.Width \in Nat
      /\ configure.Width <= p
  BY DEF Ready
<1>2. CASE configure.BytesPerPixel = 3
  BY <1>1, <1>2 DEF Blt!Stride
<1>3. CASE configure.BytesPerPixel = 4
  BY <1>1, <1>3 DEF Blt!Stride
<1> QED BY <1>1, <1>2, <1>3

\* A rectangle on the screen that is not empty.
Placed(c) ==
    /\ c.DestinationX \in Nat /\ c.DestinationY \in Nat
    /\ c.Width \in Nat \ {0} /\ c.Height \in Nat \ {0}
    /\ c.DestinationX + c.Width <= configure.Width
    /\ c.DestinationY + c.Height <= configure.Height

\* The bytes of the screen's pixels are in memory, and so is a line behind them.
LEMMA InMemory ==
    ASSUME Ready(configure), MemorySize \in Nat,
           NEW x \in 0 .. configure.Width - 1, NEW y \in 0 .. configure.Height,
           NEW m \in 0 .. configure.BytesPerPixel - 1
    PROVE  Blt!Address(x, y) + m \in 0 .. MemorySize - 1
<1> DEFINE B == configure.BytesPerPixel
           S == Blt!Stride
           H == configure.Height
<1>1. H \in Nat /\ (H + 1) * S <= MemorySize /\ configure.Width \in Nat /\ B \in {3, 4}
  BY DEF Ready, Blt!Stride
<1>2. /\ S \in Nat /\ y * S \in Nat /\ Blt!Address(x, y) = y * S + B * x
      /\ Blt!Address(x, y) \in Nat
  <2>1. x \in Nat /\ y \in Nat
    BY <1>1
  <2> QED BY <2>1, AddressIs
<1>3. B * x + m \in 0 .. S - 1
  BY <1>1, PixelIs
<1> PICK s \in Nat : s = S
  BY <1>2
<1> PICK z \in Nat : z = H + 1
  BY <1>1
<1>4. y \in Nat /\ y < z /\ y * s + s <= z * s
  BY <1>1, LinesApart
<1>5. z * s \in Nat /\ z * s <= MemorySize
  BY <1>1
<1> HIDE DEF B, H, S
<1>6. B * x \in Int /\ m \in Int
  BY <1>1 DEF B
<1> QED BY <1>1, <1>2, <1>3, <1>4, <1>5, <1>6

\* The rows of a rectangle on the screen: where they are, one behind the other.
LEMMA RowsOnScreen ==
    ASSUME Ready(configure), NEW c, Placed(c)
    PROVE  /\ Blt!WidthInBytes(c) \in Nat
           /\ Blt!WidthInBytes(c) = c.Width * configure.BytesPerPixel
           /\ Blt!OnScreen(c) \in [0 .. c.Height - 1 -> Int]
           /\ \A i \in 0 .. c.Height - 1 :
                Blt!OnScreen(c)[i] = (c.DestinationY + i) * Blt!Stride
                                        + configure.BytesPerPixel * c.DestinationX
           /\ \A i, j \in 0 .. c.Height - 1 : i < j =>
                Blt!OnScreen(c)[i] + Blt!WidthInBytes(c) <= Blt!OnScreen(c)[j]
<1> DEFINE B == configure.BytesPerPixel
           n == Blt!WidthInBytes(c)
<1> PICK dx \in Nat, dy \in Nat, w \in Nat, h \in Nat :
      dx = c.DestinationX /\ dy = c.DestinationY /\ w = c.Width /\ h = c.Height
  BY DEF Placed
<1>1. B \in {3, 4} /\ configure.Width \in Nat /\ dx + w <= configure.Width /\ w > 0
  BY DEF Ready, Placed
<1>2. n = w * B /\ n \in Nat
  BY <1>1 DEF Blt!WidthInBytes
<1>3. B * dx \in Nat /\ B * dx + n <= Blt!Stride /\ Blt!Stride \in Nat
  <2>1. dx \in 0 .. configure.Width - 1 /\ 0 \in 0 .. B - 1
    BY <1>1
  <2>2. B * dx \in Nat /\ B * dx + w * B <= Blt!Stride
    BY <1>1, <2>1, PixelIs
  <2>3. Blt!Stride \in Nat
    BY AddressIs
  <2> QED BY <1>2, <2>2, <2>3
<1> PICK s \in Nat : s = Blt!Stride
  BY <1>3
<1> PICK off \in Nat : off = B * dx
  BY <1>3
<1>4. ASSUME NEW i \in 0 .. h - 1
      PROVE  /\ Blt!OnScreen(c)[i] = (dy + i) * s + off
             /\ (dy + i) * s \in Nat
  <2>1. dy + i \in Nat
    OBVIOUS
  <2>2. Blt!Address(dx, dy + i) = (dy + i) * s + off /\ (dy + i) * s \in Nat
    BY <2>1, AddressIs
  <2> QED BY <2>2 DEF Blt!OnScreen, Blt!Rows
<1>5. Blt!OnScreen(c) \in [0 .. h - 1 -> Int]
  <2>1. Blt!OnScreen(c) = [k \in 0 .. h - 1 |-> Blt!Address(dx, dy + k)]
    BY DEF Blt!OnScreen, Blt!Rows
  <2>2. \A k \in 0 .. h - 1 : Blt!Address(dx, dy + k) \in Int
    <3> TAKE k \in 0 .. h - 1
    <3>1. dy + k \in Nat
      OBVIOUS
    <3>2. Blt!Address(dx, dy + k) \in Nat
      BY <3>1, AddressIs
    <3> QED BY <3>2
  <2> QED BY <2>1, <2>2
<1>6. ASSUME NEW i \in 0 .. h - 1, NEW j \in 0 .. h - 1, i < j
      PROVE  Blt!OnScreen(c)[i] + n <= Blt!OnScreen(c)[j]
  <2> PICK y \in Nat, z \in Nat : y = dy + i /\ z = dy + j
    OBVIOUS
  <2>1. y * s + s <= z * s
    BY <1>6, LinesApart
  <2>2. /\ Blt!OnScreen(c)[i] = y * s + off /\ y * s \in Nat
        /\ Blt!OnScreen(c)[j] = z * s + off /\ z * s \in Nat
    BY <1>4
  <2> HIDE DEF n, B
  <2> QED BY <1>2, <1>3, <2>1, <2>2
<1> QED BY <1>2, <1>4, <1>5, <1>6

\* A byte of a pixel is in row i of a rectangle if the pixel is, and where.
InRow(c, i, x, y, m) ==
    LET a == Blt!Address(x, y) + m
        first == Blt!OnScreen(c)[i]
    IN  /\ a \in first .. first + Blt!WidthInBytes(c) - 1 <=>
              y = c.DestinationY + i /\ x \in c.DestinationX .. c.DestinationX + c.Width - 1
        /\ y = c.DestinationY + i =>
              a - first = configure.BytesPerPixel * (x - c.DestinationX) + m

\* A byte of a pixel on the screen is in a row if the pixel is.
LEMMA RowOfPixel ==
    ASSUME Ready(configure), NEW c, Placed(c), NEW i \in 0 .. c.Height - 1,
           NEW x \in 0 .. configure.Width - 1, NEW y \in 0 .. configure.Height - 1,
           NEW m \in 0 .. configure.BytesPerPixel - 1
    PROVE  InRow(c, i, x, y, m)
<1> DEFINE B == configure.BytesPerPixel
           S == Blt!Stride
           bx == B * x
           bd == B * c.DestinationX
           n == Blt!WidthInBytes(c)
           a == Blt!Address(x, y) + m
           first == Blt!OnScreen(c)[i]
<1> PICK d \in Nat, z \in Nat, w \in Nat :
      d = c.DestinationX /\ z = c.DestinationY + i /\ w = c.Width
  BY DEF Placed
<1>1. /\ configure.Width \in Nat /\ configure.Height \in Nat
      /\ d + w <= configure.Width /\ B \in {3, 4}
  BY DEF Ready, Placed
<1>2. x \in Nat /\ y \in Nat /\ m \in Nat
  BY <1>1
<1>3. n = w * B /\ n \in Nat /\ first = z * S + bd
  BY RowsOnScreen
<1>4. /\ S \in Nat /\ y * S \in Nat /\ Blt!Address(x, y) = y * S + bx
  BY <1>2, AddressIs
<1>5. /\ bx + m \in 0 .. S - 1 /\ bd \in Nat /\ bd + w * B <= S
      /\ (bx + m \in bd .. bd + w * B - 1) <=> x \in d .. d + w - 1
  BY <1>1, PixelIs
<1>6. bx \in Nat /\ bx + m - bd = B * (x - d) + m
  <2>1. CASE B = 3
    BY <1>2, <2>1
  <2>2. CASE B = 4
    BY <1>2, <2>2
  <2> QED BY <1>1, <2>1, <2>2
<1>7. bd + n <= S /\ ((bx + m \in bd .. bd + n - 1) <=> x \in d .. d + w - 1)
  BY <1>3, <1>5
<1> HIDE DEF B, S, bx, bd, n
<1>8. a = y * S + (bx + m)
  <2> PICK t \in Nat : t = y * S
    BY <1>4
  <2> QED BY <1>2, <1>4, <1>6
<1>9. y * S + (bx + m) \in z * S + bd .. z * S + bd + n - 1 <=>
        y = z /\ bx + m \in bd .. bd + n - 1
  <2> PICK u \in 0 .. S - 1 : u = bx + m
    BY <1>5
  <2>1. Meets(S, y, u, z, bd, n)
    BY <1>2, <1>3, <1>4, <1>5, <1>7, SameLine
  <2> QED BY <2>1 DEF Meets
<1>10. a \in first .. first + n - 1 <=> y = z /\ x \in d .. d + w - 1
  <2> HIDE DEF a, first
  <2>1. a \in first .. first + n - 1 <=>
          y * S + (bx + m) \in z * S + bd .. z * S + bd + n - 1
    BY <1>3, <1>8
  <2> QED BY <1>7, <1>9, <2>1
<1>11. ASSUME y = z
       PROVE  a - first = B * (x - d) + m
  <2> PICK t \in Nat : t = y * S
    BY <1>4
  <2> HIDE DEF a, first
  <2>1. a = t + (bx + m) /\ first = t + bd
    BY <1>3, <1>8, <1>11
  <2>2. a - first = bx + m - bd
    BY <1>2, <1>5, <1>6, <2>1
  <2> QED BY <1>6, <2>2
<1> HIDE DEF a, first
<1> QED BY <1>10, <1>11 DEF a, first, n, B, InRow

\* How far a number of a range is behind the first one.
LEMMA Offset ==
    ASSUME NEW d \in Nat, NEW n \in Nat, NEW v \in d .. d + n - 1
    PROVE  v - d \in 0 .. n - 1 /\ v = d + (v - d)
  OBVIOUS

\* Byte m of pixel p, when rows of data are written on the screen: inside of the
\* rectangle it is the data's, outside of it what it was.
Shown(c, p, m, after, data) ==
    LET b == configure.BytesPerPixel * (p[1] - c.DestinationX) + m
        a == Blt!Address(p[1], p[2]) + m
    IN  /\ Blt!Inside(c, p) => /\ p[2] - c.DestinationY \in 0 .. c.Height - 1
                               /\ p[1] - c.DestinationX \in 0 .. c.Width - 1
                               /\ after[a] = data[p[2] - c.DestinationY][b]
        /\ ~Blt!Inside(c, p) => after[a] = memory[a]

\* What rows of data written one after the other leave of the screen.
LEMMA ScreenAfter ==
    ASSUME Ready(configure), MemorySize \in Nat, memory \in [0 .. MemorySize - 1 -> Int],
           NEW c, Placed(c), NEW after, NEW data,
           Written(after, memory, Blt!OnScreen(c), data, Blt!WidthInBytes(c), c.Height),
           NEW p \in Blt!Points, NEW m \in 0 .. configure.BytesPerPixel - 1
    PROVE  Shown(c, p, m, after, data)
<1> DEFINE B == configure.BytesPerPixel
           n == Blt!WidthInBytes(c)
           to == Blt!OnScreen(c)
<1> PICK dx \in Nat, dy \in Nat, w \in Nat, h \in Nat :
      dx = c.DestinationX /\ dy = c.DestinationY /\ w = c.Width /\ h = c.Height
  BY DEF Placed
<1>1. configure.Width \in Nat /\ configure.Height \in Nat
  BY DEF Ready
<1> PICK x \in 0 .. configure.Width - 1, y \in 0 .. configure.Height - 1 : x = p[1] /\ y = p[2]
  BY <1>1 DEF Blt!Points
<1> DEFINE a == Blt!Address(x, y) + m
<1>2. a \in 0 .. MemorySize - 1
  <2>1. y \in 0 .. configure.Height
    BY <1>1
  <2> QED BY <2>1, InMemory
<1>3. Blt!Inside(c, p) <=> x \in dx .. dx + w - 1 /\ y \in dy .. dy + h - 1
  BY DEF Blt!Inside
<1>4. ASSUME NEW i \in 0 .. h - 1
      PROVE  /\ a \in to[i] .. to[i] + n - 1 <=> y = dy + i /\ x \in dx .. dx + w - 1
             /\ y = dy + i => a - to[i] = B * (x - dx) + m
  <2>1. InRow(c, i, x, y, m)
    BY RowOfPixel
  <2> QED BY <2>1 DEF InRow
<1> HIDE DEF a, n, to, B
<1>5. /\ \A i \in 0 .. h - 1 : a \in to[i] .. to[i] + n - 1 => after[a] = data[i][a - to[i]]
      /\ (\A i \in 0 .. h - 1 : a \notin to[i] .. to[i] + n - 1) => after[a] = memory[a]
  <2>1. a \in DOMAIN memory
    BY <1>2
  <2> QED BY <2>1 DEF Written, n, to
<1>6. CASE Blt!Inside(c, p)
  <2>0. y \in dy .. dy + h - 1 /\ x \in dx .. dx + w - 1
    BY <1>3, <1>6
  <2>1. x - dx \in 0 .. w - 1
    BY <2>0, Offset
  <2> PICK i \in 0 .. h - 1 : i = y - dy /\ y = dy + i
    BY ZenonT(60), <2>0, Offset
  <2>2. after[a] = data[i][a - to[i]]
    BY <1>4, <1>5, <2>0
  <2>3. a - to[i] = B * (x - dx) + m
    BY <1>4
  <2> QED BY <1>6, <2>1, <2>2, <2>3 DEF a, B, Shown
<1>7. CASE ~Blt!Inside(c, p)
  <2>1. \A i \in 0 .. h - 1 : a \notin to[i] .. to[i] + n - 1
    <3> SUFFICES ASSUME NEW i \in 0 .. h - 1, a \in to[i] .. to[i] + n - 1
                 PROVE  FALSE
      OBVIOUS
    <3>1. y = dy + i /\ x \in dx .. dx + w - 1
      BY <1>4
    <3>2. y \in dy .. dy + h - 1
      BY SMTT(40), <3>1
    <3> QED BY <1>3, <1>7, <3>1, <3>2
  <2>2. after[a] = memory[a]
    BY <1>5, <2>1
  <2> QED BY <1>7, <2>2 DEF a, Shown
<1> QED BY <1>6, <1>7

\* Byte u of a row of w pixels is in its pixel number u \div B.
LEMMA PixelOfByte ==
    ASSUME NEW B \in {3, 4}, NEW w \in Nat, NEW u \in 0 .. w * B - 1
    PROVE  /\ u \div B \in 0 .. w - 1
           /\ u - B * (u \div B) \in 0 .. B - 1
<1>1. CASE B = 3
  BY <1>1
<1>2. CASE B = 4
  BY <1>2
<1> QED BY <1>1, <1>2

\* A byte that is in a row of a rectangle is in one of the rectangle's pixels.
InPixel(c, a) ==
    \E p \in Blt!Points : /\ Blt!Inside(c, p)
                          /\ a - Blt!Address(p[1], p[2]) \in 0 .. configure.BytesPerPixel - 1

\* Every byte of the rectangle's rows is in one of its pixels.
LEMMA ByteOfRow ==
    ASSUME Ready(configure), NEW c, Placed(c), NEW i \in 0 .. c.Height - 1, NEW a \in Int,
           a \in Blt!OnScreen(c)[i] .. Blt!OnScreen(c)[i] + Blt!WidthInBytes(c) - 1
    PROVE  InPixel(c, a)
<1> DEFINE B == configure.BytesPerPixel
           S == Blt!Stride
           n == Blt!WidthInBytes(c)
           first == Blt!OnScreen(c)[i]
<1> PICK dx \in Nat, dy \in Nat, w \in Nat, h \in Nat :
      dx = c.DestinationX /\ dy = c.DestinationY /\ w = c.Width /\ h = c.Height
  BY DEF Placed
<1>1. /\ configure.Width \in Nat /\ configure.Height \in Nat /\ B \in {3, 4}
      /\ dx + w <= configure.Width /\ dy + h <= configure.Height
  BY DEF Ready, Placed
<1>2. n = w * B /\ first = (dy + i) * S + B * dx
  BY RowsOnScreen
<1>3. dx \in Nat /\ dy + i \in Nat
  OBVIOUS
<1>4. first \in Int /\ (dy + i) * S \in Nat /\ S \in Nat
  BY <1>3, RowsOnScreen, AddressIs
<1> PICK u \in Int : u = a - first
  BY <1>4
<1>5. u \in 0 .. w * B - 1 /\ a = first + u
  <2> PICK k \in Int : k = w * B
    BY <1>1
  <2> HIDE DEF B, first, n, S
  <2>1. a \in first .. first + k - 1
    BY <1>2 DEF first, n
  <2> QED BY <1>4, <2>1
<1> PICK q \in 0 .. w - 1 : q = u \div B
  BY <1>1, <1>5, PixelOfByte
<1>6. u - B * q \in 0 .. B - 1
  BY <1>1, <1>5, PixelOfByte
<1> PICK x \in Nat, y \in Nat : x = dx + q /\ y = dy + i
  OBVIOUS
<1>7. <<x, y>> \in Blt!Points /\ Blt!Inside(c, <<x, y>>)
  BY <1>1 DEF Blt!Points, Blt!Inside
<1>8. Blt!Address(x, y) = y * S + B * x
  BY AddressIs
<1>9. B * x = B * dx + B * q /\ B * dx \in Nat /\ B * q \in Nat
  <2>1. CASE B = 3
    BY <2>1
  <2>2. CASE B = 4
    BY <2>2
  <2> QED BY <1>1, <2>1, <2>2
<1>10. a - Blt!Address(x, y) = u - B * q
  <2> PICK t \in Nat : t = y * S
    BY <1>3, <1>4
  <2>1. first = t + B * dx
    BY <1>2
  <2> PICK v \in Nat : v = B * q
    BY <1>9
  <2> PICK f \in Nat : f = B * dx
    BY <1>9
  <2>2. Blt!Address(x, y) = t + (f + v) /\ first = t + f
    BY <1>8, <1>9, <2>1
  <2> HIDE DEF B, first, S, n
  <2>3. a - Blt!Address(x, y) = u - v
    BY <1>5, <2>2
  <2> QED BY <2>3
<1> HIDE DEF B, first, S, n
<1>11. a - Blt!Address(x, y) \in 0 .. B - 1
  BY <1>6, <1>10
<1>12. <<x, y>>[1] = x /\ <<x, y>>[2] = y
  OBVIOUS
<1> QED BY <1>7, <1>11, <1>12 DEF InPixel, B

\* After a call that paints: the rectangle's pixels have their colours, the other
\* ones are as they were, and no byte is changed outside of the rectangle.
OnlyPainted(c, after) ==
    /\ \A p \in Blt!Points :
          Blt!Colours(after, p[1], p[2]) =
              IF Blt!Inside(c, p) THEN Blt!Painted(c, p) ELSE Blt!Colours(memory, p[1], p[2])
    /\ \A a \in DOMAIN memory : after[a] = memory[a] \/ InPixel(c, a)

\* The rectangle's pixels have their colours in the rows of data.
Paints(c, data) ==
    \A p \in Blt!Points : Blt!Inside(c, p) =>
        Blt!Painted(c, p) = [k \in 0 .. 2 |-> data[p[2] - c.DestinationY]
             [configure.BytesPerPixel * (p[1] - c.DestinationX) + configure.masks[3 - k]]]

\* Rows that have the pixels' colours paint the rectangle and nothing else.
LEMMA RowsPaint ==
    ASSUME Ready(configure), MemorySize \in Nat, memory \in [0 .. MemorySize - 1 -> Int],
           NEW c, Placed(c), NEW after, NEW data,
           Written(after, memory, Blt!OnScreen(c), data, Blt!WidthInBytes(c), c.Height),
           Paints(c, data)
    PROVE  OnlyPainted(c, after)
<1>1. ASSUME NEW k \in 0 .. 2
      PROVE  configure.masks[3 - k] \in 0 .. configure.BytesPerPixel - 1
  <2>1. 3 - k \in 1 .. 3
    OBVIOUS
  <2> QED BY <2>1 DEF Ready
<1>2. ASSUME NEW p \in Blt!Points
      PROVE  Blt!Colours(after, p[1], p[2]) =
                 IF Blt!Inside(c, p) THEN Blt!Painted(c, p) ELSE Blt!Colours(memory, p[1], p[2])
  <2> DEFINE at(k) == Blt!Address(p[1], p[2]) + configure.masks[3 - k]
             D(k) == data[p[2] - c.DestinationY]
                    [configure.BytesPerPixel * (p[1] - c.DestinationX) + configure.masks[3 - k]]
  <2>1. ASSUME NEW k \in 0 .. 2
        PROVE  /\ Blt!Inside(c, p) => after[at(k)] = D(k)
               /\ ~Blt!Inside(c, p) => after[at(k)] = memory[at(k)]
    <3> PICK m \in 0 .. configure.BytesPerPixel - 1 : m = configure.masks[3 - k]
      BY <1>1
    <3>1. Shown(c, p, m, after, data)
      BY ScreenAfter
    <3> QED BY <3>1 DEF Shown
  <2>2. /\ Blt!Colours(after, p[1], p[2]) = [k \in 0 .. 2 |-> after[at(k)]]
        /\ Blt!Colours(memory, p[1], p[2]) = [k \in 0 .. 2 |-> memory[at(k)]]
    BY DEF Blt!Colours
  <2>3. Blt!Inside(c, p) => Blt!Painted(c, p) = [k \in 0 .. 2 |-> D(k)]
    BY DEF Paints
  <2> HIDE DEF at, D
  <2>4. CASE Blt!Inside(c, p)
    BY <2>1, <2>2, <2>3, <2>4
  <2>5. CASE ~Blt!Inside(c, p)
    BY <2>1, <2>2, <2>5
  <2> QED BY <2>4, <2>5
<1>3. ASSUME NEW a \in DOMAIN memory, after[a] # memory[a]
      PROVE  InPixel(c, a)
  <2>1. PICK i \in 0 .. c.Height - 1 :
           a \in Blt!OnScreen(c)[i] .. Blt!OnScreen(c)[i] + Blt!WidthInBytes(c) - 1
    BY <1>3 DEF Written
  <2>2. a \in Int
    OBVIOUS
  <2> QED BY <2>1, <2>2, ByteOfRow
<1> QED BY <1>2, <1>3 DEF OnlyPainted

\* What is assumed of a call.
LEMMA CallIs ==
    ASSUME Blt!BltAssumption, NEW c \in BltCalls
    PROVE  /\ c.op \in {"VideoFill", "BufferToVideo", "VideoToBltBuffer", "VideoToVideo"}
           /\ c.SourceX \in Nat /\ c.SourceY \in Nat
           /\ c.DestinationX \in Nat /\ c.DestinationY \in Nat
           /\ c.Width \in Nat /\ c.Height \in Nat
           /\ Blt!RowOf(c) \in Nat /\ Blt!RowOf(c) >= c.Width * 4
<1>1. /\ {c.SourceX, c.SourceY, c.DestinationX, c.DestinationY} \subseteq Nat
      /\ {c.Width, c.Height, c.Delta} \subseteq Nat
      /\ c.op \in {"VideoFill", "BufferToVideo", "VideoToBltBuffer", "VideoToVideo"}
      /\ c.Delta = 0 \/ c.Delta >= c.Width * 4
  BY DEF Blt!BltAssumption
<1>2. Blt!RowOf(c) \in Nat /\ Blt!RowOf(c) >= c.Width * 4
  BY <1>1 DEF Blt!RowOf
<1> QED BY <1>1, <1>2

\* A rectangle that is not refused is on the screen.
LEMMA IsPlaced ==
    ASSUME Blt!BltAssumption, Ready(configure), NEW c \in BltCalls, ~Blt!Refused(c),
           c.op # "VideoToBltBuffer"
    PROVE  Placed(c)
<1>1. ~Blt!EmptyRectangle(c) /\ ~Blt!PastScreen(c.DestinationX, c.DestinationY, c)
  BY DEF Blt!Refused
<1>2. configure.Width \in Nat /\ configure.Height \in Nat
  BY DEF Ready
<1> QED BY <1>1, <1>2, CallIs DEF Placed, Blt!EmptyRectangle, Blt!PastScreen

\* The caller's bitmap has the bytes of the pixels that a call has to be given.
LEMMA BitmapHolds ==
    ASSUME Blt!BltAssumption, NEW b \in Bitmaps, bitmap \in [DOMAIN b -> Int],
           NEW c \in BltCalls, ~Blt!EmptyRectangle(c), NEW x \in Nat, NEW y \in Nat,
           <<x, y>> \in Blt!Given(c), NEW m \in 0 .. 3
    PROVE  /\ Blt!InBitmap(c, x, y) = y * Blt!RowOf(c) + x * 4 /\ y * Blt!RowOf(c) \in Nat
           /\ Blt!InBitmap(c, x, y) \in Nat
           /\ Blt!InBitmap(c, x, y) + m \in DOMAIN bitmap
           /\ bitmap[Blt!InBitmap(c, x, y) + m] \in Int
<1> PICK r \in Nat : r = Blt!RowOf(c)
  BY CallIs
<1>1. y * r \in Nat
  OBVIOUS
<1>2. /\ Blt!InBitmap(c, x, y) = y * Blt!RowOf(c) + x * 4 /\ y * Blt!RowOf(c) \in Nat
      /\ Blt!InBitmap(c, x, y) \in Nat
  BY <1>1 DEF Blt!InBitmap
<1>3. <<x, y>>[1] = x /\ <<x, y>>[2] = y
  OBVIOUS
<1>4. Blt!InBitmap(c, x, y) .. (Blt!InBitmap(c, x, y) + 3) \subseteq DOMAIN b
  <2>1. \A e \in Bitmaps, p \in Blt!Given(c) : Blt!EmptyRectangle(c)
              \/ Blt!InBitmap(c, p[1], p[2]) .. (Blt!InBitmap(c, p[1], p[2]) + 3) \subseteq DOMAIN e
    BY DEF Blt!BltAssumption
  <2> QED BY <1>3, <2>1
<1> PICK i \in Nat : i = Blt!InBitmap(c, x, y)
  BY <1>2
<1>5. i + m \in i .. (i + 3)
  OBVIOUS
<1> QED BY <1>2, <1>4, <1>5

\* A pixel as the screen has it: each colour is where its mask says.
LEMMA ToVideoIs ==
    ASSUME Ready(configure), NEW px \in [0 .. 3 -> Int]
    PROVE  /\ Blt!ToVideo(px) \in [0 .. 3 -> Int]
           /\ \A k \in 0 .. 2 : Blt!ToVideo(px)[configure.masks[3 - k]] = px[k]
<1> DEFINE of(m) == CHOOSE i \in 1 .. 3 : configure.masks[i] = m
           byte(m) == IF \E i \in 1 .. 3 : configure.masks[i] = m THEN px[3 - of(m)] ELSE 0
<1>1. /\ configure.masks \in [1 .. 3 -> 0 .. 3]
      /\ \A i, j \in 1 .. 3 : configure.masks[i] = configure.masks[j] => i = j
  <2>1. configure.masks \in [1 .. 3 -> 0 .. configure.BytesPerPixel - 1]
        /\ configure.BytesPerPixel \in {3, 4}
    BY DEF Ready
  <2>2. \A i \in 1 .. 3 : configure.masks[i] \in 0 .. 3
    BY <2>1
  <2> QED BY <2>1, <2>2 DEF Ready
<1>2. ASSUME NEW i \in 1 .. 3
      PROVE  of(configure.masks[i]) = i
  <2>1. /\ of(configure.masks[i]) \in 1 .. 3
        /\ configure.masks[of(configure.masks[i])] = configure.masks[i]
    OBVIOUS
  <2> HIDE DEF of
  <2> QED BY <1>1, <2>1
<1>3. ASSUME NEW m \in 0 .. 3
      PROVE  byte(m) \in Int
  <2>1. CASE \E i \in 1 .. 3 : configure.masks[i] = m
    <3>1. of(m) \in 1 .. 3
      BY <2>1
    <3> HIDE DEF of
    <3> QED BY <2>1, <3>1
  <2>2. CASE ~\E i \in 1 .. 3 : configure.masks[i] = m
    BY <2>2
  <2> QED BY <2>1, <2>2
<1>4. Blt!ToVideo(px) = [m \in 0 .. 3 |-> byte(m)]
  BY DEF Blt!ToVideo
<1>5. ASSUME NEW k \in 0 .. 2
      PROVE  byte(configure.masks[3 - k]) = px[k]
  <2> PICK i \in 1 .. 3 : i = 3 - k
    OBVIOUS
  <2>1. 3 - i = k /\ of(configure.masks[i]) = i
    BY <1>2
  <2> HIDE DEF of
  <2> QED BY <2>1
<1> HIDE DEF byte
<1>6. \A k \in 0 .. 2 : configure.masks[3 - k] \in 0 .. 3
  <2> TAKE k \in 0 .. 2
  <2>1. 3 - k \in 1 .. 3
    OBVIOUS
  <2> QED BY <1>1, <2>1
<1> QED BY <1>3, <1>4, <1>5, <1>6

\* A row of a fill repeats the pixel, whichever way it is written.
Repeats(row, px, n) ==
    /\ row \in [0 .. n - 1 -> Int]
    /\ \A b \in 0 .. n - 1 : row[b] = px[b % configure.BytesPerPixel]

\* FilledRow repeats the pixel, with the wide fill and from the line buffer.
LEMMA FilledRowIs ==
    ASSUME Ready(configure), NEW px \in [0 .. 3 -> Int], NEW to \in Int, NEW n \in Nat
    PROVE  Repeats(Blt!FilledRow(px, to, n), px, n)
<1> DEFINE B == configure.BytesPerPixel
           row == [b \in 0 .. n - 1 |-> px[b % B]]
           wide == [b \in 0 .. n - 1 |-> Blt!WideFill(px)[b % 8]]
<1>1. B \in {3, 4}
  BY DEF Ready
<1>2. ASSUME NEW b \in Nat
      PROVE  b % B \in 0 .. B - 1 /\ b % B \in 0 .. 3
  <2>1. CASE B = 3
    BY <2>1
  <2>2. CASE B = 4
    BY <2>2
  <2> QED BY <1>1, <2>1, <2>2
<1>3. row \in [0 .. n - 1 -> Int]
  <2>1. \A b \in 0 .. n - 1 : px[b % B] \in Int
    <3> TAKE b \in 0 .. n - 1
    <3>1. b \in Nat
      OBVIOUS
    <3> PICK r \in 0 .. 3 : r = b % B
      BY <1>2, <3>1
    <3> QED OBVIOUS
  <2> HIDE DEF B
  <2> QED BY <2>1
<1>4. ASSUME Blt!UseWideFill(px), NEW b \in 0 .. n - 1
      PROVE  Blt!WideFill(px)[b % 8] = px[b % B]
  <2> PICK e \in 0 .. 7 : e = b % 8
    OBVIOUS
  <2>1. CASE B = 4
    <3>1. Blt!WideFill(px)[e] = px[e % 4]
      BY <2>1 DEF Blt!WideFill, Blt!Divides
    <3>2. e % 4 = b % 4
      OBVIOUS
    <3> QED BY <2>1, <3>1, <3>2
  <2>2. CASE B = 3
    <3>1. ~Blt!Divides
      BY <2>2 DEF Blt!Divides
    <3>2. Blt!AllEqual(px)
      BY <1>4, <3>1 DEF Blt!UseWideFill
    <3>3. Blt!WideFill(px)[e] = px[0]
      BY <3>1, <3>2 DEF Blt!WideFill
    <3> PICK r \in 0 .. 2 : r = b % 3
      OBVIOUS
    <3>4. px[r] = px[0]
      BY <2>2, <3>2 DEF Blt!AllEqual
    <3> QED BY <2>2, <3>3, <3>4
  <2> QED BY <1>1, <2>1, <2>2
<1>5. Blt!UseWideFill(px) => wide = row
  BY <1>4
<1>6. Blt!FilledRow(px, to, n) = IF Blt!UseWideFill(px) /\ to % 8 = 0 THEN wide ELSE row
  BY DEF Blt!FilledRow
<1>7. \A b \in 0 .. n - 1 : row[b] = px[b % B]
  OBVIOUS
<1> HIDE DEF wide, row
<1> QED BY <1>3, <1>5, <1>6, <1>7 DEF Repeats

\* What is below h rows of n bytes is in one of them.
LEMMA RowsCover ==
    ASSUME NEW h \in Nat, NEW n \in Nat, NEW u \in Nat, u < h * n
    PROVE  \E i \in 0 .. h - 1 : i * n \in Nat /\ u - i * n \in 0 .. n - 1
<1> DEFINE Found(i) == i * n \in Nat /\ u - i * n \in 0 .. n - 1
           U == {k \in 0 .. h : u < k * n => \E i \in 0 .. k - 1 : Found(i)}
<1>1. 0 \in U
  OBVIOUS
<1>2. ASSUME NEW k \in 0 .. h - 1, k \in U
      PROVE  k + 1 \in U
  <2>1. k * n \in Nat /\ (k + 1) * n = k * n + n
    BY Z3
  <2>2. CASE u < k * n
    <3>1. \E i \in 0 .. k - 1 : Found(i)
      BY <1>2, <2>2
    <3> HIDE DEF Found
    <3> QED BY <3>1
  <2>3. CASE ~(u < k * n)
    <3>1. ASSUME u < (k + 1) * n
          PROVE  Found(k)
      <4> PICK t \in Nat : t = k * n
        BY <2>1
      <4>1. u - t \in 0 .. n - 1
        BY <2>1, <2>3, <3>1
      <4> QED BY <4>1
    <3>2. k \in 0 .. (k + 1) - 1 /\ k + 1 \in 0 .. h
      OBVIOUS
    <3> HIDE DEF Found
    <3> QED BY <3>1, <3>2
  <2> QED BY <2>2, <2>3
<1> HIDE DEF U
<1>3. h \in U
  BY <1>1, <1>2, CountUp
<1> HIDE DEF Found
<1>4. \E i \in 0 .. h - 1 : Found(i)
  BY <1>3 DEF U
<1> QED BY <1>4 DEF Found

\* All rows at once, where the rows of the screen have no padding, repeat the pixel.
LEMMA OneShotIs ==
    ASSUME Ready(configure), NEW px \in [0 .. 3 -> Int], Blt!UseWideFill(px),
           NEW N \in Nat, configure.BytesPerPixel = 4 => N % 4 = 0 /\ N >= 8
    PROVE  Repeats(Blt!OneShot(px, N), px, N)
<1> DEFINE B == configure.BytesPerPixel
           words == IF N >= 8 THEN N - (N % 4) ELSE 0
           byte(b) == IF b < words THEN Blt!WideFill(px)[b % 4] ELSE Blt!WideFill(px)[0]
<1>1. B \in {3, 4}
  BY DEF Ready
<1>2. Blt!OneShot(px, N) = [b \in 0 .. N - 1 |-> byte(b)]
  BY DEF Blt!OneShot
<1>3. ASSUME NEW b \in 0 .. N - 1
      PROVE  byte(b) = px[b % B] /\ px[b % B] \in Int
  <2>1. CASE B = 4
    <3>1. Blt!WideFill(px) = [k \in 0 .. 7 |-> px[k % 4]]
      BY <2>1 DEF Blt!WideFill, Blt!Divides
    <3>2. b < words
      BY <2>1
    <3> PICK e \in 0 .. 3 : e = b % 4
      OBVIOUS
    <3>3. e % 4 = e /\ e \in 0 .. 7
      OBVIOUS
    <3>4. byte(b) = px[e]
      BY <3>1, <3>2, <3>3
    <3> QED BY <2>1, <3>4
  <2>2. CASE B = 3
    <3>1. ~Blt!Divides
      BY <2>2 DEF Blt!Divides
    <3>2. Blt!AllEqual(px)
      BY <3>1 DEF Blt!UseWideFill
    <3>3. Blt!WideFill(px) = [k \in 0 .. 7 |-> px[0]]
      BY <3>1, <3>2 DEF Blt!WideFill
    <3> PICK e \in 0 .. 7 : e = b % 4
      OBVIOUS
    <3>4. byte(b) = px[0]
      BY <3>3
    <3> PICK r \in 0 .. 2 : r = b % 3
      OBVIOUS
    <3>5. px[r] = px[0]
      BY <2>2, <3>2 DEF Blt!AllEqual
    <3> HIDE DEF byte
    <3> QED BY <2>2, <3>4, <3>5
  <2> QED BY <1>1, <2>1, <2>2
<1> HIDE DEF byte, B
<1>4. \A b \in 0 .. N - 1 : [e \in 0 .. N - 1 |-> byte(e)][b] = px[b % B]
  BY <1>3
<1>5. [e \in 0 .. N - 1 |-> byte(e)] \in [0 .. N - 1 -> Int]
  BY <1>3
<1> QED BY <1>2, <1>4, <1>5 DEF B, Repeats

\* What a fill writes: its rows, each the pixel again and again.
LEMMA FillWrites ==
    ASSUME Blt!BltAssumption, Ready(configure), memory \in [0 .. MemorySize - 1 -> Int],
           NEW c, Placed(c), NEW px \in [0 .. 3 -> Int], NEW data,
           data = [k \in 0 .. c.Height - 1 |->
                      Blt!FilledRow(px, Blt!OnScreen(c)[k], Blt!WidthInBytes(c))]
    PROVE  /\ data \in [0 .. c.Height - 1 -> [0 .. Blt!WidthInBytes(c) - 1 -> Int]]
           /\ Written(Blt!CopyRows(memory, c.Height, Blt!OnScreen(c), data, Blt!WidthInBytes(c)),
                      memory, Blt!OnScreen(c), data, Blt!WidthInBytes(c), c.Height)
<1> PICK n \in Nat, to \in [0 .. c.Height - 1 -> Int], h \in Nat :
      n = Blt!WidthInBytes(c) /\ to = Blt!OnScreen(c) /\ h = c.Height
  BY RowsOnScreen DEF Placed
<1>1. \A i, j \in 0 .. h - 1 : i < j => to[i] + n <= to[j]
  BY RowsOnScreen
<1>2. ASSUME NEW k \in 0 .. h - 1
      PROVE  Blt!FilledRow(px, to[k], n) \in [0 .. n - 1 -> Int]
  <2> PICK t \in Int : t = to[k]
    OBVIOUS
  <2>1. Repeats(Blt!FilledRow(px, t, n), px, n)
    BY FilledRowIs
  <2> QED BY <2>1 DEF Repeats
<1>3. data \in [0 .. h - 1 -> [0 .. n - 1 -> Int]]
  BY <1>2
<1>4. Written(Blt!CopyRows(memory, h, to, data, n), memory, to, data, n, h)
  BY <1>1, <1>3, CopyRowsIs
<1> QED BY <1>3, <1>4

\* A line is a number of whole pixels.
SameByte(B, t, b) == (t + b) % B = b % B

\* Behind a number of whole pixels a byte has the same place in its pixel.
LEMMA WholePixels ==
    ASSUME NEW B \in {3, 4}, NEW q \in Nat, NEW t, t = B * q, NEW b \in Nat
    PROVE  SameByte(B, t, b)
<1>1. CASE B = 3
  BY <1>1 DEF SameByte
<1>2. CASE B = 4
  BY <1>2 DEF SameByte
<1> QED BY <1>1, <1>2

\* Where the whole lines of a fill at once are: line i is i lines behind the first.
LineAt(c, i) ==
    LET first == Blt!Address(0, c.DestinationY)
    IN  /\ first \in Nat /\ i * Blt!WidthInBytes(c) \in Nat
        /\ Blt!OnScreen(c)[i] = first + i * Blt!WidthInBytes(c)

\* Whole lines begin a row's bytes apart.
LEMMA WholeLines ==
    ASSUME Ready(configure), NEW c, Placed(c), c.DestinationX = 0,
           c.Width = configure.PixelsPerScanLine, NEW i \in 0 .. c.Height - 1
    PROVE  LineAt(c, i)
<1> PICK dy \in Nat, h \in Nat : dy = c.DestinationY /\ h = c.Height
  BY DEF Placed
<1> PICK s \in Nat : s = Blt!Stride
  BY AddressIs
<1>1. Blt!Address(0, dy) = dy * s + configure.BytesPerPixel * 0 /\ dy * s \in Nat
  <2> PICK z \in Nat : z = 0
    OBVIOUS
  <2>1. Blt!Address(z, dy) = dy * s + configure.BytesPerPixel * z /\ dy * s \in Nat
    BY AddressIs
  <2> QED BY <2>1
<1>2. /\ Blt!OnScreen(c)[i] = (dy + i) * s + configure.BytesPerPixel * 0
      /\ Blt!WidthInBytes(c) = c.Width * configure.BytesPerPixel
  BY RowsOnScreen
<1>3. configure.BytesPerPixel \in {3, 4} /\ configure.PixelsPerScanLine \in Nat
  BY DEF Ready
<1>4. Blt!WidthInBytes(c) = s
  <2>1. s = configure.BytesPerPixel * configure.PixelsPerScanLine
    BY AddressIs
  <2> PICK q \in Nat : q = configure.PixelsPerScanLine
    BY <1>3
  <2>2. Blt!WidthInBytes(c) = q * configure.BytesPerPixel /\ s = configure.BytesPerPixel * q
    BY <1>2, <2>1
  <2> QED BY <1>3, <2>2
<1>5. configure.BytesPerPixel * 0 = 0
  BY <1>3
<1>6. (dy + i) * s = dy * s + i * s /\ i * s \in Nat
  BY Z3
<1> PICK ds \in Nat, is \in Nat : ds = dy * s /\ is = i * s
  BY <1>1, <1>6
<1>7. Blt!Address(0, dy) = ds /\ Blt!OnScreen(c)[i] = ds + is /\ is = i * Blt!WidthInBytes(c)
  BY <1>1, <1>2, <1>4, <1>5, <1>6
<1> QED BY <1>7 DEF LineAt

\* The number of bytes of a fill at once.
LEMMA WholeFill ==
    ASSUME Ready(configure), NEW c, Placed(c), c.Width = configure.PixelsPerScanLine
    PROVE  LET n == Blt!WidthInBytes(c)
               N == n * c.Height
               B == configure.BytesPerPixel
           IN  /\ n \in Nat /\ N \in Nat /\ c.Height * n = N
               /\ n = B * configure.PixelsPerScanLine
               /\ B = 4 => N % 4 = 0 /\ N >= 8
<1> PICK p \in Nat \ {0, 1}, h \in Nat \ {0} :
      p = configure.PixelsPerScanLine /\ h = c.Height
  BY DEF Ready, Placed
<1>1. configure.BytesPerPixel \in {3, 4}
  BY DEF Ready
<1>2. Blt!WidthInBytes(c) = p * configure.BytesPerPixel
  BY DEF Blt!WidthInBytes
<1>3. Blt!WidthInBytes(c) = configure.BytesPerPixel * p
  BY <1>1, <1>2
<1>4. Blt!WidthInBytes(c) \in Nat
  BY <1>1, <1>3
<1> PICK n \in Nat : n = Blt!WidthInBytes(c)
  BY <1>4
<1>5. n * h \in Nat /\ h * n = n * h
  BY Z3
<1>6. ASSUME configure.BytesPerPixel = 4
      PROVE  (n * h) % 4 = 0 /\ n * h >= 8
  <2>1. n = 4 * p
    BY <1>3, <1>6
  <2>2. (4 * p) * h = 4 * (p * h) /\ p * h \in Nat /\ p * h >= 2
    BY Z3
  <2> PICK q \in Nat : q = p * h
    BY <2>2
  <2>3. n * h = 4 * q /\ q >= 2
    BY <2>1, <2>2
  <2> QED BY <2>3
<1> QED BY <1>3, <1>5, <1>6

\* A byte of the row that begins at to, t behind first.
Behind(a, first, t, to, n, N) ==
    /\ a \in to .. to + n - 1 => /\ a - to \in 0 .. n - 1 /\ a - first = t + (a - to)
                                 /\ a \in first .. first + N - 1
    /\ (a - first) - t \in 0 .. n - 1 => a \in to .. to + n - 1

\* The two ways of counting a row's bytes agree.
LEMMA RowInLine ==
    ASSUME NEW first \in Nat, NEW t \in Nat, NEW n \in Nat, NEW N \in Nat, t + n <= N,
           NEW a \in Int, NEW to, to = first + t
    PROVE  Behind(a, first, t, to, n, N)
  BY DEF Behind

\* A place in a row that begins t behind the first one.
LEMMA Within ==
    ASSUME NEW t \in Nat, NEW n \in Nat, NEW N \in Nat, t + n <= N, NEW b \in 0 .. n - 1
    PROVE  t + b \in 0 .. N - 1
  OBVIOUS

\* Rows without a gap, row i at off[i] of the N bytes from first on.
AtOnce(h, n, N, first, to, off, one, data) ==
    /\ h \in Nat /\ n \in Nat /\ N \in Nat /\ first \in Nat
    /\ to \in [0 .. h - 1 -> Int] /\ off \in [0 .. h - 1 -> Nat]
    /\ \A i \in 0 .. h - 1 : to[i] = first + off[i] /\ off[i] + n <= N
    /\ \A u \in 0 .. N - 1 : \E i \in 0 .. h - 1 : u - off[i] \in 0 .. n - 1
    /\ \A i \in 0 .. h - 1, b \in 0 .. n - 1 : one[off[i] + b] = data[i][b]

\* They are written when all their bytes are.
LEMMA LinesAtOnce ==
    ASSUME NEW D, D \subseteq Int, NEW base \in [D -> Int], NEW h, NEW n, NEW N, NEW first,
           NEW to, NEW off, NEW one, NEW data, AtOnce(h, n, N, first, to, off, one, data),
           NEW new, Copied(new, base, first, one, N)
    PROVE  Written(new, base, to, data, n, h)
<1> /\ h \in Nat /\ n \in Nat /\ N \in Nat /\ first \in Nat
    /\ to \in [0 .. h - 1 -> Int] /\ off \in [0 .. h - 1 -> Nat]
    /\ \A i \in 0 .. h - 1 : to[i] = first + off[i] /\ off[i] + n <= N
    /\ \A u \in 0 .. N - 1 : \E i \in 0 .. h - 1 : u - off[i] \in 0 .. n - 1
    /\ \A i \in 0 .. h - 1, b \in 0 .. n - 1 : one[off[i] + b] = data[i][b]
  BY DEF AtOnce
<1>1. /\ new \in [D -> Int] /\ DOMAIN base = D
      /\ \A a \in D : a \in first .. first + N - 1 => new[a] = one[a - first]
      /\ \A a \in D : a \notin first .. first + N - 1 => new[a] = base[a]
  BY DEF Copied
<1>2. ASSUME NEW i \in 0 .. h - 1, NEW a \in D, a \in to[i] .. to[i] + n - 1
      PROVE  new[a] = data[i][a - to[i]]
  <2> PICK t \in Nat : t = off[i]
    OBVIOUS
  <2>1. to[i] = first + t /\ t + n <= N
    OBVIOUS
  <2> PICK r \in Int : r = to[i]
    OBVIOUS
  <2>5. r = first + t /\ t + n <= N /\ a \in Int /\ a \in r .. r + n - 1
    BY <1>2, <2>1
  <2>6. Behind(a, first, t, r, n, N)
    BY <2>5, RowInLine
  <2>4. a - r \in 0 .. n - 1 /\ a - first = t + (a - r) /\ a \in first .. first + N - 1
    BY <2>5, <2>6 DEF Behind
  <2> PICK b \in 0 .. n - 1 : b = a - to[i] /\ a - first = t + b
    BY <2>4
  <2>2. new[a] = one[t + b]
    BY <1>1, <2>4
  <2>3. one[t + b] = data[i][b]
    OBVIOUS
  <2> QED BY <2>2, <2>3
<1>3. ASSUME NEW a \in D, \A i \in 0 .. h - 1 : a \notin to[i] .. to[i] + n - 1
      PROVE  new[a] = base[a]
  <2>1. a \notin first .. first + N - 1
    <3> SUFFICES ASSUME a \in first .. first + N - 1
                 PROVE  FALSE
      OBVIOUS
    <3> PICK u \in 0 .. N - 1 : u = a - first
      OBVIOUS
    <3> PICK i \in 0 .. h - 1 : u - off[i] \in 0 .. n - 1
      OBVIOUS
    <3> PICK t \in Nat : t = off[i]
      OBVIOUS
    <3>1. to[i] = first + t /\ u - t \in 0 .. n - 1
      OBVIOUS
    <3> PICK r \in Int : r = to[i]
      OBVIOUS
    <3>2. (a - first) - t \in 0 .. n - 1 /\ t + n <= N /\ a \in Int /\ r = first + t
      BY <3>1
    <3>4. Behind(a, first, t, r, n, N)
      BY <3>2, RowInLine
    <3>3. a \in r .. r + n - 1
      BY <3>2, <3>4 DEF Behind
    <3> QED BY <1>3, <3>3
  <2> QED BY <1>1, <2>1
<1> QED BY <1>1, <1>2, <1>3 DEF Written

\* A fill at once writes the same rows.
LEMMA OneShotWrites ==
    ASSUME Blt!BltAssumption, Ready(configure), memory \in [0 .. MemorySize - 1 -> Int],
           NEW c, Placed(c), c.DestinationX = 0, c.Width = configure.PixelsPerScanLine,
           NEW px \in [0 .. 3 -> Int], Blt!UseWideFill(px), NEW data,
           data = [k \in 0 .. c.Height - 1 |->
                      Blt!FilledRow(px, Blt!OnScreen(c)[k], Blt!WidthInBytes(c))],
           NEW N, N = Blt!WidthInBytes(c) * c.Height
    PROVE  Written(Blt!CopyMem(memory, Blt!Address(0, c.DestinationY), Blt!OneShot(px, N), N),
                   memory, Blt!OnScreen(c), data, Blt!WidthInBytes(c), c.Height)
<1> PICK n \in Nat, h \in Nat : n = Blt!WidthInBytes(c) /\ h = c.Height
  BY RowsOnScreen DEF Placed
<1> PICK to \in [0 .. h - 1 -> Int] : to = Blt!OnScreen(c)
  BY RowsOnScreen
<1>1. /\ N \in Nat /\ N = n * h /\ N = h * n
      /\ configure.BytesPerPixel = 4 => N % 4 = 0 /\ N >= 8
  BY WholeFill
<1>2. PICK one \in [0 .. N - 1 -> Int] :
      one = Blt!OneShot(px, N) /\ Repeats(one, px, N)
  <2>1. Repeats(Blt!OneShot(px, N), px, N)
    BY <1>1, OneShotIs
  <2> QED BY <2>1 DEF Repeats
<1>3. PICK first \in Nat : first = Blt!Address(0, c.DestinationY)
  <2>1. c.DestinationY \in Nat /\ 0 \in Nat
    BY DEF Placed
  <2> QED BY <2>1, AddressIs
<1> PICK new : new = Blt!CopyMem(memory, first, one, N)
  OBVIOUS
<1>4. Copied(new, memory, first, one, N)
  <2>1. N \in Nat /\ one \in [0 .. N - 1 -> Int] /\ first \in Int
    BY <1>1, <1>2, <1>3
  <2> QED BY <2>1, CopyMemIs
<1>5. ASSUME NEW i \in 0 .. h - 1
      PROVE  i * n \in Nat /\ to[i] = first + i * n
  <2>1. LineAt(c, i)
    BY WholeLines
  <2> QED BY <1>3, <2>1 DEF LineAt
<1> DEFINE off == [i \in 0 .. h - 1 |-> i * n]
<1>6. off \in [0 .. h - 1 -> Nat]
  BY <1>5
<1>7. ASSUME NEW i \in 0 .. h - 1
      PROVE  to[i] = first + off[i] /\ off[i] + n <= N
  <2>1. i \in Nat /\ i < h
    BY SMTT(40)
  <2>2. i * n + n <= h * n
    BY <2>1, LinesApart
  <2> QED BY <1>1, <1>5, <2>2
<1>8. ASSUME NEW u \in 0 .. N - 1
      PROVE  \E i \in 0 .. h - 1 : u - off[i] \in 0 .. n - 1
  <2>1. u \in Nat /\ u < N
    BY SMTT(40), <1>1
  <2>2. u < h * n
    BY <1>1, <2>1
  <2>3. PICK i \in 0 .. h - 1 : i * n \in Nat /\ u - i * n \in 0 .. n - 1
    BY <2>1, <2>2, RowsCover
  <2> QED BY <2>3
<1>9. ASSUME NEW i \in 0 .. h - 1, NEW b \in 0 .. n - 1
      PROVE  one[off[i] + b] = data[i][b]
  <2>1. PICK t \in Nat : t = i * n /\ t = off[i]
    BY <1>5
  <2> HIDE DEF off
  <2>2. t + b \in 0 .. N - 1
    <3>1. t \in Nat /\ N \in Nat /\ t + n <= N
      BY <1>1, <1>7, <2>1
    <3> QED BY <3>1, Within
  <2>3. (t + b) % configure.BytesPerPixel = b % configure.BytesPerPixel
    <3>1. PICK B \in {3, 4}, p \in Nat :
             B = configure.BytesPerPixel /\ p = configure.PixelsPerScanLine
      BY DEF Ready
    <3>2. n = B * p
      BY <3>1, WholeFill
    <3>3. B \in {3, 4} /\ p \in Nat
      BY <3>1
    <3>4. i * (B * p) = B * (i * p) /\ i * p \in Nat
      <4>1. i \in Nat /\ B \in Nat
        BY <3>3
      <4> QED BY <3>3, <4>1, Z3
    <3>5. PICK q \in Nat : q = i * p
      BY <3>4
    <3>6. t = B * q
      BY <2>1, <3>2, <3>4, <3>5
    <3>7. b \in Nat /\ q \in Nat
      BY <3>5
    <3>8. SameByte(B, t, b)
      BY <3>3, <3>6, <3>7, WholePixels
    <3> QED BY <3>1, <3>8 DEF SameByte
  <2>4. one[t + b] = px[b % configure.BytesPerPixel]
    BY <1>2, <2>2, <2>3 DEF Repeats
  <2>5. data[i][b] = px[b % configure.BytesPerPixel]
    <3> PICK r \in Int : r = to[i]
      OBVIOUS
    <3>1. Repeats(Blt!FilledRow(px, r, n), px, n)
      BY FilledRowIs
    <3> QED BY <3>1 DEF Repeats
  <2> QED BY <2>1, <2>4, <2>5
<1> HIDE DEF off
<1>10. Written(new, memory, to, data, n, h)
  <2>1. N \in Nat /\ first \in Nat
    BY <1>1, <1>3
  <2>2. AtOnce(h, n, N, first, to, off, one, data)
    BY <1>6, <1>7, <1>8, <1>9, <2>1 DEF AtOnce
  <2>3. 0 .. MemorySize - 1 \subseteq Int
    BY DEF Blt!BltAssumption
  <2> QED BY <1>4, <2>2, <2>3, LinesAtOnce
<1>11. one = Blt!OneShot(px, N) /\ first = Blt!Address(0, c.DestinationY)
  BY <1>2, <1>3
<1>12. new = Blt!CopyMem(memory, Blt!Address(0, c.DestinationY), Blt!OneShot(px, N), N)
  BY <1>11
<1> QED BY <1>10, <1>12

\* Byte m of pixel q of a row of w pixels.
InPlace(B, w, q, m) == B * q + m \in 0 .. w * B - 1 /\ (B * q + m) % B = m /\ (B * q + m) \div B = q

\* The byte's place tells the pixel and the byte in it.
LEMMA PlaceIs ==
    ASSUME NEW B \in {3, 4}, NEW w \in Nat, NEW q \in 0 .. w - 1, NEW m \in 0 .. B - 1
    PROVE  InPlace(B, w, q, m)
<1>1. CASE B = 3
  BY <1>1 DEF InPlace
<1>2. CASE B = 4
  BY <1>2 DEF InPlace
<1> QED BY <1>1, <1>2

\* A colour's byte in a pixel.
LEMMA MaskIs ==
    ASSUME Ready(configure), NEW k \in 0 .. 2
    PROVE  configure.masks[3 - k] \in 0 .. configure.BytesPerPixel - 1
<1>1. 3 - k \in 1 .. 3
  OBVIOUS
<1> QED BY <1>1 DEF Ready

\* A pixel inside of a rectangle on the screen is one of the rectangle's.
LEMMA InsideIs ==
    ASSUME Ready(configure), NEW c, Placed(c), NEW p \in Blt!Points, Blt!Inside(c, p)
    PROVE  /\ p[1] - c.DestinationX \in 0 .. c.Width - 1
           /\ p[2] - c.DestinationY \in 0 .. c.Height - 1
<1> PICK dx \in Nat, dy \in Nat, w \in Nat, h \in Nat :
      dx = c.DestinationX /\ dy = c.DestinationY /\ w = c.Width /\ h = c.Height
  BY DEF Placed
<1> PICK x, y : x = p[1] /\ y = p[2]
  OBVIOUS
<1>1. x \in dx .. dx + w - 1 /\ y \in dy .. dy + h - 1
  BY DEF Blt!Inside
<1> QED BY <1>1, Offset

\* A fill paints its rectangle and nothing else.
LEMMA FillPaints ==
    ASSUME Blt!BltAssumption, Ready(configure), memory \in [0 .. MemorySize - 1 -> Int],
           NEW b \in Bitmaps, bitmap \in [DOMAIN b -> Int],
           NEW c \in BltCalls, ~Blt!Refused(c), c.op = "VideoFill"
    PROVE  Blt!VideoFill(c) \in [0 .. MemorySize - 1 -> Int] /\ OnlyPainted(c, Blt!VideoFill(c))
<1>1. Placed(c) /\ MemorySize \in Nat
  BY IsPlaced DEF Blt!BltAssumption
<1> PICK src : src = Blt!Bytes(bitmap, 0, 4)
  OBVIOUS
<1>2. /\ src \in [0 .. 3 -> Int]
      /\ \A k \in 0 .. 3 : src[k] = bitmap[k]
  <2>1. ~Blt!EmptyRectangle(c) /\ <<0, 0>> \in Blt!Given(c)
    BY DEF Blt!Refused, Blt!Given
  <2>2. Blt!InBitmap(c, 0, 0) = 0
    <3>1. Blt!RowOf(c) \in Nat
      BY CallIs
    <3> QED BY <3>1 DEF Blt!InBitmap
  <2>3. ASSUME NEW k \in 0 .. 3
        PROVE  bitmap[0 + k] \in Int /\ 0 + k = k
    <3> PICK z \in Nat : z = 0
      OBVIOUS
    <3>1. bitmap[Blt!InBitmap(c, z, z) + k] \in Int
      BY <2>1, BitmapHolds
    <3> QED BY <2>2, <3>1
  <2>4. src = [k \in 0 .. 4 - 1 |-> bitmap[0 + k]] /\ 4 - 1 = 3
    BY DEF Blt!Bytes
  <2> QED BY <2>3, <2>4
<1> PICK px : px = Blt!ToVideo(src)
  OBVIOUS
<1>3. /\ px \in [0 .. 3 -> Int]
      /\ \A k \in 0 .. 2 : px[configure.masks[3 - k]] = src[k]
  BY <1>2, ToVideoIs
<1> PICK data : data = [k \in 0 .. c.Height - 1 |->
                           Blt!FilledRow(px, Blt!OnScreen(c)[k], Blt!WidthInBytes(c))]
  OBVIOUS
<1> PICK after : after = Blt!VideoFill(c)
  OBVIOUS
<1>4. Written(after, memory, Blt!OnScreen(c), data, Blt!WidthInBytes(c), c.Height)
  <2> PICK N : N = Blt!WidthInBytes(c) * c.Height
    OBVIOUS
  <2> DEFINE all == Blt!UseWideFill(px) /\ c.DestinationX = 0
                    /\ c.Width = configure.PixelsPerScanLine
             once == Blt!CopyMem(memory, Blt!Address(0, c.DestinationY), Blt!OneShot(px, N), N)
             rows == Blt!CopyRows(memory, c.Height, Blt!OnScreen(c), data, Blt!WidthInBytes(c))
  <2>1. after = IF all THEN once ELSE rows
    BY DEF Blt!VideoFill, Blt!Rows
  <2>2. all => Written(once, memory, Blt!OnScreen(c), data, Blt!WidthInBytes(c), c.Height)
    BY <1>1, <1>3, OneShotWrites
  <2>3. Written(rows, memory, Blt!OnScreen(c), data, Blt!WidthInBytes(c), c.Height)
    BY <1>1, <1>3, FillWrites
  <2> HIDE DEF all, once, rows
  <2> QED BY <2>1, <2>2, <2>3
<1>5. ASSUME NEW p \in Blt!Points, Blt!Inside(c, p), NEW k \in 0 .. 2
      PROVE  data[p[2] - c.DestinationY][configure.BytesPerPixel * (p[1] - c.DestinationX)
                + configure.masks[3 - k]] = bitmap[k]
  <2> PICK w \in Nat, B \in {3, 4} : w = c.Width /\ B = configure.BytesPerPixel
    BY <1>1 DEF Placed, Ready
  <2> PICK q \in 0 .. w - 1, i \in 0 .. c.Height - 1 :
        q = p[1] - c.DestinationX /\ i = p[2] - c.DestinationY
    BY <1>1, <1>5, InsideIs
  <2> PICK m \in 0 .. B - 1 : m = configure.masks[3 - k]
    BY MaskIs
  <2>1. PICK to \in Int, n \in Nat : to = Blt!OnScreen(c)[i] /\ n = Blt!WidthInBytes(c) /\ n = w * B
    BY <1>1, RowsOnScreen
  <2>2. Repeats(Blt!FilledRow(px, to, n), px, n)
    BY <1>3, <2>1, FilledRowIs
  <2>3. data[i] = Blt!FilledRow(px, to, n)
    BY <2>1
  <2>4. InPlace(B, w, q, m)
    BY PlaceIs
  <2>5. data[i][B * q + m] = px[m]
    <3>1. B * q + m \in 0 .. n - 1
      BY <2>1, <2>4 DEF InPlace
    <3> PICK e : e = B * q + m
      OBVIOUS
    <3>2. e \in 0 .. n - 1 /\ e % B = m
      BY <2>4, <3>1 DEF InPlace
    <3>3. data[i][e] = px[e % B]
      BY ZenonT(60), <2>2, <2>3, <3>2 DEF Repeats
    <3> QED BY <3>2, <3>3
  <2>6. px[m] = bitmap[k]
    <3>1. src[k] = bitmap[k]
      BY SMTT(40), <1>2
    <3>2. px[configure.masks[3 - k]] = src[k]
      BY <1>3
    <3> QED BY <3>1, <3>2
  <2> QED BY <2>5, <2>6
<1>6. ASSUME NEW p \in Blt!Points, Blt!Inside(c, p)
      PROVE  Blt!Painted(c, p) = [k \in 0 .. 2 |-> data[p[2] - c.DestinationY]
                [configure.BytesPerPixel * (p[1] - c.DestinationX) + configure.masks[3 - k]]]
  <2>1. Blt!Painted(c, p) = [k \in 0 .. 2 |-> bitmap[k]]
    BY DEF Blt!Painted
  <2> QED BY <1>5, <1>6, <2>1
<1>7. OnlyPainted(c, after)
  <2>1. Paints(c, data)
    BY <1>6 DEF Paints
  <2> QED BY <1>1, <1>4, <2>1, RowsPaint
<1>8. after \in [0 .. MemorySize - 1 -> Int]
  BY <1>4 DEF Written
<1> QED BY <1>7, <1>8

\* Four bytes of the caller's bitmap: a pixel that the call has to be given.
PixelOf(c, x, y) ==
    /\ Blt!Bytes(bitmap, Blt!InBitmap(c, x, y), 4) \in [0 .. 3 -> Int]
    /\ \A k \in 0 .. 3 :
          Blt!Bytes(bitmap, Blt!InBitmap(c, x, y), 4)[k] = bitmap[Blt!InBitmap(c, x, y) + k]

\* A pixel the call has to be given is in the bitmap.
LEMMA GivenPixel ==
    ASSUME Blt!BltAssumption, NEW b \in Bitmaps, bitmap \in [DOMAIN b -> Int],
           NEW c \in BltCalls, ~Blt!EmptyRectangle(c), NEW x \in Nat, NEW y \in Nat,
           <<x, y>> \in Blt!Given(c)
    PROVE  PixelOf(c, x, y)
<1> PICK i : i = Blt!InBitmap(c, x, y)
  OBVIOUS
<1>1. \A k \in 0 .. 3 : bitmap[i + k] \in Int
  BY BitmapHolds
<1>2. Blt!Bytes(bitmap, i, 4) = [k \in 0 .. 4 - 1 |-> bitmap[i + k]] /\ 4 - 1 = 3
  BY DEF Blt!Bytes
<1> QED BY <1>1, <1>2 DEF PixelOf

\* A row that a call is given, as the screen will have it: pixel q in its place.
RowGiven(c, i) ==
    /\ Blt!GivenRow(c, i) \in [0 .. Blt!WidthInBytes(c) - 1 -> Int]
    /\ \A q \in 0 .. c.Width - 1, k \in 0 .. 2 :
          Blt!GivenRow(c, i)[configure.BytesPerPixel * q + configure.masks[3 - k]]
              = bitmap[Blt!InBitmap(c, c.SourceX + q, c.SourceY + i) + k]

\* A blue-green-red row is the bitmap's row as it is, from its first column on.
RowAsItIs(c, i) ==
    /\ Blt!GivenRow(c, i) \in [0 .. Blt!WidthInBytes(c) - 1 -> Int]
    /\ \A q \in 0 .. c.Width - 1, k \in 0 .. 2 :
          Blt!GivenRow(c, i)[4 * q + k] = bitmap[Blt!InBitmap(c, q, c.SourceY + i) + k]
    /\ configure.BytesPerPixel = 4 /\ \A k \in 0 .. 2 : configure.masks[3 - k] = k

\* GivenRow of a blue-green-red screen.
LEMMA GivenAsItIs ==
    ASSUME Blt!BltAssumption, Ready(configure), NEW b \in Bitmaps, bitmap \in [DOMAIN b -> Int],
           NEW c \in BltCalls, Placed(c), ~Blt!EmptyRectangle(c), c.op = "BufferToVideo",
           configure.bgr, NEW i \in 0 .. c.Height - 1
    PROVE  RowAsItIs(c, i)
<1> PICK w \in Nat, y \in Nat, n \in Nat :
      w = c.Width /\ y = c.SourceY + i /\ n = Blt!WidthInBytes(c)
  BY SMTT(40), CallIs, RowsOnScreen
<1>1. configure.BytesPerPixel = 4 /\ \A k \in 0 .. 2 : configure.masks[3 - k] = k
  <2>1. configure.BytesPerPixel = 4 /\ \A j \in 1 .. 3 : configure.masks[j] = 3 - j
    BY DEF Ready
  <2>2. \A k \in 0 .. 2 : 3 - k \in 1 .. 3 /\ 3 - (3 - k) = k
    OBVIOUS
  <2> QED BY <2>1, <2>2
<1>2. n = w * 4
  BY <1>1, RowsOnScreen
<1>3. ASSUME NEW q \in 0 .. w - 1
      PROVE  <<q, y>> \in Blt!Given(c) /\ <<0, y>> \in Blt!Given(c)
  <2>1. /\ q \in 0 .. c.SourceX + c.Width - 1 /\ 0 \in 0 .. c.SourceX + c.Width - 1
        /\ y \in 0 .. c.SourceY + c.Height - 1
    BY CallIs
  <2> QED BY <2>1 DEF Blt!Given
<1>4. ASSUME NEW q \in 0 .. w - 1, NEW m \in 0 .. 3
      PROVE  /\ Blt!InBitmap(c, 0, y) + (4 * q + m) = Blt!InBitmap(c, q, y) + m
             /\ bitmap[Blt!InBitmap(c, q, y) + m] \in Int
  <2> PICK z \in Nat : z = 0
    OBVIOUS
  <2> PICK t : t = y * Blt!RowOf(c)
    OBVIOUS
  <2>1. /\ Blt!InBitmap(c, z, y) = t + z * 4 /\ t \in Nat
        /\ Blt!InBitmap(c, q, y) = t + q * 4
        /\ bitmap[Blt!InBitmap(c, q, y) + m] \in Int
    <3>1. q \in Nat /\ <<q, y>> \in Blt!Given(c) /\ <<z, y>> \in Blt!Given(c)
      BY <1>3
    <3> QED BY <3>1, BitmapHolds
  <2> QED BY <2>1
<1> PICK first : first = Blt!InBitmap(c, 0, y)
  OBVIOUS
<1>5. Blt!GivenRow(c, i) = [e \in 0 .. n - 1 |-> bitmap[first + e]]
  BY DEF Blt!GivenRow, Blt!Bytes
<1>6. ASSUME NEW e \in 0 .. n - 1
      PROVE  bitmap[first + e] \in Int
  <2>1. e \div 4 \in 0 .. w - 1 /\ e % 4 \in 0 .. 3 /\ 4 * (e \div 4) + (e % 4) = e
    BY <1>2
  <2> QED BY <1>4, <2>1
<1>7. ASSUME NEW q \in 0 .. w - 1, NEW k \in 0 .. 2
      PROVE  Blt!GivenRow(c, i)[4 * q + k] = bitmap[Blt!InBitmap(c, q, y) + k]
  <2>1. 4 * q + k \in 0 .. n - 1 /\ k \in 0 .. 3
    BY <1>2
  <2>2. first + (4 * q + k) = Blt!InBitmap(c, q, y) + k
    BY <1>4, <2>1
  <2>3. Blt!GivenRow(c, i)[4 * q + k] = bitmap[first + (4 * q + k)]
    BY <1>5, <2>1
  <2> QED BY <2>2, <2>3
<1>8. Blt!GivenRow(c, i) \in [0 .. n - 1 -> Int]
  BY <1>5, <1>6
<1> QED BY <1>1, <1>7, <1>8 DEF RowAsItIs

\* Another row is made pixel by pixel.
LEMMA GivenByPixel ==
    ASSUME Blt!BltAssumption, Ready(configure), NEW b \in Bitmaps, bitmap \in [DOMAIN b -> Int],
           NEW c \in BltCalls, Placed(c), ~Blt!EmptyRectangle(c), c.op = "BufferToVideo",
           ~configure.bgr, NEW i \in 0 .. c.Height - 1
    PROVE  RowGiven(c, i)
<1> PICK w \in Nat, sx \in Nat, y \in Nat, n \in Nat :
      w = c.Width /\ sx = c.SourceX /\ y = c.SourceY + i /\ n = Blt!WidthInBytes(c)
  BY SMTT(40), CallIs, RowsOnScreen
<1> PICK B \in {3, 4} : B = configure.BytesPerPixel
  BY DEF Ready
<1>1. n = w * B
  BY RowsOnScreen
<1> DEFINE px(x) == Blt!Bytes(bitmap, Blt!InBitmap(c, x, y), 4)
           byte(e) == Blt!ToVideo(px(sx + e \div B))[e % B]
<1>2. ASSUME NEW q \in 0 .. w - 1
      PROVE  /\ Blt!ToVideo(px(sx + q)) \in [0 .. 3 -> Int]
             /\ \A k \in 0 .. 2 : Blt!ToVideo(px(sx + q))[configure.masks[3 - k]]
                                     = bitmap[Blt!InBitmap(c, sx + q, y) + k]
  <2> PICK x \in Nat : x = sx + q
    OBVIOUS
  <2>1. <<x, y>> \in Blt!Given(c)
    <3>1. x \in 0 .. c.SourceX + c.Width - 1 /\ y \in 0 .. c.SourceY + c.Height - 1
      BY CallIs
    <3> QED BY <3>1 DEF Blt!Given
  <2>2. PixelOf(c, x, y)
    BY <2>1, GivenPixel
  <2> PICK s : s = px(x)
    OBVIOUS
  <2>3. s \in [0 .. 3 -> Int] /\ \A k \in 0 .. 3 : s[k] = bitmap[Blt!InBitmap(c, x, y) + k]
    BY <2>2 DEF PixelOf
  <2>4. /\ Blt!ToVideo(s) \in [0 .. 3 -> Int]
        /\ \A k \in 0 .. 2 : Blt!ToVideo(s)[configure.masks[3 - k]] = s[k]
    BY <2>3, ToVideoIs
  <2>5. \A k \in 0 .. 2 : k \in 0 .. 3
    OBVIOUS
  <2> QED BY <2>3, <2>4, <2>5
<1>3. Blt!GivenRow(c, i) = [e \in 0 .. n - 1 |-> byte(e)]
  BY DEF Blt!GivenRow
<1>4. ASSUME NEW e \in 0 .. n - 1
      PROVE  byte(e) \in Int
  <2>1. e \div B \in 0 .. w - 1 /\ e % B \in 0 .. 3
    <3>1. CASE B = 3
      BY <1>1, <3>1
    <3>2. CASE B = 4
      BY <1>1, <3>2
    <3> QED BY <3>1, <3>2
  <2> PICK q \in 0 .. w - 1, m \in 0 .. 3 : q = e \div B /\ m = e % B
    BY <2>1
  <2>2. byte(e) = Blt!ToVideo(px(sx + q))[m]
    OBVIOUS
  <2> HIDE DEF byte, px
  <2> QED BY <1>2, <2>2
<1>5. ASSUME NEW q \in 0 .. w - 1, NEW k \in 0 .. 2
      PROVE  Blt!GivenRow(c, i)[B * q + configure.masks[3 - k]]
                 = bitmap[Blt!InBitmap(c, sx + q, y) + k]
  <2> PICK m \in 0 .. B - 1 : m = configure.masks[3 - k]
    BY MaskIs
  <2>1. InPlace(B, w, q, m)
    BY PlaceIs
  <2>2. PICK e : e = B * q + m
    OBVIOUS
  <2>3. e \in 0 .. n - 1 /\ e % B = m /\ e \div B = q
    BY <1>1, <2>1, <2>2 DEF InPlace
  <2>4. byte(e) = Blt!ToVideo(px(sx + q))[m]
    BY <2>3
  <2> HIDE DEF byte, px
  <2> QED BY ZenonT(60), <1>2, <1>3, <2>2, <2>3, <2>4
<1> HIDE DEF byte, px
<1>6. Blt!GivenRow(c, i) \in [0 .. n - 1 -> Int]
  BY <1>3, <1>4
<1> QED BY <1>5, <1>6 DEF RowGiven

\* A row that a call is given, whichever way it is taken.
LEMMA GivenRowIs ==
    ASSUME Blt!BltAssumption, Ready(configure), NEW b \in Bitmaps, bitmap \in [DOMAIN b -> Int],
           NEW c \in BltCalls, ~Blt!Refused(c), c.op = "BufferToVideo",
           NEW i \in 0 .. c.Height - 1
    PROVE  /\ Blt!GivenRow(c, i) \in [0 .. Blt!WidthInBytes(c) - 1 -> Int]
           /\ ~Blt!SkipsColumns(c) => RowGiven(c, i)
<1>1. Placed(c) /\ ~Blt!EmptyRectangle(c)
  BY IsPlaced DEF Blt!Refused
<1>2. CASE configure.bgr
  <2>1. RowAsItIs(c, i)
    BY <1>1, <1>2, GivenAsItIs
  <2>2. ASSUME ~Blt!SkipsColumns(c), NEW q \in 0 .. c.Width - 1, NEW k \in 0 .. 2
        PROVE  Blt!GivenRow(c, i)[configure.BytesPerPixel * q + configure.masks[3 - k]]
                   = bitmap[Blt!InBitmap(c, c.SourceX + q, c.SourceY + i) + k]
    <3>1. c.SourceX = 0
      BY <1>2, <2>2 DEF Blt!SkipsColumns
    <3>2. /\ configure.BytesPerPixel = 4 /\ configure.masks[3 - k] = k
          /\ Blt!GivenRow(c, i)[4 * q + k] = bitmap[Blt!InBitmap(c, q, c.SourceY + i) + k]
      BY <2>1 DEF RowAsItIs
    <3>3. c.SourceX + q = q
      BY <3>1
    <3> QED BY <3>2, <3>3
  <2> QED BY <2>1, <2>2 DEF RowAsItIs, RowGiven
<1>3. CASE ~configure.bgr
  <2>1. RowGiven(c, i)
    BY <1>1, <1>3, GivenByPixel
  <2> QED BY <2>1 DEF RowGiven
<1> QED BY <1>2, <1>3

\* A transfer from the caller's bitmap paints its rectangle and nothing else.
LEMMA BufferPaints ==
    ASSUME Blt!BltAssumption, Ready(configure), memory \in [0 .. MemorySize - 1 -> Int],
           NEW b \in Bitmaps, bitmap \in [DOMAIN b -> Int],
           NEW c \in BltCalls, ~Blt!Refused(c), c.op = "BufferToVideo"
    PROVE  /\ Blt!BltBufferToVideo(c) \in [0 .. MemorySize - 1 -> Int]
           /\ ~Blt!SkipsColumns(c) => OnlyPainted(c, Blt!BltBufferToVideo(c))
<1>1. Placed(c) /\ MemorySize \in Nat
  BY IsPlaced DEF Blt!BltAssumption
<1> PICK n \in Nat, h \in Nat : n = Blt!WidthInBytes(c) /\ h = c.Height
  BY <1>1, RowsOnScreen DEF Placed
<1> PICK to \in [0 .. h - 1 -> Int] : to = Blt!OnScreen(c)
  BY <1>1, RowsOnScreen
<1> PICK data : data = [k \in 0 .. h - 1 |-> Blt!GivenRow(c, k)]
  OBVIOUS
<1> PICK after : after = Blt!BltBufferToVideo(c)
  OBVIOUS
<1>2. ASSUME NEW k \in 0 .. h - 1
      PROVE  /\ Blt!GivenRow(c, k) \in [0 .. n - 1 -> Int]
             /\ ~Blt!SkipsColumns(c) => RowGiven(c, k)
  <2>1. k \in 0 .. c.Height - 1
    OBVIOUS
  <2> QED BY <2>1, GivenRowIs
<1>3. data \in [0 .. h - 1 -> [0 .. n - 1 -> Int]]
  BY <1>2
<1>4. Written(after, memory, to, data, n, h)
  <2>1. after = Blt!CopyRows(memory, h, to, data, n)
    BY DEF Blt!BltBufferToVideo, Blt!Rows
  <2>2. \A i, j \in 0 .. h - 1 : i < j => to[i] + n <= to[j]
    BY <1>1, RowsOnScreen
  <2> QED BY <1>3, <2>1, <2>2, CopyRowsIs
<1>5. ASSUME ~Blt!SkipsColumns(c), NEW p \in Blt!Points, Blt!Inside(c, p), NEW k \in 0 .. 2
      PROVE  data[p[2] - c.DestinationY][configure.BytesPerPixel * (p[1] - c.DestinationX)
                + configure.masks[3 - k]]
             = bitmap[Blt!InBitmap(c, p[1] - c.DestinationX + c.SourceX,
                                   p[2] - c.DestinationY + c.SourceY) + k]
  <2>1. PICK q \in 0 .. c.Width - 1, i \in 0 .. h - 1 :
        q = p[1] - c.DestinationX /\ i = p[2] - c.DestinationY
    BY <1>1, <1>5, InsideIs
  <2>2. Blt!GivenRow(c, i)[configure.BytesPerPixel * q + configure.masks[3 - k]]
              = bitmap[Blt!InBitmap(c, c.SourceX + q, c.SourceY + i) + k]
    <3>1. RowGiven(c, i)
      BY <1>2, <1>5, <2>1
    <3>2. q \in 0 .. c.Width - 1
      BY <2>1
    <3> QED BY <3>1, <3>2 DEF RowGiven
  <2>3. c.SourceX + q = q + c.SourceX /\ c.SourceY + i = i + c.SourceY
    BY SMTT(40), <2>1, CallIs
  <2>4. data[i] = Blt!GivenRow(c, i)
    BY <2>1
  <2> QED BY <2>1, <2>2, <2>3, <2>4
<1>6. ASSUME ~Blt!SkipsColumns(c)
      PROVE  Paints(c, data)
  <2> SUFFICES ASSUME NEW p \in Blt!Points, Blt!Inside(c, p)
               PROVE  Blt!Painted(c, p) = [k \in 0 .. 2 |-> data[p[2] - c.DestinationY]
                [configure.BytesPerPixel * (p[1] - c.DestinationX) + configure.masks[3 - k]]]
    BY DEF Paints
  <2>1. Blt!Painted(c, p) =
           [k \in 0 .. 2 |-> bitmap[Blt!InBitmap(c, p[1] - c.DestinationX + c.SourceX,
                                                 p[2] - c.DestinationY + c.SourceY) + k]]
    BY DEF Blt!Painted, Blt!BitmapColours
  <2> QED BY <1>5, <1>6, <2>1
<1>7. ~Blt!SkipsColumns(c) => OnlyPainted(c, after)
  BY <1>1, <1>4, <1>6, RowsPaint
<1>8. after \in [0 .. MemorySize - 1 -> Int]
  BY <1>4 DEF Written
<1> QED BY <1>7, <1>8

\* Row i of the rectangle that a call reads from the screen, or the row below the
\* last one: it is in memory, and so are its pixels, one after the other.
RowRead(c, i) ==
    LET from == Blt!Address(c.SourceX, c.SourceY + i)
    IN  /\ from \in Nat
        /\ \A e \in 0 .. Blt!WidthInBytes(c) - 1 : from + e \in 0 .. MemorySize - 1
        /\ \A q \in 0 .. c.Width - 1, m \in 0 .. configure.BytesPerPixel - 1 :
              from + (configure.BytesPerPixel * q + m)
                  = Blt!Address(q + c.SourceX, i + c.SourceY) + m

\* A call that is not refused reads its rows, and the one below them, from memory.
LEMMA RowReadIs ==
    ASSUME Blt!BltAssumption, Ready(configure), NEW c \in BltCalls, ~Blt!Refused(c),
           c.op \in {"VideoToBltBuffer", "VideoToVideo"}, NEW i \in 0 .. c.Height
    PROVE  RowRead(c, i)
<1> PICK sx \in Nat, sy \in Nat, w \in Nat, h \in Nat :
      sx = c.SourceX /\ sy = c.SourceY /\ w = c.Width /\ h = c.Height
  BY CallIs
<1> PICK B \in {3, 4} : B = configure.BytesPerPixel
  BY DEF Ready
<1>1. /\ sx + w <= configure.Width /\ sy + h <= configure.Height
      /\ configure.Width \in Nat /\ configure.Height \in Nat /\ MemorySize \in Nat
  <2>1. ~Blt!PastScreen(sx, sy, c)
    BY DEF Blt!Refused
  <2> QED BY <2>1 DEF Blt!PastScreen, Ready, Blt!BltAssumption
<1> PICK y \in Nat : y = sy + i
  OBVIOUS
<1> PICK from : from = Blt!Address(sx, sy + i)
  OBVIOUS
<1>2. y \in 0 .. configure.Height
  BY <1>1
<1> PICK t : t = y * Blt!Stride
  OBVIOUS
<1>3. from = t + B * sx /\ t \in Nat /\ from \in Nat
  BY AddressIs
<1>4. ASSUME NEW q \in 0 .. w - 1, NEW m \in 0 .. B - 1
      PROVE  /\ from + (B * q + m) = Blt!Address(q + sx, y) + m
             /\ Blt!Address(q + sx, y) + m \in 0 .. MemorySize - 1
  <2> PICK x \in 0 .. configure.Width - 1 : x = q + sx
    BY <1>1
  <2>1. Blt!Address(x, y) + m \in 0 .. MemorySize - 1
    BY <1>1, <1>2, InMemory
  <2>2. Blt!Address(x, y) = t + B * x
    <3>1. x \in Nat
      BY <1>1
    <3> QED BY <3>1, AddressIs
  <2>3. CASE B = 3
    BY <1>3, <2>1, <2>2, <2>3
  <2>4. CASE B = 4
    BY <1>3, <2>1, <2>2, <2>4
  <2> QED BY <2>3, <2>4
<1>5. ASSUME NEW e \in 0 .. w * B - 1
      PROVE  from + e \in 0 .. MemorySize - 1
  <2>1. e \div B \in 0 .. w - 1 /\ e - B * (e \div B) \in 0 .. B - 1
    BY PixelOfByte
  <2>2. e = B * (e \div B) + (e - B * (e \div B))
    <3>1. CASE B = 3
      BY <3>1
    <3>2. CASE B = 4
      BY <3>2
    <3> QED BY <3>1, <3>2
  <2>3. PICK q \in 0 .. w - 1, m \in 0 .. B - 1 : e = B * q + m
    BY <2>1, <2>2
  <2>4. from + (B * q + m) \in 0 .. MemorySize - 1
    BY <1>4, <2>3
  <2> QED BY <2>3, <2>4
<1>6. Blt!WidthInBytes(c) = w * B /\ i + sy = y
  BY DEF Blt!WidthInBytes
<1> QED BY <1>3, <1>4, <1>5, <1>6 DEF RowRead

\* The line that is i lines below a pixel's.
LineAfter(x, y, i) ==
    /\ i * Blt!Stride \in Nat /\ Blt!Address(x, y) \in Nat
    /\ Blt!Address(x, y + i) = Blt!Address(x, y) + i * Blt!Stride

\* The lines of the screen are a stride apart.
LEMMA LineBehind ==
    ASSUME Ready(configure), NEW x \in Nat, NEW y \in Nat, NEW i \in Nat
    PROVE  LineAfter(x, y, i)
<1> PICK s \in Nat : s = Blt!Stride
  BY AddressIs
<1> PICK o : o = configure.BytesPerPixel * x
  OBVIOUS
<1>1. /\ Blt!Address(x, y) = y * s + o /\ Blt!Address(x, y) \in Nat
      /\ Blt!Address(x, y + i) = (y + i) * s + o
  <2>1. y + i \in Nat
    OBVIOUS
  <2> QED BY <2>1, AddressIs
<1>2. (y + i) * s = y * s + i * s /\ i * s \in Nat /\ y * s \in Nat
  BY Z3
<1>3. o \in Nat
  BY DEF Ready
<1>4. PICK a \in Nat, t \in Nat : a = y * s /\ t = i * s
  BY <1>2
<1>5. Blt!Address(x, y) = a + o /\ Blt!Address(x, y + i) = a + t + o
  BY <1>1, <1>2, <1>4
<1>6. Blt!Address(x, y + i) = Blt!Address(x, y) + t
  BY <1>3, <1>4, <1>5
<1> QED BY <1>1, <1>4, <1>6 DEF LineAfter

\* Row i of a copy down from the first row: how far it is, to where and from where.
ScrollRow(c, i) ==
    LET source == Blt!Address(c.SourceX, c.SourceY)
        destination == Blt!Address(c.DestinationX, c.DestinationY)
        from == Blt!Address(c.SourceX, c.SourceY + i)
    IN  /\ i * Blt!Stride \in Nat
        /\ Blt!OnScreen(c)[i] = destination + i * Blt!Stride
        /\ from = source + i * Blt!Stride
        /\ Blt!OnScreen(c)[i] <= from

\* When the rectangle goes to no higher address, none of its rows goes to a higher one.
LEMMA ScrollRowIs ==
    ASSUME Blt!BltAssumption, Ready(configure), NEW c \in BltCalls, Placed(c),
           c.op = "VideoToVideo", ~Blt!CopiesBack(c), NEW i \in 0 .. c.Height - 1
    PROVE  ScrollRow(c, i)
<1> PICK sx \in Nat, sy \in Nat, dx \in Nat, dy \in Nat :
      sx = c.SourceX /\ sy = c.SourceY /\ dx = c.DestinationX /\ dy = c.DestinationY
  BY CallIs
<1> PICK t : t = i * Blt!Stride
  OBVIOUS
<1>1. LineAfter(sx, sy, i) /\ LineAfter(dx, dy, i)
  <2>1. i \in Nat
    OBVIOUS
  <2> QED BY <2>1, LineBehind
<1>2. /\ t \in Nat
      /\ Blt!Address(sx, sy) \in Nat /\ Blt!Address(sx, sy + i) = Blt!Address(sx, sy) + t
      /\ Blt!Address(dx, dy) \in Nat /\ Blt!Address(dx, dy + i) = Blt!Address(dx, dy) + t
  BY <1>1 DEF LineAfter
<1>3. Blt!OnScreen(c)[i] = Blt!Address(dx, dy + i)
  BY DEF Blt!OnScreen, Blt!Rows
<1>4. ~(Blt!Address(dx, dy) > Blt!Address(sx, sy))
  BY DEF Blt!CopiesBack
<1>5. Blt!OnScreen(c)[i] <= Blt!Address(sx, sy + i)
  BY <1>2, <1>3, <1>4
<1> QED BY <1>2, <1>3, <1>5 DEF ScrollRow

\* A row of the screen as it is read.
ReadFrom(mem, from, n) ==
    /\ Blt!Bytes(mem, from, n) \in [0 .. n - 1 -> Int]
    /\ \A e \in 0 .. n - 1 : Blt!Bytes(mem, from, n)[e] = mem[from + e]

\* Bytes reads a row that is in memory.
LEMMA BytesRead ==
    ASSUME NEW c, NEW i, RowRead(c, i), Blt!WidthInBytes(c) \in Nat,
           NEW mem \in [0 .. MemorySize - 1 -> Int], NEW n, n = Blt!WidthInBytes(c),
           NEW from, from = Blt!Address(c.SourceX, c.SourceY + i)
    PROVE  ReadFrom(mem, from, n)
<1>1. \A e \in 0 .. n - 1 : from + e \in 0 .. MemorySize - 1
  BY DEF RowRead
<1>2. \A e \in 0 .. n - 1 : mem[from + e] \in Int
  BY <1>1
<1>3. Blt!Bytes(mem, from, n) = [e \in 0 .. n - 1 |-> mem[from + e]]
  BY DEF Blt!Bytes
<1> QED BY <1>2, <1>3 DEF ReadFrom

\* A row that is still to be copied is as it was: those before it were copied to
\* lower addresses.
LEMMA RowStill ==
    ASSUME Blt!BltAssumption, Ready(configure), memory \in [0 .. MemorySize - 1 -> Int],
           NEW c \in BltCalls, ~Blt!Refused(c), c.op = "VideoToVideo", ~Blt!CopiesBack(c),
           NEW i \in 0 .. c.Height - 1, NEW mem, NEW data,
           Written(mem, memory, Blt!OnScreen(c), data, Blt!WidthInBytes(c), i)
    PROVE  Blt!Bytes(mem, Blt!Address(c.SourceX, c.SourceY + i), Blt!WidthInBytes(c))
             = Blt!Bytes(memory, Blt!Address(c.SourceX, c.SourceY + i), Blt!WidthInBytes(c))
<1>1. Placed(c)
  BY IsPlaced
<1> PICK n \in Nat : n = Blt!WidthInBytes(c)
  BY <1>1, RowsOnScreen
<1> PICK from : from = Blt!Address(c.SourceX, c.SourceY + i)
  OBVIOUS
<1>2. RowRead(c, i) /\ ScrollRow(c, i)
  <2>1. i \in 0 .. c.Height
    BY CallIs
  <2> QED BY <1>1, <2>1, RowReadIs, ScrollRowIs
<1>3. from \in Nat /\ \A e \in 0 .. n - 1 : from + e \in 0 .. MemorySize - 1
  BY <1>2 DEF RowRead
<1>4. Blt!OnScreen(c)[i] <= from
  BY <1>2 DEF ScrollRow
<1>5. ASSUME NEW e \in 0 .. n - 1
      PROVE  mem[from + e] = memory[from + e]
  <2>1. ASSUME NEW j \in 0 .. i - 1
        PROVE  from + e \notin Blt!OnScreen(c)[j] .. Blt!OnScreen(c)[j] + n - 1
    <3>1. j \in 0 .. c.Height - 1 /\ j < i
      BY <1>1 DEF Placed
    <3> PICK a \in Int, b \in Int : a = Blt!OnScreen(c)[j] /\ b = Blt!OnScreen(c)[i]
      BY <1>1, <3>1, RowsOnScreen
    <3>2. a + n <= b
      BY <1>1, <3>1, RowsOnScreen
    <3>3. b <= from /\ from \in Nat /\ e \in Nat
      BY <1>3, <1>4
    <3> PICK v \in Nat : v = from + e
      BY <3>3
    <3>4. v \notin a .. a + n - 1
      BY SMTT(40), <3>2, <3>3
    <3> QED BY <3>4
  <2>2. from + e \in DOMAIN memory
    BY <1>3
  <2> QED BY <2>1, <2>2 DEF Written
<1> QED BY <1>5 DEF Blt!Bytes

\* How far from the first row the k-th copy of a row is: from the row below the last
\* one on when the rectangle goes to a higher address.
CopyOffset(c, k) ==
    IF Blt!Address(c.DestinationX, c.DestinationY) > Blt!Address(c.SourceX, c.SourceY)
    THEN (c.Height - k) * Blt!Stride ELSE k * Blt!Stride

\* The k-th copy reads a row of the rectangle or the one below it.
LEMMA CopyOffsetIs ==
    ASSUME Blt!BltAssumption, Ready(configure), NEW c \in BltCalls,
           NEW k \in 0 .. c.Height - 1
    PROVE  /\ CopyOffset(c, k) \in Nat
           /\ \E i \in 0 .. c.Height : Blt!Address(c.SourceX, c.SourceY) + CopyOffset(c, k)
                                         = Blt!Address(c.SourceX, c.SourceY + i)
           /\ ~Blt!CopiesBack(c) /\ c.op = "VideoToVideo" => CopyOffset(c, k) = k * Blt!Stride
<1> PICK h \in Nat, sx \in Nat, sy \in Nat : h = c.Height /\ sx = c.SourceX /\ sy = c.SourceY
  BY CallIs
<1>1. \E i \in 0 .. h : CopyOffset(c, k) = i * Blt!Stride
  <2>1. h - k \in 0 .. h /\ k \in 0 .. h
    OBVIOUS
  <2> QED BY <2>1 DEF CopyOffset
<1>2. PICK i \in 0 .. h : CopyOffset(c, k) = i * Blt!Stride
  BY <1>1
<1>3. LineAfter(sx, sy, i)
  <2>1. i \in Nat
    OBVIOUS
  <2> QED BY <2>1, LineBehind
<1>4. ~Blt!CopiesBack(c) /\ c.op = "VideoToVideo" => CopyOffset(c, k) = k * Blt!Stride
  BY DEF CopyOffset, Blt!CopiesBack
<1> QED BY <1>2, <1>3, <1>4 DEF LineAfter

\* VideoToVideo's rows one by one, whichever way they go: what they leave is the
\* last of these memories.
Scrolls(c, copied) ==
    LET n == Blt!WidthInBytes(c)
        source == Blt!Address(c.SourceX, c.SourceY)
        destination == Blt!Address(c.DestinationX, c.DestinationY)
    IN  /\ copied[0] = memory /\ Blt!VideoToVideo(c) = copied[c.Height]
        /\ Blt!VideoToVideo(c) \in [0 .. MemorySize - 1 -> Int]
        /\ \A k \in 0 .. c.Height - 1 :
              copied[k + 1] = Blt!CopyMem(copied[k], destination + CopyOffset(c, k),
                                 Blt!Bytes(copied[k], source + CopyOffset(c, k), n), n)

\* There are such memories.
LEMMA ScrollRuns ==
    ASSUME Blt!BltAssumption, Ready(configure), memory \in [0 .. MemorySize - 1 -> Int],
           NEW c \in BltCalls, ~Blt!Refused(c), c.op = "VideoToVideo"
    PROVE  \E copied : Scrolls(c, copied)
<1>1. Placed(c)
  BY IsPlaced
<1> PICK n \in Nat, h \in Nat : n = Blt!WidthInBytes(c) /\ h = c.Height
  BY <1>1, RowsOnScreen DEF Placed
<1> DEFINE source == Blt!Address(c.SourceX, c.SourceY)
           destination == Blt!Address(c.DestinationX, c.DestinationY)
           offset(k) == IF destination > source THEN (h - k) * Blt!Stride ELSE k * Blt!Stride
           T == [0 .. MemorySize - 1 -> Int]
           Row(k, m) == Blt!CopyMem(m, destination + offset(k - 1),
                                    Blt!Bytes(m, source + offset(k - 1), n), n)
           G == [k \in 1 .. h |-> [m \in T |-> Row(k, m)]]
           Solves(g) == g = [k \in 0 .. h |-> IF k = 0 THEN memory ELSE Row(k, g[k - 1])]
           copied == CHOOSE g : Solves(g)
<1>2. \A k : offset(k) = CopyOffset(c, k)
  BY DEF CopyOffset
<1>3. Blt!VideoToVideo(c) = copied[h]
  BY DEF Blt!VideoToVideo
<1>4. destination \in Nat /\ source \in Nat
  BY CallIs, AddressIs
<1> HIDE DEF offset
<1>5. ASSUME NEW k \in 0 .. h - 1, NEW m
      PROVE  Row(k + 1, m) = Blt!CopyMem(m, destination + CopyOffset(c, k),
                                         Blt!Bytes(m, source + CopyOffset(c, k), n), n)
  <2>1. k + 1 - 1 = k
    OBVIOUS
  <2> HIDE DEF source, destination
  <2> QED BY <1>2, <2>1
<1> HIDE DEF Row
<1>6. ASSUME NEW k \in 1 .. h, NEW m \in T
      PROVE  Row(k, m) \in T
  <2>1. PICK i \in 0 .. h - 1 : k = i + 1
    <3>1. k - 1 \in 0 .. h - 1 /\ k = (k - 1) + 1
      OBVIOUS
    <3> QED BY <3>1
  <2>2. PICK j \in 0 .. h : source + CopyOffset(c, i) = Blt!Address(c.SourceX, c.SourceY + j)
    BY CopyOffsetIs
  <2> PICK t \in Int : t = destination + CopyOffset(c, i)
    BY SMTT(40), <1>4, CopyOffsetIs
  <2> PICK from : from = source + CopyOffset(c, i)
    OBVIOUS
  <2>3. RowRead(c, j)
    BY RowReadIs
  <2>4. from = Blt!Address(c.SourceX, c.SourceY + j)
    BY <2>2
  <2>5. ReadFrom(m, from, n)
    BY <2>3, <2>4, BytesRead
  <2> PICK d \in [0 .. n - 1 -> Int] : d = Blt!Bytes(m, from, n)
    BY <2>5 DEF ReadFrom
  <2>6. Copied(Blt!CopyMem(m, t, d, n), m, t, d, n)
    BY CopyMemIs
  <2>7. Row(k, m) = Blt!CopyMem(m, t, d, n)
    BY <1>5, <2>1
  <2> QED BY <2>6, <2>7 DEF Copied
<1>7. G \in StepsOf(h, T)
  <2> HIDE DEF T
  <2> QED BY <1>6 DEF StepsOf
<1>8. PICK f : Runs(f, h, T, memory, G)
  <2> HIDE DEF G
  <2> QED BY <1>7, RunExists
<1>9. Solves(f)
  <2>1. /\ f \in [0 .. h -> T] /\ f[0] = memory
        /\ \A k \in 1 .. h : f[k] = G[k][f[k - 1]]
    BY <1>8 DEF Runs
  <2>2. ASSUME NEW k \in 1 .. h
        PROVE  f[k] = Row(k, f[k - 1])
    <3>1. f[k - 1] \in T /\ f[k] = G[k][f[k - 1]]
      <4> HIDE DEF G, T
      <4> QED BY <2>1
    <3> HIDE DEF T
    <3> QED BY <3>1
  <2> HIDE DEF T
  <2> QED BY <2>1, <2>2
<1>10. Solves(copied)
  <2> HIDE DEF Solves
  <2> QED BY <1>9
<1> HIDE DEF copied
<1>11. copied[0] = memory /\ \A k \in 1 .. h : copied[k] = Row(k, copied[k - 1])
  BY <1>10
<1> HIDE DEF Solves, G, source, destination
<1>12. ASSUME NEW k \in 0 .. h - 1
       PROVE  copied[k + 1] = Row(k + 1, copied[k])
  <2>1. PICK j \in 1 .. h : j = k + 1 /\ j - 1 = k
    OBVIOUS
  <2> QED BY <1>11, <2>1
<1>13. copied[h] \in T
  <2> DEFINE U == {k \in 0 .. h : copied[k] \in T}
  <2>1. 0 \in U
    BY <1>11
  <2>2. ASSUME NEW k \in 0 .. h - 1, k \in U
        PROVE  k + 1 \in U
    <3>1. k + 1 \in 1 .. h /\ copied[k] \in T
      BY <2>2
    <3> HIDE DEF T
    <3>2. Row(k + 1, copied[k]) \in T
      BY <1>6, <3>1
    <3> QED BY <1>12, <3>1, <3>2
  <2> HIDE DEF U, T
  <2>3. h \in U
    BY SMTT(40), <2>1, <2>2, CountUp
  <2> QED BY <2>3 DEF U
<1>14. \A k \in 0 .. h - 1 :
          copied[k + 1] = Blt!CopyMem(copied[k], destination + CopyOffset(c, k),
                                      Blt!Bytes(copied[k], source + CopyOffset(c, k), n), n)
  BY <1>5, <1>12
<1>15. Scrolls(c, copied)
  BY <1>3, <1>11, <1>13, <1>14 DEF Scrolls, source, destination
<1> QED BY <1>15

\* A copy down from the first row writes the rows that were there.
LEMMA ScrollWrites ==
    ASSUME Blt!BltAssumption, Ready(configure), memory \in [0 .. MemorySize - 1 -> Int],
           NEW c \in BltCalls, ~Blt!Refused(c), c.op = "VideoToVideo", ~Blt!CopiesBack(c),
           NEW data,
           data = [k \in 0 .. c.Height - 1 |->
                      Blt!Bytes(memory, Blt!Address(c.SourceX, c.SourceY + k),
                                Blt!WidthInBytes(c))]
    PROVE  Written(Blt!VideoToVideo(c), memory, Blt!OnScreen(c), data,
                   Blt!WidthInBytes(c), c.Height)
<1>1. Placed(c)
  BY IsPlaced
<1> PICK n \in Nat, h \in Nat : n = Blt!WidthInBytes(c) /\ h = c.Height
  BY <1>1, RowsOnScreen DEF Placed
<1> PICK to \in [0 .. h - 1 -> Int] : to = Blt!OnScreen(c)
  BY <1>1, RowsOnScreen
<1>2. PICK copied : Scrolls(c, copied)
  BY ScrollRuns
<1>3. ASSUME NEW k \in 0 .. h - 1
      PROVE  /\ Blt!Address(c.DestinationX, c.DestinationY) + CopyOffset(c, k) = to[k]
             /\ Blt!Address(c.SourceX, c.SourceY) + CopyOffset(c, k)
                  = Blt!Address(c.SourceX, c.SourceY + k)
             /\ RowRead(c, k)
  <2>1. ScrollRow(c, k) /\ RowRead(c, k)
    <3>1. k \in 0 .. h
      OBVIOUS
    <3> QED BY <1>1, <3>1, ScrollRowIs, RowReadIs
  <2>2. CopyOffset(c, k) = k * Blt!Stride
    BY CopyOffsetIs
  <2> QED BY <2>1, <2>2 DEF ScrollRow
<1>4. ASSUME NEW k \in 0 .. h - 1, Written(copied[k], memory, to, data, n, k)
      PROVE  copied[k + 1] = Blt!CopyMem(copied[k], to[k], data[k], n)
  <2> PICK mem : mem = copied[k]
    OBVIOUS
  <2>1. copied[k + 1]
          = Blt!CopyMem(mem, Blt!Address(c.DestinationX, c.DestinationY) + CopyOffset(c, k),
               Blt!Bytes(mem, Blt!Address(c.SourceX, c.SourceY) + CopyOffset(c, k), n), n)
    BY <1>2 DEF Scrolls
  <2>2. copied[k + 1]
          = Blt!CopyMem(mem, to[k], Blt!Bytes(mem, Blt!Address(c.SourceX, c.SourceY + k), n), n)
    BY <1>3, <2>1
  <2>3. Blt!Bytes(mem, Blt!Address(c.SourceX, c.SourceY + k), n)
          = Blt!Bytes(memory, Blt!Address(c.SourceX, c.SourceY + k), n)
    BY <1>4, RowStill
  <2>4. data[k] = Blt!Bytes(memory, Blt!Address(c.SourceX, c.SourceY + k), n)
    OBVIOUS
  <2> QED BY <2>2, <2>3, <2>4
<1>5. data \in [0 .. h - 1 -> [0 .. n - 1 -> Int]]
  <2>1. ASSUME NEW k \in 0 .. h - 1
        PROVE  Blt!Bytes(memory, Blt!Address(c.SourceX, c.SourceY + k), n) \in [0 .. n - 1 -> Int]
    <3> PICK f : f = Blt!Address(c.SourceX, c.SourceY + k)
      OBVIOUS
    <3>1. ReadFrom(memory, f, n)
      BY <1>3, BytesRead
    <3> QED BY <3>1 DEF ReadFrom
  <2> QED BY <2>1
<1>6. \A i, j \in 0 .. h - 1 : i < j => to[i] + n <= to[j]
  BY <1>1, RowsOnScreen
<1>7. copied[0] = memory /\ Blt!VideoToVideo(c) = copied[h]
  BY <1>2 DEF Scrolls
<1>8. Written(copied[h], memory, to, data, n, h)
  <2> PICK D : D = 0 .. MemorySize - 1
    OBVIOUS
  <2> QED BY ZenonT(60), <1>4, <1>5, <1>6, <1>7, RowsWritten
<1> QED BY <1>7, <1>8

\* A copy down from the first row paints its rectangle and nothing else.
LEMMA ScrollPaints ==
    ASSUME Blt!BltAssumption, Ready(configure), memory \in [0 .. MemorySize - 1 -> Int],
           NEW c \in BltCalls, ~Blt!Refused(c), c.op = "VideoToVideo", ~Blt!CopiesBack(c)
    PROVE  /\ Blt!VideoToVideo(c) \in [0 .. MemorySize - 1 -> Int]
           /\ OnlyPainted(c, Blt!VideoToVideo(c))
<1>1. Placed(c) /\ MemorySize \in Nat
  BY IsPlaced DEF Blt!BltAssumption
<1> PICK n \in Nat, h \in Nat : n = Blt!WidthInBytes(c) /\ h = c.Height
  BY <1>1, RowsOnScreen DEF Placed
<1> PICK data : data = [k \in 0 .. c.Height - 1 |->
                      Blt!Bytes(memory, Blt!Address(c.SourceX, c.SourceY + k),
                                Blt!WidthInBytes(c))]
  OBVIOUS
<1> PICK after : after = Blt!VideoToVideo(c)
  OBVIOUS
<1>2. Written(after, memory, Blt!OnScreen(c), data, Blt!WidthInBytes(c), c.Height)
  BY ScrollWrites
<1>3. ASSUME NEW p \in Blt!Points, Blt!Inside(c, p), NEW k \in 0 .. 2
      PROVE  data[p[2] - c.DestinationY][configure.BytesPerPixel * (p[1] - c.DestinationX)
                + configure.masks[3 - k]]
             = memory[Blt!Address(p[1] - c.DestinationX + c.SourceX,
                                  p[2] - c.DestinationY + c.SourceY) + configure.masks[3 - k]]
  <2> PICK w \in Nat, B \in {3, 4} : w = c.Width /\ B = configure.BytesPerPixel
    BY <1>1 DEF Placed, Ready
  <2>1. PICK q \in 0 .. w - 1, i \in 0 .. h - 1 :
          q = p[1] - c.DestinationX /\ i = p[2] - c.DestinationY
    BY <1>1, <1>3, InsideIs
  <2> PICK m \in 0 .. B - 1 : m = configure.masks[3 - k]
    BY MaskIs
  <2> PICK from : from = Blt!Address(c.SourceX, c.SourceY + i)
    OBVIOUS
  <2>2. RowRead(c, i)
    BY SMTT(40), <2>1, RowReadIs
  <2>3. from + (B * q + m) = Blt!Address(q + c.SourceX, i + c.SourceY) + m
    BY <2>1, <2>2 DEF RowRead
  <2>4. B * q + m \in 0 .. n - 1
    <3>1. InPlace(B, w, q, m)
      BY <2>1, PlaceIs
    <3>2. n = w * B
      BY <1>1, RowsOnScreen
    <3> QED BY <3>1, <3>2 DEF InPlace
  <2>5. \A v \in 0 .. n - 1 : Blt!Bytes(memory, from, n)[v] = memory[from + v]
    <3>1. ReadFrom(memory, from, n)
      BY <2>2, BytesRead
    <3> QED BY <3>1 DEF ReadFrom
  <2> PICK e : e = B * q + m
    OBVIOUS
  <2>6. data[i] = Blt!Bytes(memory, from, n)
    BY <2>1
  <2>7. data[i][e] = memory[from + e]
    BY <2>4, <2>5, <2>6
  <2> QED BY <2>1, <2>3, <2>7
<1>4. Paints(c, data)
  <2> SUFFICES ASSUME NEW p \in Blt!Points, Blt!Inside(c, p)
               PROVE  Blt!Painted(c, p) = [k \in 0 .. 2 |-> data[p[2] - c.DestinationY]
                [configure.BytesPerPixel * (p[1] - c.DestinationX) + configure.masks[3 - k]]]
    BY DEF Paints
  <2>1. Blt!Painted(c, p) =
           [k \in 0 .. 2 |-> memory[Blt!Address(p[1] - c.DestinationX + c.SourceX,
                        p[2] - c.DestinationY + c.SourceY) + configure.masks[3 - k]]]
    BY DEF Blt!Painted, Blt!Colours
  <2> QED BY <1>3, <2>1
<1>5. OnlyPainted(c, after)
  BY <1>1, <1>2, <1>4, RowsPaint
<1>6. after \in [0 .. MemorySize - 1 -> Int]
  BY <1>2 DEF Written
<1> QED BY <1>5, <1>6

\* A pixel of the screen as a bitmap has it.
LEMMA FromVideoIs ==
    ASSUME Ready(configure), NEW px \in [0 .. 3 -> Int]
    PROVE  /\ Blt!FromVideo(px) \in [0 .. 3 -> Int]
           /\ \A k \in 0 .. 2 : Blt!FromVideo(px)[k] = px[configure.masks[3 - k]]
<1>1. \A k \in 0 .. 2 : px[configure.masks[3 - k]] \in Int
  <2> TAKE k \in 0 .. 2
  <2>1. configure.masks[3 - k] \in 0 .. 3
    <3> PICK m \in 0 .. configure.BytesPerPixel - 1 : m = configure.masks[3 - k]
      BY MaskIs
    <3> QED BY DEF Ready
  <2> QED BY <2>1
<1>2. Blt!FromVideo(px) = [k \in 0 .. 3 |-> IF k = 3 THEN 0 ELSE px[configure.masks[3 - k]]]
  BY DEF Blt!FromVideo
<1>3. \A k \in 0 .. 3 : k = 3 \/ k \in 0 .. 2
  OBVIOUS
<1>4. \A k \in 0 .. 2 : k \in 0 .. 3 /\ k # 3
  OBVIOUS
<1> QED BY <1>1, <1>2, <1>3, <1>4

\* Row i as it goes into the caller's bitmap: pixel q in its place.
RowShown(c, i) ==
    /\ Blt!ReadRow(c, i) \in [0 .. c.Width * 4 - 1 -> Int]
    /\ \A q \in 0 .. c.Width - 1, k \in 0 .. 2 :
          Blt!ReadRow(c, i)[4 * q + k]
              = memory[Blt!Address(q + c.SourceX, i + c.SourceY) + configure.masks[3 - k]]

\* VideoToBltBuffer's rows, copied as they are or converted, show the screen's pixels.
LEMMA RowShownIs ==
    ASSUME Blt!BltAssumption, Ready(configure), memory \in [0 .. MemorySize - 1 -> Int],
           NEW c \in BltCalls, ~Blt!Refused(c), c.op = "VideoToBltBuffer",
           NEW i \in 0 .. c.Height - 1
    PROVE  RowShown(c, i)
<1> PICK w \in Nat : w = c.Width
  BY CallIs
<1> PICK B \in {3, 4} : B = configure.BytesPerPixel
  BY DEF Ready
<1>0. PICK n \in Nat : n = w * B /\ n = Blt!WidthInBytes(c)
  <2>1. CASE B = 3
    BY <2>1 DEF Blt!WidthInBytes
  <2>2. CASE B = 4
    BY <2>2 DEF Blt!WidthInBytes
  <2> QED BY <2>1, <2>2
<1> PICK from : from = Blt!Address(c.SourceX, c.SourceY + i)
  OBVIOUS
<1>1. RowRead(c, i)
  <2>1. i \in 0 .. c.Height
    BY CallIs
  <2> QED BY <2>1, RowReadIs
<1> PICK line : line = Blt!Bytes(memory, from, n)
  OBVIOUS
<1>2. line \in [0 .. n - 1 -> Int] /\ \A e \in 0 .. n - 1 : line[e] = memory[from + e]
  <2>1. ReadFrom(memory, from, n)
    BY <1>0, <1>1, BytesRead
  <2> QED BY <2>1 DEF ReadFrom
<1>3. ASSUME NEW q \in 0 .. w - 1, NEW m \in 0 .. B - 1
      PROVE  /\ B * q + m \in 0 .. n - 1
             /\ line[B * q + m] = memory[Blt!Address(q + c.SourceX, i + c.SourceY) + m]
  <2>1. B * q + m \in 0 .. n - 1
    <3>1. InPlace(B, w, q, m)
      BY PlaceIs
    <3> QED BY <1>0, <3>1 DEF InPlace
  <2>2. from + (B * q + m) = Blt!Address(q + c.SourceX, i + c.SourceY) + m
    BY <1>1 DEF RowRead
  <2> QED BY <1>2, <2>1, <2>2
<1>4. CASE configure.bgr
  <2>1. B = 4 /\ \A k \in 0 .. 2 : configure.masks[3 - k] = k
    <3>1. B = 4 /\ \A j \in 1 .. 3 : configure.masks[j] = 3 - j
      BY <1>4 DEF Ready
    <3>2. \A k \in 0 .. 2 : 3 - k \in 1 .. 3 /\ 3 - (3 - k) = k
      OBVIOUS
    <3> QED BY <3>1, <3>2
  <2>2. Blt!ReadRow(c, i) = line
    BY <1>0, <1>4 DEF Blt!ReadRow
  <2>3. n = c.Width * 4
    BY <1>0, <2>1
  <2>4. ASSUME NEW q \in 0 .. w - 1, NEW k \in 0 .. 2
        PROVE  line[4 * q + k]
                 = memory[Blt!Address(q + c.SourceX, i + c.SourceY) + configure.masks[3 - k]]
    <3>1. k \in 0 .. B - 1 /\ configure.masks[3 - k] = k
      BY <2>1
    <3> QED BY ZenonT(60), <1>3, <2>1, <3>1
  <2>5. Blt!ReadRow(c, i) \in [0 .. c.Width * 4 - 1 -> Int]
    BY <1>2, <2>2, <2>3
  <2> QED BY <2>2, <2>4, <2>5 DEF RowShown
<1>5. CASE ~configure.bgr
  <2> DEFINE px(q) == [m \in 0 .. 3 |-> IF m < B THEN line[q * B + m] ELSE 0]
             byte(e) == Blt!FromVideo(px(e \div 4))[e % 4]
  <2>1. ASSUME NEW q \in 0 .. w - 1
        PROVE  /\ px(q) \in [0 .. 3 -> Int]
               /\ \A m \in 0 .. B - 1 :
                    px(q)[m] = memory[Blt!Address(q + c.SourceX, i + c.SourceY) + m]
    <3>1. ASSUME NEW m \in 0 .. B - 1
          PROVE  /\ line[q * B + m] \in Int
                 /\ line[q * B + m] = memory[Blt!Address(q + c.SourceX, i + c.SourceY) + m]
      <4>1. q * B + m = B * q + m
        OBVIOUS
      <4> QED BY ZenonT(60), <1>2, <1>3, <4>1
    <3>2. \A m \in 0 .. 3 : m < B => m \in 0 .. B - 1
      OBVIOUS
    <3>3. \A m \in 0 .. B - 1 : m \in 0 .. 3 /\ m < B
      BY SMTT(40)
    <3> QED BY <3>1, <3>2, <3>3
  <2>2. ASSUME NEW q \in 0 .. w - 1
        PROVE  /\ Blt!FromVideo(px(q)) \in [0 .. 3 -> Int]
               /\ \A k \in 0 .. 2 : Blt!FromVideo(px(q))[k]
                   = memory[Blt!Address(q + c.SourceX, i + c.SourceY) + configure.masks[3 - k]]
    <3> PICK s : s = px(q)
      OBVIOUS
    <3>1. s \in [0 .. 3 -> Int]
      BY <2>1
    <3>2. /\ Blt!FromVideo(s) \in [0 .. 3 -> Int]
          /\ \A k \in 0 .. 2 : Blt!FromVideo(s)[k] = s[configure.masks[3 - k]]
      BY <3>1, FromVideoIs
    <3> HIDE DEF px
    <3>3. ASSUME NEW k \in 0 .. 2
          PROVE  s[configure.masks[3 - k]]
                   = memory[Blt!Address(q + c.SourceX, i + c.SourceY) + configure.masks[3 - k]]
      <4> PICK m \in 0 .. B - 1 : m = configure.masks[3 - k]
        BY MaskIs
      <4> QED BY <2>1
    <3> QED BY <3>2, <3>3
  <2>3. Blt!ReadRow(c, i) = [e \in 0 .. w * 4 - 1 |-> byte(e)]
    BY <1>0, <1>5 DEF Blt!ReadRow
  <2>4. ASSUME NEW e \in 0 .. w * 4 - 1
        PROVE  byte(e) \in Int
    <3>1. PICK q \in 0 .. w - 1, m \in 0 .. 3 : q = e \div 4 /\ m = e % 4
      BY SMTT(40)
    <3>2. byte(e) = Blt!FromVideo(px(q))[m]
      BY <3>1
    <3>3. q \in 0 .. w - 1 /\ m \in 0 .. 3
      BY <3>1
    <3> HIDE DEF byte, px
    <3> QED BY SMTT(40), <2>2, <3>2, <3>3
  <2>5. ASSUME NEW q \in 0 .. w - 1, NEW k \in 0 .. 2
        PROVE  Blt!ReadRow(c, i)[4 * q + k]
                 = memory[Blt!Address(q + c.SourceX, i + c.SourceY) + configure.masks[3 - k]]
    <3>1. PICK e \in 0 .. w * 4 - 1 : e = 4 * q + k /\ e \div 4 = q /\ e % 4 = k
      BY SMTT(40)
    <3>2. byte(e) = Blt!FromVideo(px(q))[k]
      BY <3>1
    <3> HIDE DEF byte, px
    <3> QED BY <2>2, <2>3, <3>1, <3>2
  <2> HIDE DEF byte, px
  <2>6. Blt!ReadRow(c, i) \in [0 .. w * 4 - 1 -> Int]
    BY <2>3, <2>4
  <2> QED BY <2>5, <2>6 DEF RowShown
<1> QED BY <1>4, <1>5

\* Where row i goes in the caller's bitmap, and pixel x in it; the rows do not
\* overlap.
BitmapRow(c, i) ==
    LET to == Blt!InBitmap(c, c.DestinationX, c.DestinationY + i)
    IN  /\ to \in Nat
        /\ \A x \in 0 .. c.Width - 1, k \in 0 .. 2 :
              /\ Blt!InBitmap(c, c.DestinationX + x, c.DestinationY + i) + k = to + (4 * x + k)
              /\ to + (4 * x + k) \in DOMAIN bitmap

\* The rows of a call that reads the screen are in the caller's bitmap.
LEMMA BitmapRowIs ==
    ASSUME Blt!BltAssumption, NEW b \in Bitmaps, bitmap \in [DOMAIN b -> Int],
           NEW c \in BltCalls, ~Blt!EmptyRectangle(c), c.op = "VideoToBltBuffer",
           NEW i \in 0 .. c.Height - 1
    PROVE  BitmapRow(c, i)
<1> PICK dx \in Nat, y \in Nat, w \in Nat \ {0} :
      dx = c.DestinationX /\ y = c.DestinationY + i /\ w = c.Width
  BY CallIs DEF Blt!EmptyRectangle
<1>1. PICK t : t = y * Blt!RowOf(c)
  OBVIOUS
<1>2. ASSUME NEW x \in 0 .. w - 1
      PROVE  <<dx + x, y>> \in Blt!Given(c)
  <2>1. dx + x \in 0 .. c.DestinationX + c.Width - 1 /\ y \in 0 .. c.DestinationY + c.Height - 1
    BY CallIs
  <2> QED BY <2>1 DEF Blt!Given
<1>3. ASSUME NEW x \in 0 .. w - 1, NEW k \in 0 .. 2
      PROVE  /\ t \in Nat /\ Blt!InBitmap(c, dx + x, y) = t + (dx + x) * 4
             /\ Blt!InBitmap(c, dx + x, y) + k \in DOMAIN bitmap
  <2> PICK z \in Nat : z = dx + x
    OBVIOUS
  <2>1. <<z, y>> \in Blt!Given(c) /\ k \in 0 .. 3
    BY <1>2
  <2>2. /\ Blt!InBitmap(c, z, y) = y * Blt!RowOf(c) + z * 4 /\ y * Blt!RowOf(c) \in Nat
        /\ Blt!InBitmap(c, z, y) + k \in DOMAIN bitmap
    BY SMTT(40), <2>1, BitmapHolds
  <2> QED BY <1>1, <2>2
<1>4. Blt!InBitmap(c, dx, y) = t + dx * 4 /\ t \in Nat
  <2>1. 0 \in 0 .. w - 1 /\ 0 \in 0 .. 2 /\ dx + 0 = dx
    OBVIOUS
  <2> QED BY <1>3, <2>1
<1>5. ASSUME NEW x \in 0 .. w - 1, NEW k \in 0 .. 2
      PROVE  /\ Blt!InBitmap(c, dx + x, y) + k = Blt!InBitmap(c, dx, y) + (4 * x + k)
             /\ Blt!InBitmap(c, dx, y) + (4 * x + k) \in DOMAIN bitmap
  <2>1. Blt!InBitmap(c, dx + x, y) + k = Blt!InBitmap(c, dx, y) + (4 * x + k)
    BY <1>3, <1>4
  <2> QED BY <1>3, <2>1
<1>6. Blt!InBitmap(c, dx, y) \in Nat
  BY <1>4
<1> QED BY <1>5, <1>6 DEF BitmapRow

\* A later row begins behind the end of an earlier one.
LEMMA BitmapRowsApart ==
    ASSUME Blt!BltAssumption, NEW c \in BltCalls,
           NEW i \in 0 .. c.Height - 1, NEW j \in 0 .. c.Height - 1, i < j
    PROVE  Blt!InBitmap(c, c.DestinationX, c.DestinationY + i) + c.Width * 4
             <= Blt!InBitmap(c, c.DestinationX, c.DestinationY + j)
<1> PICK dx \in Nat, dy \in Nat, w \in Nat, r \in Nat :
      dx = c.DestinationX /\ dy = c.DestinationY /\ w = c.Width /\ r = Blt!RowOf(c)
  BY CallIs
<1>1. r >= w * 4
  BY CallIs
<1> PICK y \in Nat, z \in Nat : y = dy + i /\ z = dy + j
  OBVIOUS
<1>2. y * r + r <= z * r
  <2>1. y < z
    OBVIOUS
  <2> QED BY <2>1, LinesApart
<1>3. y * r \in Nat /\ z * r \in Nat
  BY Z3
<1>4. Blt!InBitmap(c, dx, y) = y * r + dx * 4 /\ Blt!InBitmap(c, dx, z) = z * r + dx * 4
  BY DEF Blt!InBitmap
<1> QED BY <1>1, <1>2, <1>3, <1>4

\* A transfer into the caller's bitmap shows him the rectangle.
LEMMA BitmapShows ==
    ASSUME Blt!BltAssumption, Ready(configure), memory \in [0 .. MemorySize - 1 -> Int],
           NEW b \in Bitmaps, bitmap \in [DOMAIN b -> Int],
           NEW c \in BltCalls, ~Blt!Refused(c), c.op = "VideoToBltBuffer"
    PROVE  /\ Blt!VideoToBltBuffer(c) \in [DOMAIN b -> Int]
           /\ \A x \in 0 .. c.Width - 1, y \in 0 .. c.Height - 1 :
                Blt!BitmapColours(Blt!VideoToBltBuffer(c), c,
                                  c.DestinationX + x, c.DestinationY + y)
                    = Blt!Colours(memory, c.SourceX + x, c.SourceY + y)
<1> PICK w \in Nat, h \in Nat : w = c.Width /\ h = c.Height
  BY CallIs
<1>1. PICK n \in Nat : n = w * 4
  OBVIOUS
<1> PICK after : after = Blt!VideoToBltBuffer(c)
  OBVIOUS
<1>2. ~Blt!EmptyRectangle(c)
  BY DEF Blt!Refused
<1> PICK to : to = [i \in 0 .. h - 1 |-> Blt!InBitmap(c, c.DestinationX, c.DestinationY + i)]
  OBVIOUS
<1> PICK data : data = [i \in 0 .. h - 1 |-> Blt!ReadRow(c, i)]
  OBVIOUS
<1>3. ASSUME NEW i \in 0 .. h - 1
      PROVE  BitmapRow(c, i) /\ RowShown(c, i)
  BY <1>2, BitmapRowIs, RowShownIs
<1>4. to \in [0 .. h - 1 -> Int]
  BY <1>3 DEF BitmapRow
<1>5. data \in [0 .. h - 1 -> [0 .. n - 1 -> Int]]
  <2>1. ASSUME NEW i \in 0 .. h - 1
        PROVE  Blt!ReadRow(c, i) \in [0 .. n - 1 -> Int]
    BY <1>1, <1>3 DEF RowShown
  <2> QED BY <2>1
<1>6. \A i, j \in 0 .. h - 1 : i < j => to[i] + n <= to[j]
  BY <1>1, BitmapRowsApart
<1>7. after = Blt!CopyRows(bitmap, h, to, data, n)
  BY <1>1 DEF Blt!VideoToBltBuffer, Blt!Rows
<1>8. Written(after, bitmap, to, data, n, h)
  BY ZenonT(60), <1>1, <1>4, <1>5, <1>6, <1>7, CopyRowsIs
<1>9. ASSUME NEW x \in 0 .. w - 1, NEW y \in 0 .. h - 1, NEW k \in 0 .. 2
      PROVE  after[Blt!InBitmap(c, c.DestinationX + x, c.DestinationY + y) + k]
               = memory[Blt!Address(c.SourceX + x, c.SourceY + y) + configure.masks[3 - k]]
  <2>1. 4 * x + k \in 0 .. n - 1
    BY SMTT(40), <1>1
  <2>2. /\ to[y] \in Nat
        /\ Blt!InBitmap(c, c.DestinationX + x, c.DestinationY + y) + k = to[y] + (4 * x + k)
        /\ to[y] + (4 * x + k) \in DOMAIN bitmap
    BY <1>3 DEF BitmapRow
  <2>3. after[to[y] + (4 * x + k)] = data[y][4 * x + k]
    <3>1. PICK e \in 0 .. n - 1 : e = 4 * x + k
      BY <2>1
    <3> PICK t \in Nat : t = to[y]
      BY <2>2
    <3>5. e \in 0 .. n - 1 /\ n \in Nat
      BY <1>1, <3>1
    <3>2. t + e \in t .. t + n - 1 /\ (t + e) - t = e
      BY SMTT(40), <3>5
    <3>3. t + e \in DOMAIN bitmap
      BY <2>2, <3>1
    <3>4. after[t + e] = data[y][(t + e) - t]
      BY <1>8, <3>2, <3>3 DEF Written
    <3> QED BY <3>1, <3>2, <3>4
  <2>4. data[y][4 * x + k]
          = memory[Blt!Address(x + c.SourceX, y + c.SourceY) + configure.masks[3 - k]]
    BY <1>3 DEF RowShown
  <2>5. x + c.SourceX = c.SourceX + x /\ y + c.SourceY = c.SourceY + y
    BY SMTT(40), CallIs
  <2> QED BY <2>2, <2>3, <2>4, <2>5
<1>10. ASSUME NEW x \in 0 .. w - 1, NEW y \in 0 .. h - 1
       PROVE  Blt!BitmapColours(after, c, c.DestinationX + x, c.DestinationY + y)
                = Blt!Colours(memory, c.SourceX + x, c.SourceY + y)
  BY <1>9 DEF Blt!BitmapColours, Blt!Colours
<1>11. after \in [DOMAIN b -> Int]
  BY <1>8 DEF Written
<1> QED BY <1>10, <1>11

\* A transfer that only paints is exact.
LEMMA PaintedIsExact ==
    ASSUME NEW c, ~Blt!Refused(c), c.op # "VideoToBltBuffer", OnlyPainted(c, Blt!MemoryAfter(c))
    PROVE  Blt!Exact(c)
<1> PICK after : after = Blt!MemoryAfter(c)
  OBVIOUS
<1> PICK changes : changes =
       {p \in Blt!Points : ~Blt!Refused(c) /\ c.op # "VideoToBltBuffer" /\ Blt!Inside(c, p)}
  OBVIOUS
<1>1. \A p \in Blt!Points : p \in changes <=> Blt!Inside(c, p)
  OBVIOUS
<1>2. \A p \in Blt!Points : Blt!Colours(after, p[1], p[2]) =
         IF p \in changes THEN Blt!Painted(c, p) ELSE Blt!Colours(memory, p[1], p[2])
  BY <1>1 DEF OnlyPainted
<1>3. \A a \in DOMAIN memory :
         \/ after[a] = memory[a]
         \/ \E p \in changes : a - Blt!Address(p[1], p[2]) \in 0 .. (configure.BytesPerPixel - 1)
  BY <1>1 DEF OnlyPainted, InPixel
<1> QED BY <1>2, <1>3 DEF Blt!Exact

\* What a call makes of memory and of the caller's bitmap, and that it is exact.
CallDone(c, b) ==
    /\ Blt!MemoryAfter(c) \in [0 .. MemorySize - 1 -> Int]
    /\ Blt!BitmapAfter(c) \in [DOMAIN b -> Int]
    /\ ~Blt!CopiesBack(c) /\ ~Blt!SkipsColumns(c) => Blt!Exact(c)

\* A call that is refused changes nothing.
LEMMA RefusedCall ==
    ASSUME memory \in [0 .. MemorySize - 1 -> Int], NEW b, bitmap \in [DOMAIN b -> Int],
           NEW c, Blt!Refused(c)
    PROVE  CallDone(c, b)
<1>1. Blt!MemoryAfter(c) = memory /\ Blt!BitmapAfter(c) = bitmap
  BY DEF Blt!MemoryAfter, Blt!BitmapAfter
<1>2. Blt!Exact(c)
  BY <1>1 DEF Blt!Exact
<1> QED BY <1>1, <1>2 DEF CallDone

\* A call that reads the screen changes the caller's bitmap only.
LEMMA ReadingCall ==
    ASSUME Blt!BltAssumption, Ready(configure), memory \in [0 .. MemorySize - 1 -> Int],
           NEW b \in Bitmaps, bitmap \in [DOMAIN b -> Int],
           NEW c \in BltCalls, ~Blt!Refused(c), c.op = "VideoToBltBuffer"
    PROVE  CallDone(c, b)
<1>1. Blt!MemoryAfter(c) = memory /\ Blt!BitmapAfter(c) = Blt!VideoToBltBuffer(c)
  BY DEF Blt!MemoryAfter, Blt!BitmapAfter
<1>2. Blt!VideoToBltBuffer(c) \in [DOMAIN b -> Int]
  BY BitmapShows
<1>3. \A x \in 0 .. c.Width - 1, y \in 0 .. c.Height - 1 :
          Blt!BitmapColours(Blt!BitmapAfter(c), c, c.DestinationX + x, c.DestinationY + y)
              = Blt!Colours(memory, c.SourceX + x, c.SourceY + y)
  BY <1>1, BitmapShows
<1>4. Blt!Exact(c)
  BY <1>1, <1>3 DEF Blt!Exact
<1> QED BY <1>1, <1>2, <1>4 DEF CallDone

\* A call that changes the screen.
LEMMA PaintingCall ==
    ASSUME Blt!BltAssumption, Ready(configure), memory \in [0 .. MemorySize - 1 -> Int],
           NEW b \in Bitmaps, bitmap \in [DOMAIN b -> Int],
           NEW c \in BltCalls, ~Blt!Refused(c), c.op # "VideoToBltBuffer"
    PROVE  CallDone(c, b)
<1>1. Blt!BitmapAfter(c) = bitmap
  BY DEF Blt!BitmapAfter
<1>2. ASSUME Blt!MemoryAfter(c) \in [0 .. MemorySize - 1 -> Int],
             ~Blt!CopiesBack(c) /\ ~Blt!SkipsColumns(c) => OnlyPainted(c, Blt!MemoryAfter(c))
      PROVE  CallDone(c, b)
  <2>1. ~Blt!CopiesBack(c) /\ ~Blt!SkipsColumns(c) => Blt!Exact(c)
    BY <1>2, PaintedIsExact
  <2> QED BY <1>1, <1>2, <2>1 DEF CallDone
<1>3. CASE c.op = "VideoFill"
  <2>1. Blt!MemoryAfter(c) = Blt!VideoFill(c)
    BY <1>3 DEF Blt!MemoryAfter
  <2>2. /\ Blt!VideoFill(c) \in [0 .. MemorySize - 1 -> Int]
        /\ OnlyPainted(c, Blt!VideoFill(c))
    BY <1>3, FillPaints
  <2> QED BY <1>2, <2>1, <2>2
<1>4. CASE c.op = "BufferToVideo"
  <2>1. Blt!MemoryAfter(c) = Blt!BltBufferToVideo(c)
    BY <1>4 DEF Blt!MemoryAfter
  <2>2. /\ Blt!BltBufferToVideo(c) \in [0 .. MemorySize - 1 -> Int]
        /\ ~Blt!SkipsColumns(c) => OnlyPainted(c, Blt!BltBufferToVideo(c))
    BY <1>4, BufferPaints
  <2> QED BY <1>2, <2>1, <2>2
<1>5. CASE c.op = "VideoToVideo"
  <2>1. Blt!MemoryAfter(c) = Blt!VideoToVideo(c)
    BY <1>5 DEF Blt!MemoryAfter
  <2>2. Blt!VideoToVideo(c) \in [0 .. MemorySize - 1 -> Int]
    <3>1. PICK copied : Scrolls(c, copied)
      BY <1>5, ScrollRuns
    <3> QED BY <3>1 DEF Scrolls
  <2>3. ~Blt!CopiesBack(c) => OnlyPainted(c, Blt!VideoToVideo(c))
    BY <1>5, ScrollPaints
  <2> QED BY <1>2, <2>1, <2>2, <2>3
<1> QED BY <1>3, <1>4, <1>5, CallIs

\* Every call.
LEMMA EveryCall ==
    ASSUME Blt!BltAssumption, configure = Blt!NotConfigured \/ Ready(configure),
           memory \in [0 .. MemorySize - 1 -> Int],
           NEW b \in Bitmaps, bitmap \in [DOMAIN b -> Int], NEW c \in BltCalls
    PROVE  CallDone(c, b)
<1>1. CASE Blt!Refused(c)
  BY <1>1, RefusedCall
<1>2. CASE ~Blt!Refused(c)
  <2>1. Ready(configure)
    BY <1>2 DEF Blt!Refused
  <2> QED BY <1>2, <2>1, ReadingCall, PaintingCall
<1> QED BY <1>1, <1>2

\* The invariant says that transfers are exact.
LEMMA BltInvSays ==
    ASSUME Blt!BltAssumption, BltInv
    PROVE  BltExact
<1>1. PICK b \in Bitmaps : bitmap \in [DOMAIN b -> Int]
  BY DEF BltInv
<1>2. ASSUME NEW c \in BltCalls, ~Blt!CopiesBack(c), ~Blt!SkipsColumns(c)
      PROVE  Blt!Exact(c)
  <2>1. CallDone(c, b)
    BY <1>1, EveryCall DEF BltInv
  <2> QED BY <1>2, <2>1 DEF CallDone
<1>3. Blt!TypeOK
  <2>1. configure = Blt!NotConfigured \/ configure.BytesPerPixel \in 1 .. 4
    BY DEF BltInv, Ready
  <2> QED BY <1>1, <2>1 DEF Blt!TypeOK, BltInv
<1> QED BY <1>2, <1>3 DEF BltExact, Blt!BltExact

\* The library is not configured when the driver has started, or for its screen.
LEMMA Configured ==
    ASSUME Blt!BltAssumption, NEW i \in Blt!Screens, NEW size
    PROVE  LET made == Blt!FrameBufferBltConfigure(i, size).made
           IN  made = Blt!NotConfigured \/ Ready(made)
<1>1. CASE Blt!FrameBufferBltConfigure(i, size).status = "SUCCESS"
  BY <1>1, MadeReady
<1>2. CASE Blt!FrameBufferBltConfigure(i, size).status # "SUCCESS"
  <2>1. Blt!FrameBufferBltConfigure(i, size).made = Blt!NotConfigured
    BY <1>2 DEF Blt!FrameBufferBltConfigure
  <2> QED BY <2>1
<1> QED BY <1>1, <1>2

\* The display is cleared, and memory is as large as it was.
LEMMA ClearedIs ==
    ASSUME MemorySize \in Nat, memory \in [0 .. MemorySize - 1 -> Int], NEW n
    PROVE  Blt!CopyMem(memory, 0, [a \in DOMAIN memory |-> 0], n) \in [0 .. MemorySize - 1 -> Int]
<1> DEFINE zero == [a \in DOMAIN memory |-> 0]
           D == 0 .. MemorySize - 1
<1>1. DOMAIN memory = D /\ zero = [a \in D |-> 0]
  OBVIOUS
<1>2. ASSUME NEW a \in D
      PROVE  (IF a \in 0 .. (0 + n - 1) THEN zero[a - 0] ELSE memory[a]) \in Int
  <2>1. a - 0 = a /\ zero[a] = 0
    BY <1>1
  <2> HIDE DEF zero
  <2>2. memory[a] \in Int
    OBVIOUS
  <2> QED BY <2>1, <2>2
<1>3. Blt!CopyMem(memory, 0, zero, n)
        = [a \in D |-> IF a \in 0 .. (0 + n - 1) THEN zero[a - 0] ELSE memory[a]]
  BY <1>1 DEF Blt!CopyMem
<1> HIDE DEF zero
<1>4. Blt!CopyMem(memory, 0, zero, n) \in [D -> Int]
  BY <1>2, <1>3
<1> QED BY <1>4 DEF zero

\* The invariant holds at first.
LEMMA BltStarts ==
    ASSUME Blt!BltAssumption, Blt!Init
    PROVE  BltInv
<1>1. bitmap \in Bitmaps /\ bitmap \in [DOMAIN bitmap -> Int]
  BY DEF Blt!Init, Blt!BltAssumption
<1>2. memory \in [0 .. MemorySize - 1 -> Int]
  BY DEF Blt!Init
<1>3. calls \in 0 .. MaxCalls
  BY DEF Blt!Init, Blt!BltAssumption
<1> QED BY <1>1, <1>2, <1>3 DEF Blt!Init, BltInv

\* Starting the driver keeps it.
LEMMA BltInitializeKeeps ==
    ASSUME Blt!BltAssumption, BltInv, Blt!SimpleFbDxeInitialize
    PROVE  BltInv'
<1>1. PICK i \in Blt!Screens, granted \in BOOLEAN :
         /\ configure' = IF Blt!FrameBufferBltConfigure(i, 0).status = "BUFFER_TOO_SMALL" /\ granted
                         THEN Blt!FrameBufferBltConfigure(i,
                                 Blt!FrameBufferBltConfigure(i, 0).size).made
                         ELSE Blt!NotConfigured
         /\ memory' = Blt!CopyMem(memory, 0, [a \in DOMAIN memory |-> 0],
                                  i.HorizontalResolution * 4 * i.VerticalResolution)
  BY DEF Blt!SimpleFbDxeInitialize, Blt!BltAssumption
<1>2. configure' = Blt!NotConfigured \/ Ready(configure')
  <2> PICK g, size : /\ size = Blt!FrameBufferBltConfigure(i, 0).size
                     /\ g = Blt!FrameBufferBltConfigure(i, size).made
    OBVIOUS
  <2>1. configure' = g \/ configure' = Blt!NotConfigured
    BY <1>1
  <2>2. g = Blt!NotConfigured \/ Ready(g)
    BY Configured
  <2> QED BY <2>1, <2>2
<1>3. memory' \in [0 .. MemorySize - 1 -> Int]
  <2> PICK n : n = i.HorizontalResolution * 4 * i.VerticalResolution
    OBVIOUS
  <2>1. Blt!CopyMem(memory, 0, [a \in DOMAIN memory |-> 0], n) \in [0 .. MemorySize - 1 -> Int]
    BY ClearedIs DEF BltInv, Blt!BltAssumption
  <2> QED BY <1>1, <2>1
<1>4. bltInstalled' \in BOOLEAN /\ bitmap' = bitmap /\ calls' = calls
  BY DEF Blt!SimpleFbDxeInitialize
<1> QED BY <1>2, <1>3, <1>4 DEF BltInv, Blt!NotConfigured

\* A call keeps it.
LEMMA BltKeeps ==
    ASSUME Blt!BltAssumption, BltInv, NEW c \in BltCalls, Blt!DisplayBlt(c)
    PROVE  BltInv'
<1>1. PICK b \in Bitmaps : bitmap \in [DOMAIN b -> Int]
  BY DEF BltInv
<1>2. CallDone(c, b)
  BY <1>1, EveryCall DEF BltInv
<1>3. memory' \in [0 .. MemorySize - 1 -> Int] /\ bitmap' \in [DOMAIN b -> Int]
  BY <1>2 DEF CallDone, Blt!DisplayBlt
<1>4. bltInstalled' = bltInstalled /\ configure' = configure /\ calls' \in 0 .. MaxCalls
  BY DEF Blt!DisplayBlt, BltInv, Blt!BltAssumption
<1> QED BY <1>3, <1>4 DEF BltInv, Blt!NotConfigured

\* The memory and the bitmaps are what the invariant says.
LEMMA BltInvKept == Blt!Spec => []BltInv
<1>1. Blt!BltAssumption
  BY OutputAssumption
<1>2. Blt!Init => BltInv
  BY <1>1, BltStarts
<1>3. BltInv /\ [Blt!Next]_Blt!vars => BltInv'
  <2> SUFFICES ASSUME BltInv, [Blt!Next]_Blt!vars
               PROVE  BltInv'
    OBVIOUS
  <2>1. CASE Blt!SimpleFbDxeInitialize
    BY <1>1, <2>1, BltInitializeKeeps
  <2>2. ASSUME NEW c \in BltCalls, Blt!DisplayBlt(c)
        PROVE  BltInv'
    BY <1>1, <2>2, BltKeeps
  <2>3. CASE UNCHANGED Blt!vars
    BY <2>3 DEF BltInv, Blt!vars, Blt!NotConfigured
  <2> QED BY <2>1, <2>2, <2>3 DEF Blt!Next
<1> QED BY <1>2, <1>3, PTL DEF Blt!Spec

\* FrameBufferBlt: whatever the screens, pixel formats, padding, rectangles and
\* bitmaps, a transfer puts into its rectangle, pixel by pixel, what its source
\* shows, and changes no byte outside of it.
THEOREM TransfersExact == Blt!Spec => []BltExact
<1>1. Blt!BltAssumption
  BY OutputAssumption
<1>2. BltInv => BltExact
  BY <1>1, BltInvSays
<1> QED BY <1>2, BltInvKept, PTL

=============================================================================
