------------------------ MODULE InputDevices_proofs ------------------------
(***************************************************************************)
(* InputDevices: keys are read in order and fit into the queue, movements   *)
(* and touches reach the clients of the pointers, and every button gives    *)
(* one key that is read, for all devices, ranges and sizes.                 *)
(***************************************************************************)
EXTENDS ConSplitterIn_proofs, InputDevices, FiniteSetTheorems, WellFoundedInduction

(***************************************************************************)
(* Numbers and lists.                                                      *)
(***************************************************************************)

\* A set of naturals has a least element, and it is the minimum.
LEMMA MinOf ==
    ASSUME NEW S, S \subseteq Nat, S # {}
    PROVE  Min(S) \in S /\ \A y \in S : Min(S) <= y
<1> DEFINE R == OpToRel(<, Nat)
<1>1. IsWellFoundedOn(R, Nat)
  BY NatLessThanWellFounded
<1>2. ASSUME NEW x \in Nat, NEW y \in Nat, x < y
      PROVE  <<x, y>> \in R
  <2> DEFINE p == <<x, y>>
  <2>1. p \in Nat \X Nat /\ p[1] = x /\ p[2] = y
    OBVIOUS
  <2> HIDE DEF p
  <2>2. p \in {q \in Nat \X Nat : q[1] < q[2]}
    BY <1>2, <2>1
  <2>3. p \in R
    BY <2>2, Zenon DEF OpToRel
  <2> QED
    BY <2>3 DEF p
<1> HIDE DEF R
<1>3. PICK x \in S : \A y \in S : ~(<<y, x>> \in R)
  BY <1>1, WFMin
<1>4. \A y \in S : x <= y
  <2> TAKE y \in S
  <2>1. x \in Nat /\ y \in Nat /\ ~(y < x)
    BY <1>2, <1>3
  <2> QED BY <2>1
<1> QED
  BY <1>4 DEF Min

\* What holds at zero and passes from every number to the next holds up to n.
LEMMA Upwards ==
    ASSUME NEW n \in Nat, NEW S, 0 \in S, \A k \in 0 .. n - 1 : k \in S => k + 1 \in S
    PROVE  \A k \in 0 .. n : k \in S
<1> SUFFICES ASSUME NEW m \in 0 .. n, m \notin S
             PROVE  FALSE
  OBVIOUS
<1> DEFINE Out == {k \in 0 .. n : k \notin S}
           x == Min(Out)
<1>1. Out \subseteq Nat /\ Out # {}
  OBVIOUS
<1>2. x \in Out /\ \A y \in Out : x <= y
  BY <1>1, MinOf
<1> HIDE DEF x
<1>3. x - 1 \in 0 .. n - 1 /\ x - 1 \notin Out
  BY <1>2
<1>4. x \in S
  BY <1>2, <1>3
<1> QED
  BY <1>2, <1>4

\* What is left of a list in which d is once at most.
LEMMA WithoutOf ==
    ASSUME NEW S, NEW s \in Seq(S), NEW d, IsInjective(s)
    PROVE  /\ Keys!Without(s, d) \in Seq(S)
           /\ Len(Keys!Without(s, d)) <= Len(s)
           /\ IsInjective(Keys!Without(s, d))
           /\ Held(Keys!Without(s, d)) = Held(s) \ {d}
<1> DEFINE at == {i \in DOMAIN s : s[i] = d}
           k == Min(at)
<1>1. Len(s) \in Nat /\ DOMAIN s = 1 .. Len(s)
  BY LenProperties
<1>2. CASE at = {}
  <2>1. d \notin Held(s) /\ Keys!Without(s, d) = s
    BY <1>2 DEF Held, Keys!Held, Keys!Without
  <2> QED BY <1>1, <2>1
<1>3. CASE at # {}
  <2>1. k \in at
    <3>1. at \subseteq Nat
      BY <1>1
    <3> HIDE DEF at
    <3> QED BY <1>3, <3>1, MinOf
  <2>2. k \in DOMAIN s /\ s[k] = d
    BY <2>1
  <2>3. Keys!Without(s, d) = RemoveAt(s, k)
    <3>1. d \in Keys!Held(s)
      BY <2>2 DEF Keys!Held
    <3>2. Keys!RemoveAt(s, k) = RemoveAt(s, k) /\ Keys!Min(at) = k
      BY DEF Keys!RemoveAt, RemoveAt, Keys!Min, Min
    <3> QED BY <3>1, <3>2 DEF Keys!Without
  <2> HIDE DEF k
  <2>4. /\ RemoveAt(s, k) \in Seq(S) /\ Len(RemoveAt(s, k)) = Len(s) - 1
        /\ IsInjective(RemoveAt(s, k)) /\ Held(RemoveAt(s, k)) = Held(s) \ {s[k]}
    BY <2>2, Removed, HeldRemoved
  <2> QED BY <1>1, <2>2, <2>3, <2>4
<1> QED BY <1>2, <1>3

\* n steps, each a function of what the one before left, and f that makes them.
Steps(n, T) == [1 .. n -> [T -> T]]
Makes(f, n, T, base, G) ==
    f \in [0 .. n -> T] /\ f[0] = base /\ \A i \in 1 .. n : f[i] = G[i][f[i - 1]]

\* A recursion over a finite range has a solution.
LEMMA Unrolled ==
    ASSUME NEW n \in Nat, NEW T, NEW base \in T, NEW G \in Steps(n, T)
    PROVE  \E f : Makes(f, n, T, base, G)
<1> USE DEF Steps
<1> DEFINE Solves(f, k) == f[0] = base /\ \A i \in 1 .. k : f[i] = G[i][f[i - 1]]
           S == {k \in 0 .. n : \E f \in [0 .. k -> T] : Solves(f, k)}
<1>1. 0 \in S
  <2> DEFINE e == [i \in 0 .. 0 |-> base]
  <2>1. e \in [0 .. 0 -> T] /\ Solves(e, 0)
    OBVIOUS
  <2> HIDE DEF e, Solves
  <2> QED BY <2>1
<1>2. ASSUME NEW k \in 0 .. n - 1, k \in S
      PROVE  k + 1 \in S
  <2>1. PICK f \in [0 .. k -> T] : Solves(f, k)
    BY <1>2
  <2>2. G[k + 1][f[k]] \in T
    <3>1. k + 1 \in 1 .. n /\ f[k] \in T
      OBVIOUS
    <3>2. G[k + 1] \in [T -> T]
      BY <3>1
    <3> QED BY <3>1, <3>2
  <2> DEFINE e == [i \in 0 .. k + 1 |-> IF i <= k THEN f[i] ELSE G[k + 1][f[k]]]
  <2>3. /\ e \in [0 .. k + 1 -> T] /\ \A i \in 0 .. k : e[i] = f[i]
        /\ e[k + 1] = G[k + 1][f[k]]
    BY <2>2
  <2> HIDE DEF e
  <2>4. ASSUME NEW i \in 1 .. k + 1
        PROVE  e[i] = G[i][e[i - 1]]
    <3>1. CASE i = k + 1
      BY <2>3, <3>1
    <3>2. CASE i # k + 1
      <4>1. i \in 1 .. k /\ i \in 0 .. k /\ i - 1 \in 0 .. k
        BY <3>2
      <4>2. f[i] = G[i][f[i - 1]]
        BY <2>1, <4>1
      <4> QED BY <2>3, <4>1, <4>2
    <3> QED BY <3>1, <3>2
  <2>5. Solves(e, k + 1)
    BY <2>1, <2>3, <2>4
  <2> HIDE DEF Solves
  <2> QED BY <2>3, <2>5
<1> HIDE DEF S
<1>3. \A k \in 0 .. n : k \in S
  BY <1>1, <1>2, Upwards
<1> QED BY <1>3 DEF S, Makes

(***************************************************************************)
(* ConSplitterKeys.                                                        *)
(***************************************************************************)

\* The keys of d in the queue q, then those in p that it holds, rise from t on.
InLine(q, p, t, d) ==
    /\ \A i \in DOMAIN q : q[i].dev = d =>
          /\ t < q[i].n
          /\ \A j \in DOMAIN q : i < j /\ q[j].dev = d => q[i].n < q[j].n
          /\ \A j \in DOMAIN p : q[i].n < p[j].n
    /\ \A i \in DOMAIN p :
          /\ t < p[i].n
          /\ \A j \in DOMAIN p : i < j => p[i].n < p[j].n

\* The lists hold each device once, and KeyQueue grows with TextInExList.
KeyLists ==
    /\ IsInjective(keyConsoles) /\ IsInjective(keyExList)
    /\ Held(keyExList) \subseteq Held(keyConsoles)
    /\ Len(keyExList) <= keyQueueCap

\* Keys are those that were pressed, each with its own device.
KeysPressed ==
    /\ \A d \in Keyboards :
          /\ taken[d] <= keysPressed
          /\ \A i \in DOMAIN pending[d] : pending[d][i].dev = d /\ pending[d][i].n <= keysPressed
    /\ \A i \in DOMAIN keyQueue : keyQueue[i].n <= keysPressed

KeysOrdered == \A d \in Keyboards : InLine(keyQueue, pending[d], taken[d], d)

KeysInv == Keys!TypeOK /\ KeyLists /\ KeysPressed /\ KeysOrdered

\* KeysInOrder says so of every device.
LEMMA KeysOrderedIs == KeysOrdered => Keys!KeysInOrder
<1> SUFFICES ASSUME KeysOrdered, NEW d \in Keyboards
             PROVE  LET Mine == {i \in DOMAIN keyQueue : keyQueue[i].dev = d}
                    IN  /\ \A i \in Mine :
                             /\ taken[d] < keyQueue[i].n
                             /\ \A j \in Mine : i < j => keyQueue[i].n < keyQueue[j].n
                             /\ \A j \in DOMAIN pending[d] : keyQueue[i].n < pending[d][j].n
                        /\ \A i \in DOMAIN pending[d] :
                             /\ taken[d] < pending[d][i].n
                             /\ \A j \in DOMAIN pending[d] :
                                  i < j => pending[d][i].n < pending[d][j].n
  BY DEF Keys!KeysInOrder
<1> QED
  BY DEF KeysOrdered, InLine

\* It holds at first, when there is neither a device nor a key.
LEMMA KeysInit == Keys!Init => KeysInv
<1> SUFFICES ASSUME Keys!Init PROVE KeysInv
  OBVIOUS
<1>1. /\ keyConsoles = <<>> /\ keyExList = <<>> /\ keyQueue = <<>> /\ keyQueueCap = ListUnit
      /\ \A d \in Keyboards : pending[d] = <<>> /\ taken[d] = 0
      /\ keysPressed = 0 /\ ListUnit \in Nat /\ MaxKeys \in Nat
  BY DevicesAssumption DEF Keys!Init, Keys!KeysAssumption
<1>2. Keys!TypeOK
  <2>1. /\ pending = [d \in Keyboards |-> <<>>] /\ taken = [d \in Keyboards |-> 0]
        /\ exported = FALSE /\ keySignal = FALSE /\ waiting = FALSE
    BY DEF Keys!Init
  <2>2. pending \in [Keyboards -> Seq(Keys!KeyPresses)]
    <3>1. <<>> \in Seq(Keys!KeyPresses)
      OBVIOUS
    <3> HIDE DEF Keys!KeyPresses
    <3> QED BY <2>1, <3>1
  <2>3. taken \in [Keyboards -> 0 .. MaxKeys]
    BY <1>1, <2>1
  <2>4. /\ keyConsoles \in Seq(Keyboards) /\ keyExList \in Seq(ExKeyboards)
        /\ keyQueue \in Seq(Keys!KeyPresses)
    BY <1>1
  <2>5. keyQueueCap \in Nat /\ keysPressed \in 0 .. MaxKeys
    BY <1>1 DEF Keys!Init
  <2> QED BY <2>1, <2>2, <2>3, <2>4, <2>5 DEF Keys!TypeOK
<1>3. KeyLists
  BY <1>1 DEF KeyLists, IsInjective, Held
<1>4. KeysPressed /\ KeysOrdered
  BY <1>1 DEF KeysPressed, KeysOrdered, InLine
<1> QED
  BY <1>2, <1>3, <1>4 DEF KeysInv

\* What the types say of the keys.
LEMMA KeyTypes ==
    ASSUME Keys!TypeOK
    PROVE  /\ keyQueue \in Seq(Keys!KeyPresses)
           /\ \A d \in Keyboards :
                pending[d] \in Seq(Keys!KeyPresses) /\ taken[d] \in 0 .. MaxKeys
           /\ \A k \in Keys!KeyPresses :
                k.dev \in Keyboards /\ k.n \in 1 .. MaxKeys /\ k.n \in Nat
           /\ keysPressed \in 0 .. MaxKeys /\ MaxKeys \in Nat /\ keysPressed \in Nat
<1>1. MaxKeys \in Nat
  BY DevicesAssumption DEF Keys!KeysAssumption
<1>2. \A k \in Keys!KeyPresses :
        k.dev \in Keyboards /\ k.n \in 1 .. MaxKeys /\ k.n \in Nat
  BY <1>1 DEF Keys!KeyPresses
<1> HIDE DEF Keys!KeyPresses
<1>3. keyQueue \in Seq(Keys!KeyPresses) /\ keysPressed \in 0 .. MaxKeys /\ keysPressed \in Nat
  BY <1>1 DEF Keys!TypeOK
<1>4. ASSUME NEW d \in Keyboards
      PROVE  pending[d] \in Seq(Keys!KeyPresses) /\ taken[d] \in 0 .. MaxKeys
  BY DEF Keys!TypeOK
<1> QED
  BY <1>1, <1>2, <1>3, <1>4

\* What is left of s behind position k.
LEMMA AfterOf ==
    ASSUME NEW S, NEW s \in Seq(S), NEW k \in DOMAIN s
    PROVE  /\ Keys!After(s, k) \in Seq(S)
           /\ DOMAIN Keys!After(s, k) = 1 .. Len(s) - k
           /\ \A i \in 1 .. Len(s) - k :
                k + i \in DOMAIN s /\ Keys!After(s, k)[i] = s[k + i]
<1> DEFINE back == SubSeq(s, k + 1, Len(s))
<1>1. Len(s) \in Nat /\ k \in 1 .. Len(s) /\ DOMAIN s = 1 .. Len(s)
  BY LenProperties
<1>2. /\ back \in Seq(S)
      /\ Len(back) = IF k + 1 <= Len(s) THEN Len(s) - (k + 1) + 1 ELSE 0
      /\ \A i \in 1 .. Len(s) - (k + 1) + 1 : back[i] = s[(k + 1) + i - 1]
  BY <1>1, SubSeqProperties
<1>3. Keys!After(s, k) = back
  BY DEF Keys!After
<1> HIDE DEF back
<1>4. DOMAIN back = 1 .. Len(s) - k
  BY <1>1, <1>2, LenProperties
<1>5. ASSUME NEW i \in 1 .. Len(s) - k
      PROVE  k + i \in DOMAIN s /\ back[i] = s[k + i]
  <2>1. i \in 1 .. Len(s) - (k + 1) + 1 /\ (k + 1) + i - 1 = k + i /\ k + i \in 1 .. Len(s)
    BY <1>1
  <2> QED BY <1>1, <1>2, <2>1
<1> QED BY <1>2, <1>3, <1>4, <1>5

\* The tail of a list is what is behind its first position.
LEMMA TailOf ==
    ASSUME NEW S, NEW s \in Seq(S), s # <<>>
    PROVE  /\ Tail(s) \in Seq(S) /\ 1 \in DOMAIN s /\ Head(s) = s[1]
           /\ DOMAIN Tail(s) = 1 .. Len(s) - 1
           /\ \A i \in 1 .. Len(s) - 1 : 1 + i \in DOMAIN s /\ Tail(s)[i] = s[1 + i]
<1>1. Len(s) \in Nat /\ DOMAIN s = 1 .. Len(s) /\ Len(s) # 0
  BY EmptySeq, LenProperties
<1>2. /\ Tail(s) \in Seq(S) /\ Len(Tail(s)) = Len(s) - 1 /\ Head(s) = s[1]
      /\ \A i \in 1 .. Len(Tail(s)) : Tail(s)[i] = s[i + 1]
  BY HeadTailProperties
<1>3. DOMAIN Tail(s) = 1 .. Len(s) - 1
  BY <1>2, LenProperties
<1> QED BY <1>1, <1>2, <1>3

Presses == Keys!KeyPresses

\* The key at k is taken from the queue, and those before it are dropped.
LEMMA TakenFromQueue ==
    ASSUME MaxKeys \in Nat, NEW q \in Seq(Presses), NEW p \in Seq(Presses), NEW t \in Nat,
           NEW d \in Keyboards, InLine(q, p, t, d), NEW k \in DOMAIN q,
           NEW r \in Seq(Presses), DOMAIN r = 1 .. Len(q) - k,
           \A i \in 1 .. Len(q) - k : k + i \in DOMAIN q /\ r[i] = q[k + i]
    PROVE  InLine(r, p, IF q[k].dev = d THEN q[k].n ELSE t, d)
<1> DEFINE u == IF q[k].dev = d THEN q[k].n ELSE t
<1>1. /\ Len(q) \in Nat /\ DOMAIN q = 1 .. Len(q)
      /\ \A i \in DOMAIN q : q[i].n \in Nat
      /\ \A i \in DOMAIN p : p[i].n \in Nat
  <2>1. \A x \in Presses : x.n \in Nat
    BY DEF Presses, Keys!KeyPresses
  <2>2. /\ Len(q) \in Nat /\ DOMAIN q = 1 .. Len(q)
        /\ \A i \in DOMAIN q : q[i] \in Presses
        /\ \A i \in DOMAIN p : p[i] \in Presses
    BY LenProperties
  <2> QED BY <2>1, <2>2
<1>2. ASSUME NEW i \in DOMAIN r, r[i].dev = d
      PROVE  /\ u < r[i].n
             /\ \A j \in DOMAIN r : i < j /\ r[j].dev = d => r[i].n < r[j].n
             /\ \A j \in DOMAIN p : r[i].n < p[j].n
  <2>1. k + i \in DOMAIN q /\ r[i] = q[k + i] /\ k < k + i /\ q[k + i].dev = d
    BY <1>1, <1>2
  <2>2. u < r[i].n
    BY <1>1, <2>1 DEF InLine
  <2>3. ASSUME NEW j \in DOMAIN r, i < j, r[j].dev = d
        PROVE  r[i].n < r[j].n
    <3>1. k + j \in DOMAIN q /\ r[j] = q[k + j] /\ k + i < k + j
      BY <1>1, <2>3
    <3> QED BY <2>1, <2>3, <3>1 DEF InLine
  <2>4. \A j \in DOMAIN p : r[i].n < p[j].n
    BY <2>1 DEF InLine
  <2> QED BY <2>2, <2>3, <2>4
<1>3. ASSUME NEW i \in DOMAIN p
      PROVE  u < p[i].n /\ \A j \in DOMAIN p : i < j => p[i].n < p[j].n
  BY <1>1 DEF InLine
<1> HIDE DEF u
<1>4. InLine(r, p, u, d)
  BY <1>2, <1>3 DEF InLine
<1> QED BY <1>4 DEF u

\* The key at k is taken from a device when the queue is empty.
LEMMA TakenFromDevice ==
    ASSUME MaxKeys \in Nat, NEW p \in Seq(Presses), NEW t \in Nat, NEW d \in Keyboards,
           InLine(<<>>, p, t, d), NEW k \in DOMAIN p,
           NEW r \in Seq(Presses), DOMAIN r = 1 .. Len(p) - k,
           \A i \in 1 .. Len(p) - k : k + i \in DOMAIN p /\ r[i] = p[k + i]
    PROVE  InLine(<<>>, r, p[k].n, d)
<1>1. Len(p) \in Nat /\ DOMAIN p = 1 .. Len(p)
  BY LenProperties
<1>2. ASSUME NEW i \in DOMAIN r
      PROVE  p[k].n < r[i].n /\ \A j \in DOMAIN r : i < j => r[i].n < r[j].n
  <2>1. k + i \in DOMAIN p /\ r[i] = p[k + i] /\ k < k + i
    BY <1>1
  <2>2. p[k].n < r[i].n
    BY <2>1 DEF InLine
  <2>3. ASSUME NEW j \in DOMAIN r, i < j
        PROVE  r[i].n < r[j].n
    <3>1. k + j \in DOMAIN p /\ r[j] = p[k + j] /\ k + i < k + j
      BY <1>1, <2>3
    <3> QED BY <2>1, <3>1 DEF InLine
  <2> QED BY <2>2, <2>3
<1> QED
  BY <1>2 DEF InLine

\* A key that is pressed is the last of its device.
LEMMA PressedLast ==
    ASSUME MaxKeys \in Nat, NEW q \in Seq(Presses), NEW p \in Seq(Presses), NEW t \in Nat,
           NEW d \in Keyboards, InLine(q, p, t, d), NEW x \in Presses,
           t < x.n, \A i \in DOMAIN q : q[i].n < x.n, \A i \in DOMAIN p : p[i].n < x.n
    PROVE  InLine(q, Append(p, x), t, d)
<1> DEFINE r == Append(p, x)
<1>1. /\ Len(p) \in Nat /\ DOMAIN p = 1 .. Len(p) /\ DOMAIN r = 1 .. Len(p) + 1
      /\ \A i \in 1 .. Len(p) : r[i] = p[i]
      /\ r[Len(p) + 1] = x
  BY AppendProperties, LenProperties
<1> HIDE DEF r
<1>2. \A i \in DOMAIN r : \/ i \in DOMAIN p /\ r[i] = p[i]
                          \/ i = Len(p) + 1 /\ r[i] = x
  BY <1>1
<1>3. ASSUME NEW i \in DOMAIN q, q[i].dev = d
      PROVE  \A j \in DOMAIN r : q[i].n < r[j].n
  BY <1>2, <1>3 DEF InLine
<1>4. ASSUME NEW i \in DOMAIN r
      PROVE  t < r[i].n /\ \A j \in DOMAIN r : i < j => r[i].n < r[j].n
  <2>1. t < r[i].n
    BY <1>2 DEF InLine
  <2>2. ASSUME NEW j \in DOMAIN r, i < j
        PROVE  r[i].n < r[j].n
    <3>1. i \in DOMAIN p /\ r[i] = p[i]
      BY <1>1, <2>2
    <3> QED BY <1>2, <2>2, <3>1 DEF InLine
  <2> QED BY <2>1, <2>2
<1>5. InLine(q, r, t, d)
  BY <1>3, <1>4 DEF InLine
<1> QED BY <1>5 DEF r

\* The first key that is not partial is in the list.
LEMMA FirstFullOf ==
    ASSUME NEW S, NEW s \in Seq(S), Keys!FirstFull(s) # 0
    PROVE  Keys!FirstFull(s) \in DOMAIN s
<1> DEFINE full == {i \in DOMAIN s : ~s[i].partial}
<1>1. full \subseteq Nat /\ full \subseteq DOMAIN s
  BY LenProperties
<1>2. full # {} /\ Keys!FirstFull(s) = Min(full)
  <2>1. Keys!Min(full) = Min(full)
    BY DEF Keys!Min, Min
  <2> QED BY <2>1 DEF Keys!FirstFull
<1> HIDE DEF full
<1>3. Min(full) \in full
  BY <1>1, <1>2, MinOf
<1> QED
  BY <1>1, <1>2, <1>3

\* Each Ex device gives one key at most to KeyQueue, its first one.
LEMMA SavedOf ==
    ASSUME Keys!TypeOK, KeyLists, KeysPressed, NEW broken
    PROVE  /\ Keys!SaveKeys(broken) \in Seq(Presses)
           /\ Len(Keys!SaveKeys(broken)) <= Len(keyExList)
           /\ \A i \in DOMAIN Keys!SaveKeys(broken) :
                LET k == Keys!SaveKeys(broken)[i]
                IN  /\ k.dev \in Keys!ReadyDevices(broken) /\ k.dev \in Keyboards
                    /\ pending[k.dev] # <<>> /\ k = Head(pending[k.dev])
           /\ \A i, j \in DOMAIN Keys!SaveKeys(broken) :
                Keys!SaveKeys(broken)[i].dev = Keys!SaveKeys(broken)[j].dev => i = j
<1> DEFINE n == Len(keyExList)
           Saves(i) == /\ keyExList[i] \in Keys!ReadyDevices(broken)
                       /\ exported \/ ~Head(pending[keyExList[i]]).partial
           Body(f, i) == IF i = 0 THEN <<>>
                         ELSE IF Saves(i) THEN Append(f[i - 1], Head(pending[keyExList[i]]))
                         ELSE f[i - 1]
           Solves(f) == f = [i \in 0 .. n |-> Body(f, i)]
           saved == CHOOSE f : Solves(f)
<1>1. Keys!SaveKeys(broken) = saved[n]
  BY Zenon DEF Keys!SaveKeys
<1>2. /\ n \in Nat /\ DOMAIN keyExList = 1 .. n /\ ExKeyboards \subseteq Keyboards
      /\ \A i \in 1 .. n : keyExList[i] \in Keyboards
  <2>1. keyExList \in Seq(ExKeyboards) /\ ExKeyboards \subseteq Keyboards
    BY DevicesAssumption DEF Keys!TypeOK, Keys!KeysAssumption
  <2> QED BY <2>1, LenProperties
<1>3. ASSUME NEW i \in 1 .. n, Saves(i)
      PROVE  /\ pending[keyExList[i]] # <<>> /\ Head(pending[keyExList[i]]) \in Presses
             /\ Head(pending[keyExList[i]]).dev = keyExList[i]
  <2> DEFINE d == keyExList[i]
  <2>1. d \in Keyboards /\ pending[d] # <<>> /\ pending[d] \in Seq(Presses)
    BY <1>2, <1>3, KeyTypes DEF Keys!ReadyDevices, Presses
  <2> HIDE DEF d
  <2>2. 1 \in DOMAIN pending[d] /\ Head(pending[d]) = pending[d][1]
    BY <2>1, TailOf
  <2>3. pending[d][1] \in Presses
    BY <2>1, <2>2, LenProperties
  <2>4. pending[d][1].dev = d
    BY <2>1, <2>2 DEF KeysPressed
  <2> QED BY <2>1, <2>2, <2>3, <2>4 DEF d
<1> DEFINE G == [i \in 1 .. n |-> [s \in Seq(Presses) |->
                   IF Saves(i) THEN Append(s, Head(pending[keyExList[i]])) ELSE s]]
<1> HIDE DEF Saves
<1>4. G \in [1 .. n -> [Seq(Presses) -> Seq(Presses)]]
  <2>1. ASSUME NEW i \in 1 .. n, NEW s \in Seq(Presses)
        PROVE  (IF Saves(i) THEN Append(s, Head(pending[keyExList[i]])) ELSE s) \in Seq(Presses)
    BY <1>3, AppendProperties
  <2> QED BY <2>1
<1>5. \A i \in 1 .. n : \A s \in Seq(Presses) :
         G[i][s] = IF Saves(i) THEN Append(s, Head(pending[keyExList[i]])) ELSE s
  OBVIOUS
<1> HIDE DEF n, G
<1>6. PICK f \in [0 .. n -> Seq(Presses)] :
         f[0] = <<>> /\ \A i \in 1 .. n : f[i] = G[i][f[i - 1]]
  <2>1. G \in Steps(n, Seq(Presses)) /\ <<>> \in Seq(Presses)
    BY <1>4 DEF Steps
  <2>2. \E f : Makes(f, n, Seq(Presses), <<>>, G)
    BY <1>2, <2>1, Unrolled
  <2> QED BY <2>2 DEF Makes
<1>7. Solves(f)
  <2>1. ASSUME NEW i \in 0 .. n
        PROVE  f[i] = Body(f, i)
    <3>1. CASE i = 0
      BY <1>6, <3>1
    <3>2. CASE i # 0
      <4>1. i \in 1 .. n /\ f[i - 1] \in Seq(Presses)
        BY <1>2, <3>2
      <4> QED BY <1>5, <1>6, <3>2, <4>1
    <3> QED BY <3>1, <3>2
  <2> HIDE DEF Body
  <2> QED BY <2>1
<1>8. Solves(saved)
  <2> HIDE DEF Solves
  <2> QED BY <1>7
<1>9. saved[0] = <<>> /\ \A i \in 1 .. n :
         saved[i] = IF Saves(i) THEN Append(saved[i - 1], Head(pending[keyExList[i]]))
                    ELSE saved[i - 1]
  <2>1. \A i \in 0 .. n : saved[i] = Body(saved, i)
    <3> HIDE DEF Body, saved
    <3> QED BY <1>8
  <2>2. 0 \in 0 .. n /\ \A i \in 1 .. n : i \in 0 .. n /\ i # 0
    BY <1>2
  <2> HIDE DEF saved
  <2> QED BY <2>1, <2>2
<1> HIDE DEF saved, Solves, Body
<1> DEFINE Good(s, m) ==
             /\ s \in Seq(Presses) /\ Len(s) <= m
             /\ \A i \in DOMAIN s : \E j \in 1 .. m :
                  Saves(j) /\ s[i] = Head(pending[keyExList[j]]) /\ s[i].dev = keyExList[j]
             /\ \A i, j \in DOMAIN s : s[i].dev = s[j].dev => i = j
           S == {m \in 0 .. n : Good(saved[m], m)}
<1>10. 0 \in S
  <2>1. Good(<<>>, 0)
    OBVIOUS
  <2>2. Good(saved[0], 0) /\ 0 \in 0 .. n
    BY <1>2, <1>9, <2>1
  <2> HIDE DEF Good
  <2> QED BY <2>2
<1>11. ASSUME NEW m \in 0 .. n - 1, m \in S
       PROVE  m + 1 \in S
  <2>1. m + 1 \in 1 .. n /\ (m + 1) - 1 = m /\ Good(saved[m], m)
    BY <1>2, <1>11
  <2> DEFINE s == saved[m]
             k == Head(pending[keyExList[m + 1]])
  <2>2. CASE ~Saves(m + 1)
    <3>1. saved[m + 1] = s
      BY <1>9, <2>1, <2>2
    <3> HIDE DEF s
    <3>2. Len(s) <= m + 1
      BY <2>1, LenProperties DEF s
    <3>3. \A j \in 1 .. m : j \in 1 .. m + 1
      OBVIOUS
    <3>4. Good(s, m + 1)
      BY <2>1, <3>2, <3>3 DEF s
    <3> QED BY SMTT(40), <2>1, <3>1, <3>4
  <2>3. CASE Saves(m + 1)
    <3>1. saved[m + 1] = Append(s, k) /\ k \in Presses /\ k.dev = keyExList[m + 1]
      BY <1>3, <1>9, <2>1, <2>3
    <3> DEFINE r == Append(s, k)
    <3> HIDE DEF s, k
    <3>2. s \in Seq(Presses) /\ Len(s) <= m /\ Len(s) \in Nat
      BY <2>1, LenProperties DEF s
    <3>3. /\ r \in Seq(Presses) /\ Len(r) = Len(s) + 1 /\ DOMAIN r = 1 .. Len(s) + 1
          /\ DOMAIN s = 1 .. Len(s)
          /\ \A i \in 1 .. Len(s) : r[i] = s[i]
          /\ r[Len(s) + 1] = k
      BY <3>1, <3>2, AppendProperties, LenProperties
    <3> HIDE DEF r
    <3>4. \A i \in DOMAIN r : i \in DOMAIN s \/ i = Len(s) + 1
      BY <3>2, <3>3
    <3>5. ASSUME NEW i \in DOMAIN s
          PROVE  s[i].dev # k.dev
      <4>1. PICK j \in 1 .. m : s[i].dev = keyExList[j]
        BY <2>1 DEF s
      <4>2. j \in 1 .. n /\ m + 1 \in 1 .. n /\ j # m + 1
        BY <1>2, <2>1
      <4>3. keyExList[j] # keyExList[m + 1]
        BY <1>2, <4>2 DEF KeyLists, IsInjective
      <4> QED BY <3>1, <4>1, <4>3
    <3>6. ASSUME NEW i \in DOMAIN r
          PROVE  \E j \in 1 .. m + 1 :
                   Saves(j) /\ r[i] = Head(pending[keyExList[j]]) /\ r[i].dev = keyExList[j]
      <4>1. CASE i \in DOMAIN s
        <5>1. PICK j \in 1 .. m :
                 Saves(j) /\ s[i] = Head(pending[keyExList[j]]) /\ s[i].dev = keyExList[j]
          BY <2>1, <4>1 DEF s
        <5>2. j \in 1 .. m + 1 /\ r[i] = s[i]
          BY <3>3, <4>1
        <5> QED BY <5>1, <5>2
      <4>2. CASE i = Len(s) + 1
        <5>1. m + 1 \in 1 .. m + 1
          OBVIOUS
        <5> QED BY <2>3, <3>1, <3>3, <4>2, <5>1 DEF k
      <4> QED BY <3>4, <4>1, <4>2
    <3>7. ASSUME NEW i \in DOMAIN r, NEW j \in DOMAIN r, r[i].dev = r[j].dev
          PROVE  i = j
      BY <2>1, <3>3, <3>4, <3>5, <3>7 DEF s
    <3>8. Good(r, m + 1)
      BY <3>2, <3>3, <3>6, <3>7
    <3>9. Good(saved[m + 1], m + 1)
      BY SMTT(40), <3>1, <3>8 DEF r
    <3> HIDE DEF Good
    <3> QED BY <2>1, <3>9
  <2> QED BY <2>2, <2>3
<1> HIDE DEF S
<1>12. \A m \in 0 .. n : m \in S
  BY <1>2, <1>10, <1>11, Upwards
<1>13. Good(saved[n], n)
  <2>1. n \in 0 .. n
    BY <1>2
  <2>2. n \in S
    BY <1>12, <2>1
  <2> HIDE DEF Good
  <2> QED BY <2>2 DEF S
<1> DEFINE s == saved[n]
<1>14. ASSUME NEW i \in DOMAIN s
       PROVE  /\ s[i].dev \in Keys!ReadyDevices(broken) /\ s[i].dev \in Keyboards
              /\ pending[s[i].dev] # <<>> /\ s[i] = Head(pending[s[i].dev])
  <2>1. PICK j \in 1 .. n :
           Saves(j) /\ s[i] = Head(pending[keyExList[j]]) /\ s[i].dev = keyExList[j]
    BY <1>13
  <2>2. keyExList[j] \in Keys!ReadyDevices(broken) /\ keyExList[j] \in Keyboards
    BY <1>2, <2>1 DEF Saves
  <2>3. pending[keyExList[j]] # <<>>
    BY <2>2 DEF Keys!ReadyDevices
  <2> QED BY <2>1, <2>2, <2>3
<1>15. Keys!SaveKeys(broken) = s
  BY <1>1
<1> HIDE DEF s
<1>16. s \in Seq(Presses) /\ Len(s) <= n /\ \A i, j \in DOMAIN s : s[i].dev = s[j].dev => i = j
  BY <1>13 DEF s
<1> QED
  BY <1>14, <1>15, <1>16 DEF n

\* The keys are as before.
LEMMA KeysSame ==
    ASSUME KeysInv, UNCHANGED <<keyQueue, pending, taken, keysPressed>>
    PROVE  KeysPressed' /\ KeysOrdered'
  BY DEF KeysInv, KeysPressed, KeysOrdered, InLine

\* The lists are as before.
LEMMA ListsSame ==
    ASSUME KeysInv, UNCHANGED <<keyConsoles, keyExList, keyQueueCap>>
    PROVE  KeyLists'
  BY DEF KeysInv, KeyLists, IsInjective, Held

\* Devices that come and go leave the keys, and KeyQueue grows in time.
LEMMA KeysBinding ==
    ASSUME KeysInv, NEW d \in Keyboards, Keys!AddDevice(d) \/ Keys!DeleteDevice(d)
    PROVE  KeysInv'
<1>1. UNCHANGED <<keyQueue, exported, keySignal, waiting, pending, keysPressed, taken>>
  BY DEF Keys!AddDevice, Keys!DeleteDevice
<1>2. KeysPressed' /\ KeysOrdered'
  BY <1>1, KeysSame
<1>3. /\ keyConsoles \in Seq(Keyboards) /\ keyExList \in Seq(ExKeyboards)
      /\ keyQueueCap \in Nat /\ ListUnit \in Nat /\ ListUnit > 0
      /\ ExKeyboards \subseteq Keyboards
      /\ Len(keyExList) \in Nat
  BY DevicesAssumption, LenProperties DEF Keys!KeysAssumption, KeysInv, Keys!TypeOK
<1>4. \A s : Keys!Held(s) = Held(s)
  BY DEF Keys!Held, Held
<1>5. KeyLists
  BY DEF KeysInv
<1>6. CASE Keys!AddDevice(d)
  <2>1. /\ d \notin Held(keyConsoles) /\ d \notin Held(keyExList)
        /\ keyConsoles' = Append(keyConsoles, d)
        /\ keyExList' = IF d \in ExKeyboards THEN Append(keyExList, d) ELSE keyExList
        /\ keyQueueCap' = IF d \in ExKeyboards /\ Len(keyExList) >= keyQueueCap
                          THEN keyQueueCap + ListUnit ELSE keyQueueCap
    BY <1>4, <1>5, <1>6 DEF Keys!AddDevice, KeyLists
  <2>2. /\ keyConsoles' \in Seq(Keyboards) /\ IsInjective(keyConsoles')
        /\ Held(keyConsoles') = Held(keyConsoles) \cup {d}
    BY <1>3, <1>5, <2>1, HeldAppended, AppendProperties DEF KeyLists
  <2>3. CASE d \in ExKeyboards
    <3>1. keyExList' = Append(keyExList, d)
      BY <2>1, <2>3
    <3>2. /\ keyExList' \in Seq(ExKeyboards) /\ IsInjective(keyExList')
          /\ Held(keyExList') = Held(keyExList) \cup {d}
      BY <1>3, <1>5, <2>1, <2>3, <3>1, HeldAppended, AppendProperties DEF KeyLists
    <3>3. Len(keyExList') = Len(keyExList) + 1
      BY <1>3, <2>3, <3>1, AppendProperties
    <3>4. keyQueueCap' \in Nat /\ Len(keyExList') <= keyQueueCap'
      BY <1>3, <1>5, <2>1, <2>3, <3>3 DEF KeyLists
    <3>5. KeyLists'
      BY <1>5, <2>2, <3>2, <3>4 DEF KeyLists
    <3>6. Keys!TypeOK'
      BY <1>1, <2>2, <3>2, <3>4 DEF Keys!TypeOK, KeysInv
    <3> QED BY <1>2, <3>5, <3>6 DEF KeysInv
  <2>4. CASE d \notin ExKeyboards
    <3>1. keyExList' = keyExList /\ keyQueueCap' = keyQueueCap
      BY <2>1, <2>4
    <3>2. KeyLists'
      BY <1>5, <2>2, <3>1 DEF KeyLists
    <3>3. Keys!TypeOK'
      BY <1>1, <2>2, <3>1 DEF Keys!TypeOK, KeysInv
    <3> QED BY <1>2, <3>2, <3>3 DEF KeysInv
  <2> QED BY <2>3, <2>4
<1>7. CASE Keys!DeleteDevice(d)
  <2>1. /\ keyConsoles' = Keys!Without(keyConsoles, d)
        /\ keyExList' = Keys!Without(keyExList, d) /\ keyQueueCap' = keyQueueCap
    BY <1>7 DEF Keys!DeleteDevice
  <2>2. /\ keyConsoles' \in Seq(Keyboards) /\ IsInjective(keyConsoles')
        /\ Held(keyConsoles') = Held(keyConsoles) \ {d}
    BY <1>3, <1>5, <2>1, WithoutOf DEF KeyLists
  <2>3. /\ keyExList' \in Seq(ExKeyboards) /\ IsInjective(keyExList')
        /\ Held(keyExList') = Held(keyExList) \ {d}
        /\ Len(keyExList') <= Len(keyExList)
    BY <1>3, <1>5, <2>1, WithoutOf DEF KeyLists
  <2>4. KeyLists'
    <3>1. Len(keyExList') \in Nat
      BY <2>3, LenProperties
    <3>2. Len(keyExList') <= keyQueueCap'
      BY <1>3, <1>5, <2>1, <2>3, <3>1 DEF KeyLists
    <3> QED BY <1>5, <2>2, <2>3, <3>2 DEF KeyLists
  <2>5. Keys!TypeOK'
    BY <1>1, <2>1, <2>2, <2>3 DEF Keys!TypeOK, KeysInv
  <2> QED BY <1>2, <2>4, <2>5 DEF KeysInv
<1> QED BY <1>6, <1>7

\* Resetting devices forgets what they had, and the queue or not.
LEMMA KeysReset ==
    ASSUME KeysInv, NEW s, NEW failing, Keys!ResetDevices(s, failing)
    PROVE  KeysInv'
<1>1. /\ \A d \in Keyboards : pending'[d] \in {<<>>, pending[d]}
      /\ keyQueue' \in {<<>>, keyQueue} /\ exported' \in {FALSE, exported}
      /\ keySignal' = FALSE
      /\ UNCHANGED <<keyConsoles, keyExList, keyQueueCap, waiting, keysPressed, taken>>
  BY DEF Keys!ResetDevices, Keys!lists
<1>2. KeyLists'
  BY <1>1, ListsSame
<1>3. Keys!TypeOK'
  <2>0. /\ <<>> \in Seq(Keys!KeyPresses) /\ keyQueue \in Seq(Keys!KeyPresses)
        /\ \A d \in Keyboards : pending[d] \in Seq(Keys!KeyPresses)
    BY DEF KeysInv, Keys!TypeOK
  <2> HIDE DEF Keys!KeyPresses
  <2>1. pending' \in [Keyboards -> Seq(Keys!KeyPresses)]
    <3>1. pending' = [d \in Keyboards |-> pending'[d]]
      BY DEF Keys!ResetDevices
    <3>2. \A d \in Keyboards : pending'[d] \in Seq(Keys!KeyPresses)
      BY <1>1, <2>0
    <3> QED BY <3>1, <3>2
  <2>2. keyQueue' \in Seq(Keys!KeyPresses)
    BY <1>1, <2>0
  <2> QED BY <1>1, <2>1, <2>2 DEF KeysInv, Keys!TypeOK
<1>4. KeysPressed'
  BY <1>1 DEF KeysInv, KeysPressed
<1>5. KeysOrdered'
  <2> SUFFICES ASSUME NEW d \in Keyboards
               PROVE  InLine(keyQueue', pending'[d], taken'[d], d)
    BY DEF KeysOrdered
  <2>1. InLine(keyQueue, pending[d], taken[d], d) /\ taken'[d] = taken[d]
    BY <1>1 DEF KeysInv, KeysOrdered
  <2> QED BY <1>1, <2>1 DEF InLine
<1> QED BY <1>2, <1>3, <1>4, <1>5 DEF KeysInv

\* What is left of the devices that had no key to give.
LEMMA ReadEmptyOf ==
    ASSUME KeysInv, NEW broken, NEW n
    PROVE  /\ Keys!ReadEmpty(broken, n) \in [Keyboards -> Seq(Presses)]
           /\ \A d \in Keyboards : Keys!ReadEmpty(broken, n)[d] \in {<<>>, pending[d]}
<1>1. <<>> \in Seq(Presses) /\ \A d \in Keyboards : pending[d] \in Seq(Presses)
  BY KeyTypes DEF KeysInv, Presses
<1> QED BY <1>1 DEF Keys!ReadEmpty

\* A key that was saved is returned, or one of a device.
LEMMA KeysRead ==
    ASSUME KeysInv, Keys!ReadKeyStroke
    PROVE  KeysInv'
<1>1. /\ UNCHANGED <<keyConsoles, keyExList, keyQueueCap, exported, waiting, keysPressed>>
      /\ keySignal' = FALSE
  BY DEF Keys!ReadKeyStroke, Keys!lists
<1>2. KeyLists'
  BY <1>1, ListsSame
<1>3. /\ keyQueue \in Seq(Presses) /\ MaxKeys \in Nat /\ keysPressed \in Nat
      /\ \A d \in Keyboards :
           pending[d] \in Seq(Presses) /\ taken[d] \in 0 .. MaxKeys /\ taken[d] \in Nat
      /\ \A k \in Presses : k.dev \in Keyboards /\ k.n \in 1 .. MaxKeys /\ k.n \in Nat
      /\ pending \in [Keyboards -> Seq(Presses)] /\ taken \in [Keyboards -> 0 .. MaxKeys]
      /\ 1 .. MaxKeys \subseteq 0 .. MaxKeys
  BY KeyTypes DEF KeysInv, Presses, Keys!TypeOK
<1>4. \A d \in Keyboards : InLine(keyQueue, pending[d], taken[d], d)
  BY DEF KeysInv, KeysOrdered
<1>5. ASSUME keyQueue' \in Seq(Presses), pending' \in [Keyboards -> Seq(Presses)],
             taken' \in [Keyboards -> 0 .. MaxKeys]
      PROVE  Keys!TypeOK'
  BY <1>1, <1>5 DEF KeysInv, Keys!TypeOK, Presses
<1>6. CASE Keys!ReadSaved
  <2> DEFINE k == Keys!FirstFull(keyQueue)
  <2>1. /\ k \in DOMAIN keyQueue /\ pending' = pending
        /\ keyQueue' = Keys!After(keyQueue, k)
        /\ taken' = [taken EXCEPT ![keyQueue[k].dev] = keyQueue[k].n]
    BY <1>3, <1>6, FirstFullOf DEF Keys!ReadSaved, Keys!Deliver
  <2> HIDE DEF k
  <2>2. /\ keyQueue' \in Seq(Presses) /\ DOMAIN keyQueue' = 1 .. Len(keyQueue) - k
        /\ \A i \in 1 .. Len(keyQueue) - k :
             k + i \in DOMAIN keyQueue /\ keyQueue'[i] = keyQueue[k + i]
    BY <1>3, <2>1, AfterOf
  <2>3. /\ keyQueue[k].dev \in Keyboards /\ keyQueue[k].n \in 0 .. MaxKeys
        /\ keyQueue[k].n <= keysPressed
    <3>1. keyQueue[k] \in Presses
      BY <1>3, <2>1, LenProperties
    <3> QED BY <1>3, <2>1, <3>1 DEF KeysInv, KeysPressed
  <2>4. /\ taken' \in [Keyboards -> 0 .. MaxKeys]
        /\ \A d \in Keyboards :
             taken'[d] = IF keyQueue[k].dev = d THEN keyQueue[k].n ELSE taken[d]
    BY <1>3, <2>1, <2>3
  <2>5. Keys!TypeOK'
    BY <1>3, <1>5, <2>1, <2>2, <2>4
  <2>6. KeysPressed'
    BY <1>1, <2>1, <2>2, <2>3, <2>4 DEF KeysInv, KeysPressed
  <2>7. ASSUME NEW d \in Keyboards
        PROVE  InLine(keyQueue', pending'[d], taken'[d], d)
    <3> DEFINE q == keyQueue
               r == keyQueue'
               p == pending[d]
               t == taken[d]
    <3>0. /\ q \in Seq(Presses) /\ p \in Seq(Presses) /\ t \in Nat /\ InLine(q, p, t, d)
          /\ k \in DOMAIN q /\ r \in Seq(Presses) /\ DOMAIN r = 1 .. Len(q) - k
          /\ \A i \in 1 .. Len(q) - k : k + i \in DOMAIN q /\ r[i] = q[k + i]
      BY <1>3, <1>4, <2>1, <2>2
    <3> HIDE DEF q, r, p, t
    <3>2. InLine(r, p, IF q[k].dev = d THEN q[k].n ELSE t, d)
      BY <1>3, <3>0, TakenFromQueue
    <3>1. InLine(keyQueue', pending[d], IF keyQueue[k].dev = d THEN keyQueue[k].n ELSE taken[d], d)
      BY <3>2 DEF q, r, p, t
    <3> QED BY <2>1, <2>4, <3>1
  <2> QED BY <1>2, <2>5, <2>6, <2>7 DEF KeysInv, KeysOrdered
<1>7. CASE \E broken : Keys!ReadDevices(broken)
  <2>1. PICK broken : Keys!ReadDevices(broken)
    BY <1>7
  <2> DEFINE with == {i \in DOMAIN keyConsoles : /\ keyConsoles[i] \notin broken
                                                 /\ Keys!KeyReady(keyConsoles[i])}
             e == keyConsoles[Min(with)]
             k == Keys!FirstFull(pending[e])
  <2>2. Keys!Min(with) = Min(with)
    BY DEF Keys!Min, Min
  <2>3. keyQueue' = <<>>
    BY <2>1 DEF Keys!ReadDevices
  <2>4. \A d \in Keyboards :
          InLine(<<>>, pending[d], taken[d], d) /\ InLine(<<>>, <<>>, taken[d], d)
    BY <1>4 DEF InLine
  <2>5. CASE with = {}
    <3>1. /\ pending' = Keys!ReadEmpty(broken, Len(keyConsoles)) /\ taken' = taken
      BY <2>1, <2>2, <2>5 DEF Keys!ReadDevices
    <3>2. /\ pending' \in [Keyboards -> Seq(Presses)]
          /\ \A d \in Keyboards : pending'[d] \in {<<>>, pending[d]}
      BY <3>1, ReadEmptyOf
    <3>3. Keys!TypeOK'
      <4>1. keyQueue' \in Seq(Presses)
        BY <2>3
      <4> QED BY <1>3, <1>5, <3>1, <3>2, <4>1
    <3>4. KeysPressed'
      BY <1>1, <2>3, <3>1, <3>2 DEF KeysInv, KeysPressed
    <3>5. KeysOrdered'
      BY <2>3, <2>4, <3>1, <3>2 DEF KeysOrdered
    <3> QED BY <1>2, <3>3, <3>4, <3>5 DEF KeysInv
  <2>6. CASE with # {}
    <3>1. Min(with) \in DOMAIN keyConsoles /\ Keys!KeyReady(e) /\ e \in Keyboards
      <4>1. with \subseteq Nat /\ keyConsoles \in Seq(Keyboards)
        BY LenProperties DEF KeysInv, Keys!TypeOK
      <4>2. Min(with) \in with
        <5> HIDE DEF with
        <5> QED BY <2>6, <4>1, MinOf
      <4> QED BY <4>1, <4>2, LenProperties
    <3> DEFINE emptied == Keys!ReadEmpty(broken, Min(with) - 1)
    <3>2. /\ taken' = [taken EXCEPT ![pending[e][k].dev] = pending[e][k].n]
          /\ pending' = [emptied EXCEPT ![e] = Keys!After(pending[e], k)]
      BY <2>1, <2>2, <2>6 DEF Keys!ReadDevices, Keys!Deliver
    <3>3. k \in DOMAIN pending[e]
      BY <1>3, <3>1, FirstFullOf DEF Keys!KeyReady
    <3> DEFINE p == pending[e]
               r == Keys!After(p, k)
               x == p[k]
    <3>4. /\ emptied \in [Keyboards -> Seq(Presses)]
          /\ \A d \in Keyboards : emptied[d] \in {<<>>, pending[d]}
      BY ReadEmptyOf
    <3>5. p \in Seq(Presses) /\ p = pending[e] /\ x = p[k] /\ x \in Presses /\ x.dev = e
          /\ x.n <= keysPressed
      BY <1>3, <3>1, <3>3, LenProperties DEF KeysInv, KeysPressed
    <3> HIDE DEF with, e, k, emptied
    <3>6. /\ r \in Seq(Presses) /\ DOMAIN r = 1 .. Len(p) - k
          /\ \A i \in 1 .. Len(p) - k : k + i \in DOMAIN p /\ r[i] = p[k + i]
      BY <3>3, <3>5, AfterOf
    <3>7. taken' = [taken EXCEPT ![e] = x.n] /\ pending' = [emptied EXCEPT ![e] = r]
      BY <3>2, <3>5
    <3>8. InLine(<<>>, r, x.n, e)
      BY <1>3, <2>4, <3>1, <3>3, <3>5, <3>6, TakenFromDevice
    <3> HIDE DEF p, r, x
    <3>9. /\ taken' \in [Keyboards -> 0 .. MaxKeys] /\ pending' \in [Keyboards -> Seq(Presses)]
          /\ taken'[e] = x.n /\ pending'[e] = r
          /\ \A d \in Keyboards \ {e} : taken'[d] = taken[d] /\ pending'[d] = emptied[d]
      BY <1>3, <3>1, <3>4, <3>5, <3>6, <3>7
    <3>10. Keys!TypeOK'
      <4>1. keyQueue' \in Seq(Presses)
        BY <2>3
      <4> QED BY <1>5, <3>9, <4>1
    <3>11. ASSUME NEW d \in Keyboards
           PROVE  /\ taken'[d] <= keysPressed /\ InLine(<<>>, pending'[d], taken'[d], d)
                  /\ \A i \in DOMAIN pending'[d] :
                       pending'[d][i].dev = d /\ pending'[d][i].n <= keysPressed
      <4>1. /\ taken[d] <= keysPressed
            /\ \A i \in DOMAIN pending[d] :
                 pending[d][i].dev = d /\ pending[d][i].n <= keysPressed
        BY DEF KeysInv, KeysPressed
      <4>2. CASE d = e
        <5>1. taken'[d] = x.n /\ pending'[d] = r
          BY <3>9, <4>2
        <5>2. \A i \in DOMAIN p : p[i].dev = d /\ p[i].n <= keysPressed
          BY <3>5, <4>1, <4>2
        <5>3. \A i \in DOMAIN r : r[i].dev = d /\ r[i].n <= keysPressed
          BY <3>6, <5>2
        <5> QED BY <3>5, <3>8, <4>2, <5>1, <5>3
      <4>3. CASE d # e
        <5>1. taken'[d] = taken[d] /\ pending'[d] \in {<<>>, pending[d]}
          BY <3>4, <3>9, <4>3
        <5>2. InLine(<<>>, pending'[d], taken'[d], d)
          BY <2>4, <5>1
        <5>3. \A i \in DOMAIN pending'[d] :
                 pending'[d][i].dev = d /\ pending'[d][i].n <= keysPressed
          BY <4>1, <5>1
        <5> QED BY <4>1, <5>1, <5>2, <5>3
      <4> QED BY <4>2, <4>3
    <3>12. KeysPressed'
      BY <1>1, <2>3, <3>11 DEF KeysPressed
    <3>13. KeysOrdered'
      BY <2>3, <3>11 DEF KeysOrdered
    <3> QED BY <1>2, <3>10, <3>12, <3>13 DEF KeysInv
  <2> QED BY <2>5, <2>6
<1> QED
  BY <1>6, <1>7 DEF Keys!ReadKeyStroke

\* What InLine says of a device is about its own keys alone.
LEMMA NotInQueue ==
    ASSUME NEW q, NEW p, NEW t, NEW d, InLine(<<>>, p, t, d), \A i \in DOMAIN q : q[i].dev # d
    PROVE  InLine(q, p, t, d)
BY DEF InLine

\* The first key of a device goes to the queue, if it goes anywhere.
LEMMA FirstSaved ==
    ASSUME MaxKeys \in Nat, NEW q \in Seq(Presses), NEW p \in Seq(Presses), NEW t \in Nat,
           NEW d \in Keyboards, InLine(<<>>, p, t, d), p # <<>>,
           \A i \in DOMAIN q : q[i].dev = d => q[i] = p[1],
           \A i, j \in DOMAIN q : q[i].dev = d /\ q[j].dev = d => i = j
    PROVE  /\ InLine(q, Tail(p), t, d)
           /\ (\A i \in DOMAIN q : q[i].dev # d) => InLine(q, Tail(p), p[1].n, d)
<1> DEFINE r == Tail(p)
<1>1. /\ r \in Seq(Presses) /\ 1 \in DOMAIN p /\ DOMAIN r = 1 .. Len(p) - 1
      /\ \A i \in 1 .. Len(p) - 1 : 1 + i \in DOMAIN p /\ r[i] = p[1 + i]
  BY TailOf
<1>2. Len(p) \in Nat /\ Len(q) \in Nat /\ DOMAIN q = 1 .. Len(q)
  BY LenProperties
<1>3. \A i \in DOMAIN p : p[i].n \in Nat
  <2>1. \A x \in Presses : x.n \in Nat
    BY DEF Presses, Keys!KeyPresses
  <2> QED BY <2>1, LenProperties
<1> HIDE DEF r
<1>4. InLine(<<>>, r, p[1].n, d)
  BY <1>1, TakenFromDevice
<1>5. ASSUME NEW i \in DOMAIN r
      PROVE  /\ p[1].n < r[i].n /\ t < r[i].n
             /\ \A j \in DOMAIN r : i < j => r[i].n < r[j].n
  <2>1. p[1].n < r[i].n /\ \A j \in DOMAIN r : i < j => r[i].n < r[j].n
    BY <1>4 DEF InLine
  <2>2. t < p[1].n
    BY <1>1 DEF InLine
  <2>3. r[i].n \in Nat /\ p[1].n \in Nat
    BY <1>1, <1>3
  <2> QED BY <2>1, <2>2, <2>3
<1>6. ASSUME NEW i \in DOMAIN q, q[i].dev = d
      PROVE  /\ t < q[i].n
             /\ \A j \in DOMAIN q : i < j /\ q[j].dev = d => q[i].n < q[j].n
             /\ \A j \in DOMAIN r : q[i].n < r[j].n
  <2>1. q[i] = p[1]
    BY <1>6
  <2>2. t < q[i].n
    BY <1>1, <2>1 DEF InLine
  <2>3. \A j \in DOMAIN q : q[j].dev = d => i = j
    BY <1>6
  <2> QED BY <1>2, <1>5, <2>1, <2>2, <2>3
<1>7. InLine(q, r, t, d)
  BY <1>5, <1>6 DEF InLine
<1>8. ASSUME \A i \in DOMAIN q : q[i].dev # d
      PROVE  InLine(q, r, p[1].n, d)
  BY <1>4, <1>8, NotInQueue
<1> QED BY <1>7, <1>8 DEF r

\* The first saved key is returned, and every device that had one was read.
LEMMA KeysReadEx ==
    ASSUME KeysInv, Keys!ReadKeyStrokeEx
    PROVE  KeysInv'
<1>1. /\ UNCHANGED <<keyConsoles, keyExList, keyQueueCap, exported, waiting, keysPressed>>
      /\ keySignal' = FALSE
  BY DEF Keys!ReadKeyStrokeEx, Keys!lists
<1>2. KeyLists'
  BY <1>1, ListsSame
<1>3. /\ keyQueue \in Seq(Presses) /\ MaxKeys \in Nat /\ keysPressed \in Nat
      /\ \A d \in Keyboards :
           pending[d] \in Seq(Presses) /\ taken[d] \in 0 .. MaxKeys /\ taken[d] \in Nat
      /\ \A k \in Presses : k.dev \in Keyboards /\ k.n \in 1 .. MaxKeys /\ k.n \in Nat
      /\ pending \in [Keyboards -> Seq(Presses)] /\ taken \in [Keyboards -> 0 .. MaxKeys]
      /\ 1 .. MaxKeys \subseteq 0 .. MaxKeys
  BY KeyTypes DEF KeysInv, Presses, Keys!TypeOK
<1>4. /\ \A d \in Keyboards : InLine(keyQueue, pending[d], taken[d], d)
      /\ \A d \in Keyboards :
           /\ taken[d] <= keysPressed
           /\ \A i \in DOMAIN pending[d] :
                pending[d][i].dev = d /\ pending[d][i].n <= keysPressed
      /\ \A i \in DOMAIN keyQueue : keyQueue[i].n <= keysPressed
  BY DEF KeysInv, KeysOrdered, KeysPressed
<1>5. ASSUME keyQueue' \in Seq(Presses), pending' \in [Keyboards -> Seq(Presses)],
             taken' \in [Keyboards -> 0 .. MaxKeys]
      PROVE  Keys!TypeOK'
  BY <1>1, <1>5 DEF KeysInv, Keys!TypeOK, Presses
<1>6. CASE keyQueue # <<>>
  <2> DEFINE x == keyQueue[1]
  <2>1. /\ pending' = pending /\ keyQueue' = Tail(keyQueue)
        /\ taken' = [taken EXCEPT ![Head(keyQueue).dev] = Head(keyQueue).n]
    BY <1>6 DEF Keys!ReadKeyStrokeEx, Keys!Deliver
  <2>2. /\ keyQueue' \in Seq(Presses) /\ DOMAIN keyQueue' = 1 .. Len(keyQueue) - 1
        /\ \A i \in 1 .. Len(keyQueue) - 1 :
             1 + i \in DOMAIN keyQueue /\ keyQueue'[i] = keyQueue[1 + i]
        /\ 1 \in DOMAIN keyQueue /\ Head(keyQueue) = x
    BY <1>3, <1>6, <2>1, TailOf
  <2>3. x \in Presses
    BY <1>3, <2>2, LenProperties
  <2>4. x.dev \in Keyboards /\ x.n \in 0 .. MaxKeys /\ x.n <= keysPressed
    BY <1>3, <1>4, <2>2, <2>3
  <2>5. taken' = [taken EXCEPT ![x.dev] = x.n]
    BY <2>1, <2>2
  <2> HIDE DEF x
  <2>6. /\ taken' \in [Keyboards -> 0 .. MaxKeys]
        /\ \A d \in Keyboards : taken'[d] = IF x.dev = d THEN x.n ELSE taken[d]
    BY <1>3, <2>4, <2>5
  <2>7. Keys!TypeOK'
    BY <1>3, <1>5, <2>1, <2>2, <2>6
  <2>8. KeysPressed'
    BY <1>1, <1>4, <2>1, <2>2, <2>4, <2>6 DEF KeysPressed
  <2>9. ASSUME NEW d \in Keyboards
        PROVE  InLine(keyQueue', pending'[d], taken'[d], d)
    <3> DEFINE q == keyQueue
               r == keyQueue'
               p == pending[d]
               t == taken[d]
    <3>0. /\ q \in Seq(Presses) /\ p \in Seq(Presses) /\ t \in Nat /\ InLine(q, p, t, d)
          /\ 1 \in DOMAIN q /\ r \in Seq(Presses) /\ DOMAIN r = 1 .. Len(q) - 1
          /\ \A i \in 1 .. Len(q) - 1 : 1 + i \in DOMAIN q /\ r[i] = q[1 + i]
      BY <1>3, <1>4, <2>2
    <3> HIDE DEF q, r, p, t
    <3>1. InLine(r, p, IF q[1].dev = d THEN q[1].n ELSE t, d)
      BY <1>3, <3>0, TakenFromQueue
    <3>2. InLine(keyQueue', pending[d], IF x.dev = d THEN x.n ELSE taken[d], d)
      BY <3>1 DEF q, r, p, t, x
    <3> QED BY <2>1, <2>6, <3>2
  <2> QED BY <1>2, <2>7, <2>8, <2>9 DEF KeysInv, KeysOrdered
<1>7. CASE keyQueue = <<>>
  <2>1. PICK broken :
          /\ pending' = [d \in Keyboards |->
                IF d \in Keys!ReadyDevices(broken) THEN Tail(pending[d]) ELSE pending[d]]
          /\ \/ /\ Keys!SaveKeys(broken) = <<>>
                /\ UNCHANGED <<keyQueue, taken>>
             \/ /\ Keys!SaveKeys(broken) # <<>>
                /\ taken' = [taken EXCEPT ![Head(Keys!SaveKeys(broken)).dev]
                                            = Head(Keys!SaveKeys(broken)).n]
                /\ keyQueue' = Tail(Keys!SaveKeys(broken))
    BY <1>7 DEF Keys!ReadKeyStrokeEx, Keys!Deliver
  <2> DEFINE ready == Keys!ReadyDevices(broken)
             s == Keys!SaveKeys(broken)
  <2>2. /\ s \in Seq(Presses)
        /\ \A i \in DOMAIN s : /\ s[i].dev \in ready /\ s[i].dev \in Keyboards
                               /\ pending[s[i].dev] # <<>> /\ s[i] = Head(pending[s[i].dev])
        /\ \A i, j \in DOMAIN s : s[i].dev = s[j].dev => i = j
    BY SavedOf DEF KeysInv
  <2>3. \A d \in ready : pending[d] # <<>>
    BY DEF Keys!ReadyDevices
  <2> HIDE DEF ready, s
  <2>4. ASSUME NEW d \in ready \cap Keyboards
        PROVE  /\ Tail(pending[d]) \in Seq(Presses)
               /\ 1 \in DOMAIN pending[d] /\ Head(pending[d]) = pending[d][1]
               /\ \A i \in DOMAIN Tail(pending[d]) :
                    1 + i \in DOMAIN pending[d] /\ Tail(pending[d])[i] = pending[d][1 + i]
    BY <1>3, <2>3, TailOf
  <2>5. ASSUME NEW d \in Keyboards
        PROVE  /\ pending'[d] = IF d \in ready THEN Tail(pending[d]) ELSE pending[d]
               /\ pending'[d] \in Seq(Presses)
               /\ \A i \in DOMAIN pending'[d] :
                    pending'[d][i].dev = d /\ pending'[d][i].n <= keysPressed
    <3>1. pending'[d] = IF d \in ready THEN Tail(pending[d]) ELSE pending[d]
      BY <2>1 DEF ready
    <3>2. CASE d \in ready
      BY <1>4, <2>4, <3>1, <3>2
    <3>3. CASE d \notin ready
      BY <1>3, <1>4, <3>1, <3>3
    <3> QED BY <3>1, <3>2, <3>3
  <2>6. pending' \in [Keyboards -> Seq(Presses)]
    <3>1. pending' = [d \in Keyboards |-> pending'[d]]
      BY <2>1
    <3> QED BY <2>5, <3>1
  <2>7. ASSUME NEW d \in Keyboards, NEW q \in Seq(Presses),
               \A i \in DOMAIN q : q[i].dev = d => d \in ready /\ q[i] = Head(pending[d]),
               \A i, j \in DOMAIN q : q[i].dev = q[j].dev => i = j
        PROVE  /\ InLine(q, pending'[d], taken[d], d)
               /\ d \in ready /\ (\A i \in DOMAIN q : q[i].dev # d)
                     => InLine(q, pending'[d], pending[d][1].n, d)
    <3>0. InLine(<<>>, pending[d], taken[d], d)
      BY <1>4, <1>7
    <3>1. CASE d \in ready
      <4> DEFINE p == pending[d]
                 t == taken[d]
      <4>1. /\ p \in Seq(Presses) /\ p # <<>> /\ t \in Nat /\ InLine(<<>>, p, t, d)
            /\ \A i \in DOMAIN q : q[i].dev = d => q[i] = p[1]
            /\ \A i, j \in DOMAIN q : q[i].dev = d /\ q[j].dev = d => i = j
        BY <1>3, <2>3, <2>4, <2>7, <3>0, <3>1
      <4> HIDE DEF p, t
      <4>2. /\ InLine(q, Tail(p), t, d)
            /\ (\A i \in DOMAIN q : q[i].dev # d) => InLine(q, Tail(p), p[1].n, d)
        BY <1>3, <4>1, FirstSaved
      <4> QED BY <2>5, <3>1, <4>2 DEF p, t
    <3>2. CASE d \notin ready
      <4>1. InLine(q, pending[d], taken[d], d)
        BY <2>7, <3>0, <3>2, NotInQueue
      <4> QED BY <2>5, <3>2, <4>1
    <3> QED BY <3>1, <3>2
  <2>8. CASE s = <<>>
    <3>1. keyQueue' = <<>> /\ taken' = taken
      BY <1>7, <2>1, <2>8 DEF s
    <3>2. \A d \in Keyboards : InLine(<<>>, pending'[d], taken[d], d)
      <4>1. <<>> \in Seq(Presses) /\ DOMAIN <<>> = {}
        OBVIOUS
      <4> QED BY <2>7, <4>1
    <3>3. KeysOrdered'
      BY <3>1, <3>2 DEF KeysOrdered
    <3>4. KeysPressed'
      BY <1>1, <1>4, <2>5, <3>1 DEF KeysPressed
    <3>5. Keys!TypeOK'
      BY <1>3, <1>5, <1>7, <2>6, <3>1
    <3> QED BY <1>2, <3>3, <3>4, <3>5 DEF KeysInv
  <2>9. CASE s # <<>>
    <3> DEFINE x == s[1]
               q == Tail(s)
    <3>1. keyQueue' = q /\ taken' = [taken EXCEPT ![Head(s).dev] = Head(s).n]
      BY <2>1, <2>9 DEF s
    <3>2. /\ q \in Seq(Presses) /\ 1 \in DOMAIN s /\ Head(s) = x
          /\ DOMAIN q = 1 .. Len(s) - 1
          /\ \A i \in 1 .. Len(s) - 1 : 1 + i \in DOMAIN s /\ q[i] = s[1 + i]
      BY <2>2, <2>9, TailOf
    <3>3. x \in Presses /\ x.dev \in Keyboards /\ x.dev \in ready /\ x = pending[x.dev][1]
          /\ 1 \in DOMAIN pending[x.dev]
      BY <2>2, <2>4, <3>2, LenProperties
    <3>4. taken' = [taken EXCEPT ![x.dev] = x.n]
      BY <3>1, <3>2
    <3> HIDE DEF x, q
    <3>5. x.n \in 0 .. MaxKeys /\ x.n <= keysPressed
      BY <1>3, <1>4, <3>3
    <3>6. /\ taken' \in [Keyboards -> 0 .. MaxKeys]
          /\ \A d \in Keyboards : taken'[d] = IF x.dev = d THEN x.n ELSE taken[d]
      BY <1>3, <3>3, <3>4, <3>5
    <3>7. \A i, j \in DOMAIN q : q[i].dev = q[j].dev => i = j
      <4> SUFFICES ASSUME NEW i \in DOMAIN q, NEW j \in DOMAIN q, q[i].dev = q[j].dev
                   PROVE  i = j
        OBVIOUS
      <4>1. 1 + i \in DOMAIN s /\ 1 + j \in DOMAIN s /\ q[i] = s[1 + i] /\ q[j] = s[1 + j]
        BY <3>2
      <4>2. 1 + i = 1 + j
        BY <2>2, <4>1
      <4> QED BY <3>2, <4>2
    <3>8. ASSUME NEW i \in DOMAIN q
          PROVE  /\ q[i].dev # x.dev /\ q[i].dev \in Keyboards /\ q[i].dev \in ready
                 /\ q[i] = Head(pending[q[i].dev])
      <4>1. 1 + i \in DOMAIN s /\ q[i] = s[1 + i] /\ 1 + i # 1
        BY <3>2
      <4>2. q[i].dev # x.dev
        BY <2>2, <3>2, <4>1 DEF x
      <4> QED BY <2>2, <4>1, <4>2
    <3>9. \A i \in DOMAIN q : q[i].n <= keysPressed
      <4> SUFFICES ASSUME NEW i \in DOMAIN q
                   PROVE  q[i].n <= keysPressed
        OBVIOUS
      <4> DEFINE d == q[i].dev
      <4>1. d \in Keyboards /\ d \in ready /\ q[i] = Head(pending[d])
        BY <3>8
      <4> HIDE DEF d
      <4>2. 1 \in DOMAIN pending[d] /\ q[i] = pending[d][1]
        BY <2>4, <4>1
      <4> QED BY <1>4, <4>1, <4>2
    <3>10. ASSUME NEW d \in Keyboards
           PROVE  InLine(q, pending'[d], taken'[d], d)
      <4>1. /\ InLine(q, pending'[d], taken[d], d)
            /\ d \in ready /\ (\A i \in DOMAIN q : q[i].dev # d)
                     => InLine(q, pending'[d], pending[d][1].n, d)
        BY <2>7, <3>2, <3>7, <3>8
      <4>2. CASE d = x.dev
        <5>1. (\A i \in DOMAIN q : q[i].dev # d) /\ d \in ready
          BY <3>3, <3>8, <4>2
        <5>2. taken'[d] = pending[d][1].n
          BY <3>3, <3>6, <4>2
        <5> QED BY <4>1, <5>1, <5>2
      <4>3. CASE d # x.dev
        BY <3>6, <4>1, <4>3
      <4> QED BY <4>2, <4>3
    <3>11. KeysOrdered'
      BY <3>1, <3>10 DEF KeysOrdered
    <3>12. KeysPressed'
      BY <1>1, <1>4, <2>5, <3>1, <3>5, <3>6, <3>9 DEF KeysPressed
    <3>13. Keys!TypeOK'
      BY <1>5, <2>6, <3>1, <3>2, <3>6
    <3> QED BY <1>2, <3>11, <3>12, <3>13 DEF KeysInv
  <2> QED BY <2>8, <2>9
<1> QED BY <1>6, <1>7

\* A key that is pressed gets the next number.
LEMMA KeysPress ==
    ASSUME KeysInv, NEW e \in Keyboards, NEW partial \in BOOLEAN, Keys!Press(e, partial)
    PROVE  KeysInv'
<1> DEFINE x == [dev |-> e, n |-> keysPressed + 1, partial |-> partial]
<1>1. /\ UNCHANGED <<keyConsoles, keyExList, keyQueueCap, keyQueue, exported, keySignal,
                     waiting, taken>>
      /\ keysPressed < MaxKeys /\ keysPressed' = keysPressed + 1
      /\ pending' = [pending EXCEPT ![e] = Append(@, x)]
  BY DEF Keys!Press, Keys!lists
<1>2. KeyLists'
  BY <1>1, ListsSame
<1>3. /\ keyQueue \in Seq(Presses) /\ MaxKeys \in Nat /\ keysPressed \in Nat
      /\ \A d \in Keyboards :
           pending[d] \in Seq(Presses) /\ taken[d] \in 0 .. MaxKeys /\ taken[d] \in Nat
      /\ \A k \in Presses : k.n \in Nat
      /\ pending \in [Keyboards -> Seq(Presses)]
  BY KeyTypes DEF KeysInv, Presses, Keys!TypeOK
<1>4. x \in Presses /\ x.dev = e /\ x.n = keysPressed + 1
  BY <1>1, <1>3 DEF Presses, Keys!KeyPresses
<1> HIDE DEF x
<1>5. /\ \A d \in Keyboards : InLine(keyQueue, pending[d], taken[d], d)
      /\ \A d \in Keyboards :
           /\ taken[d] <= keysPressed
           /\ \A i \in DOMAIN pending[d] :
                pending[d][i].dev = d /\ pending[d][i].n <= keysPressed
      /\ \A i \in DOMAIN keyQueue : keyQueue[i].n <= keysPressed
  BY DEF KeysInv, KeysOrdered, KeysPressed
<1> DEFINE p == pending[e]
           r == Append(p, x)
<1>6. /\ p \in Seq(Presses) /\ Len(p) \in Nat /\ DOMAIN p = 1 .. Len(p)
      /\ r \in Seq(Presses) /\ DOMAIN r = 1 .. Len(p) + 1
      /\ \A i \in 1 .. Len(p) : r[i] = p[i]
      /\ r[Len(p) + 1] = x
  BY <1>3, <1>4, AppendProperties, LenProperties
<1>7. /\ pending'[e] = r /\ \A d \in Keyboards \ {e} : pending'[d] = pending[d]
      /\ pending' \in [Keyboards -> Seq(Presses)]
  BY <1>1, <1>3, <1>6
<1>8. Keys!TypeOK'
  <2>1. keysPressed' \in 0 .. MaxKeys
    BY <1>1, <1>3
  <2> QED BY <1>1, <1>7, <2>1 DEF KeysInv, Keys!TypeOK, Presses
<1>9. /\ \A i \in DOMAIN keyQueue : keyQueue[i].n < x.n
      /\ \A i \in DOMAIN p : p[i].n < x.n
      /\ taken[e] < x.n
  <2>1. ASSUME NEW i \in DOMAIN keyQueue
        PROVE  keyQueue[i].n < x.n
    <3>1. keyQueue[i].n \in Nat /\ keyQueue[i].n <= keysPressed
      BY <1>3, <1>5, LenProperties
    <3> QED BY <1>3, <1>4, <3>1
  <2>2. ASSUME NEW i \in DOMAIN p
        PROVE  p[i].n < x.n
    <3>1. p[i].n \in Nat /\ p[i].n <= keysPressed
      BY <1>3, <1>5, <1>6
    <3> QED BY <1>3, <1>4, <3>1
  <2>3. taken[e] < x.n
    BY <1>3, <1>4, <1>5
  <2> QED BY <2>1, <2>2, <2>3
<1>10. InLine(keyQueue, r, taken[e], e)
  <2> DEFINE q == keyQueue
             t == taken[e]
  <2>1. /\ q \in Seq(Presses) /\ t \in Nat /\ InLine(q, p, t, e) /\ t < x.n
        /\ \A i \in DOMAIN q : q[i].n < x.n
    BY <1>3, <1>5, <1>9
  <2> HIDE DEF q, p, t
  <2>2. InLine(q, Append(p, x), t, e)
    BY <1>3, <1>4, <1>6, <1>9, <2>1, PressedLast
  <2> QED BY <2>2 DEF q, t
<1> HIDE DEF r
<1>11. KeysOrdered'
  BY <1>1, <1>5, <1>7, <1>10 DEF KeysOrdered
<1>12. KeysPressed'
  <2>1. ASSUME NEW d \in Keyboards
        PROVE  /\ taken'[d] <= keysPressed'
               /\ \A i \in DOMAIN pending'[d] :
                    pending'[d][i].dev = d /\ pending'[d][i].n <= keysPressed'
    <3>1. taken'[d] <= keysPressed'
      BY <1>1, <1>3, <1>5
    <3>2. ASSUME NEW i \in DOMAIN pending[d]
          PROVE  pending[d][i].dev = d /\ pending[d][i].n <= keysPressed'
      <4>1. pending[d][i].n \in Nat /\ pending[d][i].n <= keysPressed /\ pending[d][i].dev = d
        BY <1>3, <1>5, LenProperties
      <4> QED BY <1>1, <1>3, <4>1
    <3>3. CASE d # e
      BY <1>7, <3>1, <3>2, <3>3
    <3>4. CASE d = e
      <4>1. ASSUME NEW i \in DOMAIN r
            PROVE  r[i].dev = e /\ r[i].n <= keysPressed'
        <5>1. CASE i = Len(p) + 1
          BY <1>1, <1>3, <1>4, <1>6, <5>1
        <5>2. CASE i # Len(p) + 1
          <6>1. i \in DOMAIN p /\ r[i] = p[i]
            BY <1>6, <5>2
          <6> QED BY <3>2, <3>4, <6>1
        <5> QED BY <5>1, <5>2
      <4> QED BY <1>7, <3>1, <3>4, <4>1
    <3> QED BY <3>3, <3>4
  <2>2. ASSUME NEW i \in DOMAIN keyQueue
        PROVE  keyQueue[i].n <= keysPressed'
    <3>1. keyQueue[i].n \in Nat /\ keyQueue[i].n <= keysPressed
      BY <1>3, <1>5, LenProperties
    <3> QED BY <1>1, <1>3, <3>1
  <2> QED BY <1>1, <2>1, <2>2 DEF KeysPressed
<1> QED BY <1>2, <1>8, <1>11, <1>12 DEF KeysInv

\* The rest changes neither keys nor lists.
LEMMA KeysElse ==
    ASSUME KeysInv, Keys!SetState \/ Keys!WaitForEvent \/ Keys!WaitForKey \/ UNCHANGED Keys!vars
    PROVE  KeysInv'
<1>1. /\ UNCHANGED <<keyConsoles, keyExList, keyQueueCap, keyQueue, pending, keysPressed, taken>>
      /\ exported' \in {exported} \cup BOOLEAN /\ keySignal' \in {keySignal} \cup BOOLEAN
      /\ waiting' \in {waiting} \cup BOOLEAN
  BY DEF Keys!SetState, Keys!WaitForEvent, Keys!WaitForKey, Keys!vars, Keys!lists
<1>2. KeyLists'
  BY <1>1, ListsSame
<1>3. KeysPressed' /\ KeysOrdered'
  BY <1>1, KeysSame
<1>4. Keys!TypeOK'
  <2>1. exported' \in BOOLEAN /\ keySignal' \in BOOLEAN /\ waiting' \in BOOLEAN
    BY <1>1 DEF KeysInv, Keys!TypeOK
  <2> QED BY <1>1, <2>1 DEF KeysInv, Keys!TypeOK
<1> QED BY <1>2, <1>3, <1>4 DEF KeysInv

\* Every step of reading keys keeps the invariant.
LEMMA KeysStep == KeysInv /\ [Keys!Next]_(Keys!vars) => KeysInv'
<1> SUFFICES ASSUME KeysInv, [Keys!Next]_(Keys!vars)
             PROVE  KeysInv'
  OBVIOUS
<1>1. CASE \E d \in Keyboards : Keys!AddDevice(d) \/ Keys!DeleteDevice(d)
  BY <1>1, KeysBinding
<1>2. CASE Keys!Reset \/ Keys!ResetEx
  BY <1>2, KeysReset DEF Keys!Reset, Keys!ResetEx
<1>3. CASE Keys!ReadKeyStroke
  BY <1>3, KeysRead
<1>4. CASE Keys!ReadKeyStrokeEx
  BY <1>4, KeysReadEx
<1>5. CASE \E d \in Keyboards, partial \in BOOLEAN : Keys!Press(d, partial)
  BY <1>5, KeysPress
<1>6. CASE Keys!SetState \/ Keys!WaitForEvent \/ Keys!WaitForKey \/ UNCHANGED Keys!vars
  BY <1>6, KeysElse
<1> QED BY <1>1, <1>2, <1>3, <1>4, <1>5, <1>6 DEF Keys!Next

\* The keys of a keyboard are delivered in the order they were pressed and none
\* twice, and KeyQueue has room for what ReadKeyStrokeEx saves in it, whatever
\* keyboards come, go and fail.
THEOREM KeysArrive == Keys!Spec => []KeysKept
<1>1. KeysInv => KeysKept
  <2> SUFFICES ASSUME KeysInv PROVE KeysKept
    OBVIOUS
  <2>1. Keys!TypeOK /\ Keys!KeysInOrder
    BY KeysOrderedIs DEF KeysInv
  <2>2. Keys!QueueSuffices
    <3>1. Len(Keys!SaveKeys({})) <= Len(keyExList) /\ Keys!SaveKeys({}) \in Seq(Presses)
      BY SavedOf DEF KeysInv
    <3>2. /\ Len(Keys!SaveKeys({})) \in Nat /\ Len(keyExList) \in Nat /\ keyQueueCap \in Nat
          /\ Len(keyExList) <= keyQueueCap
      BY <3>1, LenProperties DEF KeysInv, KeyLists, Keys!TypeOK
    <3> QED BY <3>1, <3>2 DEF Keys!QueueSuffices
  <2> QED BY <2>1, <2>2 DEF KeysKept
<1>2. Keys!Init => KeysInv
  BY KeysInit
<1>3. KeysInv /\ [Keys!Next]_(Keys!vars) => KeysInv'
  BY KeysStep
<1> QED
  BY <1>1, <1>2, <1>3, PTL DEF Keys!Spec

(***************************************************************************)
(* ConSplitterPointer: adding up movements.                                *)
(***************************************************************************)

\* What the mouse at i has to add.
Term(s, dev, S, i) == IF s[i] \in S THEN Pointer!ScaledMove(s[i], dev[s[i]].x) ELSE 0

\* Pointer!Moved, of any list and any devices.
Total(s, dev, S) ==
    LET sum[i \in 0 .. Len(s)] ==
            IF i = 0 THEN 0
            ELSE sum[i - 1] + (IF s[i] \in S THEN Pointer!ScaledMove(s[i], dev[s[i]].x) ELSE 0)
    IN  sum[Len(s)]

\* A list of mice, and what each of them is about to answer.
Listing(s, dev) ==
    /\ s \in Seq(Pointer!Pointing) /\ dev \in [Pointer!Pointing -> Pointer!States]
    /\ \A i \in DOMAIN s : s[i] \in Mice

\* The sums along the list.
Sums(f, s, dev, S) ==
    /\ f \in [0 .. Len(s) -> Int] /\ f[0] = 0
    /\ \A i \in 1 .. Len(s) : f[i] = f[i - 1] + Term(s, dev, S, i)

\* A quotient is an integer.
LEMMA QuotientInt ==
    ASSUME NEW n \in Int, NEW m \in Nat, m # 0
    PROVE  Pointer!Quotient(n, m) \in Int
BY DEF Pointer!Quotient

\* Nothing that is scaled is other than an integer, and no movement is none.
LEMMA ScaledInt ==
    ASSUME NEW d \in Mice, NEW x \in Int
    PROVE  Pointer!ScaledMove(d, x) \in Int /\ Pointer!ScaledMove(d, 0) = 0
<1>1. Resolution[d] \in Nat /\ VirtualMax \in Nat /\ IntMax \in Nat
  BY DevicesAssumption DEF Pointer!PointerAssumption
<1>2. \A y \in Int : Pointer!Int32(y) \in Int
  BY <1>1 DEF Pointer!Int32
<1>3. x * VirtualMax \in Int
  BY <1>1
<1>4. Pointer!Int32(x * VirtualMax) \in Int
  BY <1>2, <1>3
<1>5. Resolution[d] # 0 => Pointer!Quotient(Pointer!Int32(x * VirtualMax), Resolution[d]) \in Int
  BY <1>1, <1>4, QuotientInt
<1> QED BY <1>5 DEF Pointer!ScaledMove

\* What the mouse at i has to add is an integer.
LEMMA TermInt ==
    ASSUME NEW s, NEW dev, Listing(s, dev), NEW S, NEW i \in DOMAIN s
    PROVE  Term(s, dev, S, i) \in Int
<1>1. s[i] \in Mice /\ s[i] \in Pointer!Pointing
  BY DEF Listing, Pointer!Pointing
<1>2. dev[s[i]] \in Pointer!States
  BY <1>1 DEF Listing
<1>3. dev[s[i]].x \in Int
  BY <1>2 DEF Pointer!States
<1>4. Pointer!ScaledMove(s[i], dev[s[i]].x) \in Int
  BY <1>1, <1>3, ScaledInt
<1> QED BY <1>4 DEF Term

\* The total is the last of the sums.
LEMMA TotalOf ==
    ASSUME NEW s, NEW dev, Listing(s, dev), NEW S
    PROVE  \E f : Sums(f, s, dev, S) /\ Total(s, dev, S) = f[Len(s)]
<1> DEFINE n == Len(s)
           Body(f, i) == IF i = 0 THEN 0 ELSE f[i - 1] + Term(s, dev, S, i)
           Solves(f) == f = [i \in 0 .. n |-> Body(f, i)]
           sum == CHOOSE f : Solves(f)
<1>1. Total(s, dev, S) = sum[n]
  BY Zenon DEF Total, Term
<1>2. n \in Nat /\ DOMAIN s = 1 .. n
  BY LenProperties DEF Listing
<1> HIDE DEF n
<1>3. \A i \in 1 .. n : Term(s, dev, S, i) \in Int
  BY <1>2, TermInt
<1> DEFINE G == [i \in 1 .. n |-> [x \in Int |-> x + Term(s, dev, S, i)]]
<1>4. G \in Steps(n, Int)
  BY <1>3 DEF Steps
<1>5. \A i \in 1 .. n : \A x \in Int : G[i][x] = x + Term(s, dev, S, i)
  OBVIOUS
<1> HIDE DEF G
<1>6. PICK f : Makes(f, n, Int, 0, G)
  <2> DEFINE T == Int
             z == 0
  <2>1. G \in Steps(n, T) /\ z \in T
    BY <1>4
  <2> HIDE DEF T, z
  <2>2. \E f : Makes(f, n, T, z, G)
    BY <1>2, <2>1, Unrolled
  <2> QED BY <2>2 DEF T, z
<1>7. /\ f \in [0 .. n -> Int] /\ f[0] = 0
      /\ \A i \in 1 .. n : i - 1 \in 0 .. n /\ f[i - 1] \in Int /\ f[i] = G[i][f[i - 1]]
  BY <1>2, <1>6 DEF Makes
<1>8. \A i \in 1 .. n : f[i] = f[i - 1] + Term(s, dev, S, i)
  BY <1>5, <1>7
<1>9. Solves(f)
  <2>1. \A i \in 0 .. n : f[i] = Body(f, i)
    BY <1>2, <1>7, <1>8
  <2> HIDE DEF Body
  <2> QED BY <1>7, <2>1
<1>10. Solves(sum)
  <2> HIDE DEF Solves
  <2> QED BY <1>9
<1>11. sum[0] = 0 /\ \A i \in 1 .. n : sum[i] = sum[i - 1] + Term(s, dev, S, i)
  <2>1. \A i \in 0 .. n : sum[i] = Body(sum, i)
    <3> HIDE DEF Body, sum
    <3> QED BY <1>10
  <2>2. 0 \in 0 .. n /\ \A i \in 1 .. n : i \in 0 .. n /\ i # 0
    BY <1>2
  <2> HIDE DEF sum
  <2> QED BY <2>1, <2>2
<1> DEFINE Same == {i \in 0 .. n : sum[i] = f[i]}
<1>12. sum = f
  <2>1. DOMAIN sum = 0 .. n /\ sum = [i \in 0 .. n |-> sum[i]]
    <3> HIDE DEF Body, sum
    <3> QED BY <1>10
  <2> HIDE DEF sum, Solves
  <2>2. 0 \in Same
    BY <1>2, <1>7, <1>11
  <2>3. ASSUME NEW k \in 0 .. n - 1, k \in Same
        PROVE  k + 1 \in Same
    <3>1. k + 1 \in 1 .. n /\ (k + 1) - 1 = k /\ sum[k] = f[k] /\ k + 1 \in 0 .. n
      BY <1>2, <2>3
    <3>2. sum[k + 1] = f[k + 1]
      BY <1>8, <1>11, <3>1
    <3> QED BY <3>1, <3>2
  <2> HIDE DEF Same
  <2>4. \A k \in 0 .. n : k \in Same
    BY <1>2, <2>2, <2>3, Upwards
  <2>5. \A k \in 0 .. n : sum[k] = f[k]
    BY <2>4 DEF Same
  <2> QED BY <1>7, <2>1, <2>5
<1>13. Sums(f, s, dev, S)
  BY <1>7, <1>8 DEF Sums, n
<1> HIDE DEF sum
<1> QED BY <1>1, <1>12, <1>13 DEF n

\* A total is an integer.
LEMMA TotalInt ==
    ASSUME NEW s, NEW dev, Listing(s, dev), NEW S
    PROVE  Total(s, dev, S) \in Int
<1>1. PICK f : Sums(f, s, dev, S) /\ Total(s, dev, S) = f[Len(s)]
  BY TotalOf
<1>2. Len(s) \in Nat
  BY LenProperties DEF Listing
<1>3. f[Len(s)] \in Int
  BY <1>1, <1>2 DEF Sums
<1> QED BY <1>1, <1>3

\* Totals differ by what their terms differ by.
LEMMA TotalLess ==
    ASSUME NEW s, NEW a, NEW b, Listing(s, a), Listing(s, b), NEW A, NEW B, NEW C,
           \A i \in DOMAIN s : Term(s, a, A, i) = Term(s, b, B, i) - Term(s, b, C, i)
    PROVE  Total(s, a, A) = Total(s, b, B) - Total(s, b, C)
<1>1. PICK f : Sums(f, s, a, A) /\ Total(s, a, A) = f[Len(s)]
  BY TotalOf
<1>2. PICK g : Sums(g, s, b, B) /\ Total(s, b, B) = g[Len(s)]
  BY TotalOf
<1>3. PICK h : Sums(h, s, b, C) /\ Total(s, b, C) = h[Len(s)]
  BY TotalOf
<1> DEFINE n == Len(s)
           S == {k \in 0 .. n : f[k] = g[k] - h[k]}
<1>4. n \in Nat /\ DOMAIN s = 1 .. n
  BY LenProperties DEF Listing
<1>5. 0 \in S
  BY <1>1, <1>2, <1>3, <1>4 DEF Sums
<1>6. ASSUME NEW k \in 0 .. n - 1, k \in S
      PROVE  k + 1 \in S
  <2>1. k + 1 \in 1 .. n /\ (k + 1) - 1 = k /\ k \in 0 .. n /\ k + 1 \in 0 .. n
    BY <1>4
  <2>2. /\ f[k + 1] = f[k] + Term(s, a, A, k + 1)
        /\ g[k + 1] = g[k] + Term(s, b, B, k + 1)
        /\ h[k + 1] = h[k] + Term(s, b, C, k + 1)
    BY <1>1, <1>2, <1>3, <2>1 DEF Sums
  <2>3. f[k] \in Int /\ g[k] \in Int /\ h[k] \in Int
    BY <1>1, <1>2, <1>3, <2>1 DEF Sums
  <2>4. /\ Term(s, a, A, k + 1) = Term(s, b, B, k + 1) - Term(s, b, C, k + 1)
        /\ Term(s, b, B, k + 1) \in Int /\ Term(s, b, C, k + 1) \in Int
    BY <1>4, <2>1, TermInt
  <2>5. f[k + 1] = g[k + 1] - h[k + 1]
    BY <1>6, <2>2, <2>3, <2>4
  <2> QED BY <2>1, <2>5
<1> HIDE DEF S
<1>7. \A k \in 0 .. n : k \in S
  BY <1>4, <1>5, <1>6, Upwards
<1>8. n \in S
  BY <1>4, <1>7
<1> QED BY <1>1, <1>2, <1>3, <1>8 DEF S

\* Where no mouse of the list is asked there is nothing to add.
LEMMA TotalNone ==
    ASSUME NEW s, NEW dev, Listing(s, dev), NEW S, \A i \in DOMAIN s : s[i] \notin S
    PROVE  Total(s, dev, S) = 0
<1>1. Listing(s, dev) /\ \A i \in DOMAIN s : Term(s, dev, S, i) = 0
  BY DEF Term
<1>2. \A i \in DOMAIN s : Term(s, dev, S, i) = Term(s, dev, S, i) - Term(s, dev, S, i)
  BY <1>1
<1>3. Total(s, dev, S) = Total(s, dev, S) - Total(s, dev, S)
  BY <1>1, <1>2, TotalLess
<1>4. Total(s, dev, S) \in Int
  BY TotalInt
<1> QED BY <1>3, <1>4

\* One mouse adds its own movement.
LEMMA TotalSingle ==
    ASSUME NEW s, NEW dev, Listing(s, dev), IsInjective(s), NEW k \in DOMAIN s
    PROVE  Total(s, dev, {s[k]}) = Pointer!ScaledMove(s[k], dev[s[k]].x)
<1> DEFINE n == Len(s)
           A == {s[k]}
           w == Term(s, dev, A, k)
<1>1. PICK f : Sums(f, s, dev, A) /\ Total(s, dev, A) = f[Len(s)]
  BY TotalOf
<1>2. n \in Nat /\ DOMAIN s = 1 .. n /\ k \in 1 .. n
  BY LenProperties DEF Listing
<1>3. w \in Int /\ w = Pointer!ScaledMove(s[k], dev[s[k]].x)
  BY TermInt DEF Term
<1>4. \A i \in 1 .. n : i # k => Term(s, dev, A, i) = 0
  BY <1>2 DEF Term, IsInjective
<1>5. f[0] = 0 /\ \A i \in 1 .. n : f[i] = f[i - 1] + Term(s, dev, A, i)
  BY <1>1 DEF Sums
<1> DEFINE S == {m \in 0 .. n : f[m] = IF m < k THEN 0 ELSE w}
<1> HIDE DEF w, A
<1>6. 0 \in S
  BY <1>2, <1>5
<1>7. ASSUME NEW m \in 0 .. n - 1, m \in S
      PROVE  m + 1 \in S
  <2>1. m + 1 \in 1 .. n /\ (m + 1) - 1 = m /\ m \in 0 .. n /\ m + 1 \in 0 .. n
    BY <1>2
  <2>2. f[m + 1] = f[m] + Term(s, dev, A, m + 1)
    BY <1>5, <2>1
  <2>3. CASE m + 1 = k
    <3>1. f[m] = 0 /\ Term(s, dev, A, m + 1) = w
      BY <1>7, <2>1, <2>3 DEF w
    <3>2. f[m + 1] = w
      BY <1>3, <2>2, <3>1
    <3> QED BY <2>1, <2>3, <3>2
  <2>4. CASE m + 1 # k
    <3>1. Term(s, dev, A, m + 1) = 0
      BY <1>4, <2>1, <2>4
    <3>2. f[m] = IF m < k THEN 0 ELSE w
      BY <1>7
    <3>3. f[m] \in Int
      BY <1>3, <3>2
    <3>4. f[m + 1] = f[m]
      BY <2>2, <3>1, <3>3
    <3>5. (m + 1 < k) = (m < k)
      BY <1>2, <2>1, <2>4
    <3> QED BY <2>1, <3>2, <3>4, <3>5
  <2> QED BY <2>3, <2>4
<1> HIDE DEF S
<1>8. \A m \in 0 .. n : m \in S
  BY <1>2, <1>6, <1>7, Upwards
<1>9. n \in S
  BY <1>2, <1>8
<1>10. f[n] = w
  BY <1>2, <1>9 DEF S
<1> QED BY <1>1, <1>3, <1>10 DEF A

\* A mouse that is added adds what it is about to answer.
LEMMA TotalAdded ==
    ASSUME NEW s, NEW dev, Listing(s, dev), NEW d \in Mice, NEW S, d \in S
    PROVE  /\ Listing(Append(s, d), dev)
           /\ Total(Append(s, d), dev, S)
                = Total(s, dev, S) + Pointer!ScaledMove(d, dev[d].x)
<1> DEFINE t == Append(s, d)
           n == Len(s)
           w == Pointer!ScaledMove(d, dev[d].x)
<1>1. d \in Pointer!Pointing /\ s \in Seq(Pointer!Pointing)
  BY DEF Listing, Pointer!Pointing
<1>2. /\ n \in Nat /\ DOMAIN s = 1 .. n /\ t \in Seq(Pointer!Pointing)
      /\ Len(t) = n + 1 /\ DOMAIN t = 1 .. n + 1
      /\ t[n + 1] = d /\ \A i \in 1 .. n : t[i] = s[i]
  BY <1>1, AppendProperties, LenProperties
<1> HIDE DEF t, n
<1>3. Listing(t, dev)
  <2>1. ASSUME NEW i \in DOMAIN t
        PROVE  t[i] \in Mice
    <3>1. CASE i = n + 1
      BY <1>2, <3>1
    <3>2. CASE i # n + 1
      BY <1>2, <3>2 DEF Listing
    <3> QED BY <3>1, <3>2
  <2> QED BY <1>2, <2>1 DEF Listing
<1>4. PICK f : Sums(f, s, dev, S) /\ Total(s, dev, S) = f[Len(s)]
  BY TotalOf
<1>5. PICK g : Sums(g, t, dev, S) /\ Total(t, dev, S) = g[Len(t)]
  BY <1>3, TotalOf
<1>6. /\ f[0] = 0 /\ \A i \in 1 .. n : f[i] = f[i - 1] + Term(s, dev, S, i)
      /\ \A i \in 0 .. n : f[i] \in Int
  BY <1>4 DEF Sums, n
<1>7. g[0] = 0 /\ \A i \in 1 .. n + 1 : g[i] = g[i - 1] + Term(t, dev, S, i)
  BY <1>2, <1>5 DEF Sums
<1> DEFINE A == {m \in 0 .. n : g[m] = f[m]}
<1>8. 0 \in A
  BY <1>2, <1>6, <1>7
<1>9. ASSUME NEW m \in 0 .. n - 1, m \in A
      PROVE  m + 1 \in A
  <2>1. /\ m + 1 \in 1 .. n /\ m + 1 \in 1 .. n + 1 /\ (m + 1) - 1 = m /\ m \in 0 .. n
        /\ m + 1 \in 0 .. n
    BY <1>2
  <2>2. Term(t, dev, S, m + 1) = Term(s, dev, S, m + 1)
    BY <1>2, <2>1 DEF Term
  <2>3. g[m + 1] = f[m + 1]
    BY <1>6, <1>7, <1>9, <2>1, <2>2
  <2> QED BY <2>1, <2>3
<1> HIDE DEF A
<1>10. \A m \in 0 .. n : m \in A
  BY <1>2, <1>8, <1>9, Upwards
<1>11. n \in A
  BY <1>2, <1>10
<1>12. g[n] = f[n]
  BY <1>11 DEF A
<1>13. g[n + 1] = g[n] + Term(t, dev, S, n + 1)
  <2>1. n + 1 \in 1 .. n + 1 /\ (n + 1) - 1 = n
    BY <1>2
  <2> QED BY <1>7, <2>1
<1>14. Term(t, dev, S, n + 1) = w
  BY <1>2 DEF Term
<1> HIDE DEF w
<1>15. Total(t, dev, S) = Total(s, dev, S) + w
  BY <1>2, <1>4, <1>5, <1>12, <1>13, <1>14 DEF n
<1> QED BY <1>3, <1>15 DEF t, w

\* A mouse that has nothing to add is missed by none.
LEMMA TotalRemoved ==
    ASSUME NEW s, NEW dev, Listing(s, dev), NEW S, NEW k \in DOMAIN s, Term(s, dev, S, k) = 0
    PROVE  /\ Listing(RemoveAt(s, k), dev)
           /\ Total(RemoveAt(s, k), dev, S) = Total(s, dev, S)
<1> DEFINE t == RemoveAt(s, k)
           n == Len(s)
<1>1. s \in Seq(Pointer!Pointing)
  BY DEF Listing
<1>2. /\ n \in Nat /\ DOMAIN s = 1 .. n /\ k \in 1 .. n /\ t \in Seq(Pointer!Pointing)
      /\ Len(t) = n - 1 /\ DOMAIN t = 1 .. n - 1 /\ n - 1 \in Nat
      /\ \A i \in 1 .. n - 1 : t[i] = IF i < k THEN s[i] ELSE s[i + 1]
  BY <1>1, Removed, LenProperties
<1> HIDE DEF t, n
<1>3. Listing(t, dev)
  <2>1. ASSUME NEW i \in DOMAIN t
        PROVE  t[i] \in Mice
    <3>1. i \in DOMAIN s /\ i + 1 \in DOMAIN s
      BY <1>2
    <3> QED BY <1>2, <3>1 DEF Listing
  <2> QED BY <1>2, <2>1 DEF Listing
<1>4. PICK f : Sums(f, s, dev, S) /\ Total(s, dev, S) = f[Len(s)]
  BY TotalOf
<1>5. PICK g : Sums(g, t, dev, S) /\ Total(t, dev, S) = g[Len(t)]
  BY <1>3, TotalOf
<1>6. /\ f[0] = 0 /\ \A i \in 1 .. n : f[i] = f[i - 1] + Term(s, dev, S, i)
      /\ \A i \in 0 .. n : f[i] \in Int
  BY <1>4 DEF Sums, n
<1>7. g[0] = 0 /\ \A i \in 1 .. n - 1 : g[i] = g[i - 1] + Term(t, dev, S, i)
  BY <1>2, <1>5 DEF Sums
<1>8. f[k] = f[k - 1]
  BY <1>2, <1>6
<1> DEFINE A == {m \in 0 .. n - 1 : g[m] = IF m < k THEN f[m] ELSE f[m + 1]}
<1>9. 0 \in A
  BY <1>2, <1>6, <1>7
<1>10. ASSUME NEW m \in 0 .. (n - 1) - 1, m \in A
       PROVE  m + 1 \in A
  <2>1. /\ m + 1 \in 1 .. n /\ m + 1 \in 1 .. n - 1 /\ (m + 1) - 1 = m /\ m \in 0 .. n - 1
        /\ m + 1 \in 0 .. n - 1 /\ (m + 1) + 1 \in 1 .. n /\ ((m + 1) + 1) - 1 = m + 1
    BY <1>2
  <2>2. g[m + 1] = g[m] + Term(t, dev, S, m + 1)
    BY <1>7, <2>1
  <2>3. CASE m + 1 < k
    <3>1. Term(t, dev, S, m + 1) = Term(s, dev, S, m + 1) /\ g[m] = f[m]
      <4>1. t[m + 1] = s[m + 1]
        BY <1>2, <2>1, <2>3
      <4>2. m < k
        BY <1>2, <2>3
      <4> QED BY <1>10, <4>1, <4>2 DEF Term
    <3>2. g[m + 1] = f[m + 1]
      BY <1>6, <2>1, <2>2, <3>1
    <3> QED BY <2>1, <2>3, <3>2
  <2>4. CASE ~(m + 1 < k)
    <3>1. Term(t, dev, S, m + 1) = Term(s, dev, S, (m + 1) + 1)
      <4>1. t[m + 1] = s[(m + 1) + 1]
        BY <1>2, <2>1, <2>4
      <4> QED BY <4>1 DEF Term
    <3>2. g[m] = f[m + 1]
      <4>1. CASE m < k
        <5>1. m + 1 = k
          BY <1>2, <2>1, <2>4, <4>1
        <5>2. g[m] = f[m]
          BY <1>10, <4>1
        <5>3. k - 1 = m
          BY <2>1, <5>1
        <5> QED BY <1>8, <5>1, <5>2, <5>3
      <4>2. CASE ~(m < k)
        BY <1>10, <4>2
      <4> QED BY <4>1, <4>2
    <3>3. f[(m + 1) + 1] = f[m + 1] + Term(s, dev, S, (m + 1) + 1)
      BY <1>6, <2>1
    <3>4. g[m + 1] = f[(m + 1) + 1]
      BY <2>2, <3>1, <3>2, <3>3
    <3> QED BY <2>1, <2>4, <3>4
  <2> QED BY <2>3, <2>4
<1> HIDE DEF A
<1>11. \A m \in 0 .. n - 1 : m \in A
  <2> DEFINE o == n - 1
  <2>1. /\ o \in Nat /\ 0 \in A /\ \A m \in 0 .. o - 1 : m \in A => m + 1 \in A
    BY <1>2, <1>9, <1>10
  <2> HIDE DEF o
  <2>2. \A m \in 0 .. o : m \in A
    BY <2>1, Upwards
  <2> QED BY <2>2 DEF o
<1>12. n - 1 \in A
  BY <1>2, <1>11
<1>13. g[n - 1] = f[n]
  <2>1. CASE n - 1 < k
    <3>1. k = n /\ g[n - 1] = f[n - 1]
      BY <1>2, <1>12, <2>1 DEF A
    <3> QED BY <1>8, <3>1
  <2>2. CASE ~(n - 1 < k)
    BY <1>2, <1>12, <2>2 DEF A
  <2> QED BY <2>1, <2>2
<1>14. Total(t, dev, S) = Total(s, dev, S)
  BY <1>2, <1>4, <1>5, <1>13 DEF n
<1> QED BY <1>3, <1>14 DEF t

\* Totals are the same when their terms are.
LEMMA TotalEqual ==
    ASSUME NEW s, NEW a, NEW b, Listing(s, a), Listing(s, b), NEW A, NEW B,
           \A i \in DOMAIN s : Term(s, a, A, i) = Term(s, b, B, i)
    PROVE  Total(s, a, A) = Total(s, b, B)
<1> DEFINE C == {}
<1>1. \A i \in DOMAIN s : Term(s, b, C, i) = 0 /\ Term(s, b, B, i) \in Int /\ s[i] \notin C
  BY TermInt DEF Term
<1> HIDE DEF C
<1>2. \A i \in DOMAIN s : Term(s, a, A, i) = Term(s, b, B, i) - Term(s, b, C, i)
  BY <1>1
<1>3. Total(s, a, A) = Total(s, b, B) - Total(s, b, C)
  BY <1>2, TotalLess
<1>4. Total(s, b, C) = 0 /\ Total(s, b, B) \in Int
  BY <1>1, TotalNone, TotalInt
<1> QED BY <1>3, <1>4

\* Mice that were asked start from zero: the total is less by what they had.
LEMMA TotalEmptied ==
    ASSUME NEW s, NEW a, NEW b, Listing(s, a), Listing(s, b), NEW D,
           \A i \in DOMAIN s : b[s[i]].x = IF s[i] \in D THEN 0 ELSE a[s[i]].x
    PROVE  Total(s, b, Mice) = Total(s, a, Mice) - Total(s, a, D)
<1>1. ASSUME NEW i \in DOMAIN s
      PROVE  Term(s, b, Mice, i) = Term(s, a, Mice, i) - Term(s, a, D, i)
  <2>1. s[i] \in Mice
    BY DEF Listing
  <2>2. Term(s, a, Mice, i) \in Int
    BY TermInt
  <2>3. CASE s[i] \in D
    <3>1. Term(s, b, Mice, i) = 0
      BY <2>1, <2>3, ScaledInt DEF Term
    <3>2. Term(s, a, D, i) = Term(s, a, Mice, i)
      BY <2>1, <2>3 DEF Term
    <3> QED BY <2>2, <3>1, <3>2
  <2>4. CASE s[i] \notin D
    <3>1. Term(s, b, Mice, i) = Term(s, a, Mice, i) /\ Term(s, a, D, i) = 0
      BY <2>1, <2>4 DEF Term
    <3> QED BY <2>2, <3>1
  <2> QED BY <2>3, <2>4
<1> QED BY <1>1, TotalLess

\* One mouse moved.
LEMMA TotalMoved ==
    ASSUME NEW s, NEW a, NEW b, Listing(s, a), Listing(s, b), IsInjective(s),
           NEW k \in DOMAIN s, \A i \in DOMAIN s : i # k => b[s[i]].x = a[s[i]].x
    PROVE  Total(s, b, Mice) = Total(s, a, Mice) + Pointer!ScaledMove(s[k], b[s[k]].x)
                                 - Pointer!ScaledMove(s[k], a[s[k]].x)
<1> DEFINE D == {s[k]}
           E == Mice \ D
<1>1. \A i \in DOMAIN s : s[i] \in Mice /\ (s[i] \in D <=> i = k)
  BY DEF Listing, IsInjective
<1>2. \A i \in DOMAIN s : Term(s, a, E, i) = Term(s, b, E, i)
  BY <1>1 DEF Term
<1>3. ASSUME NEW dev, Listing(s, dev)
      PROVE  Total(s, dev, E) = Total(s, dev, Mice) - Total(s, dev, D)
  <2>1. ASSUME NEW i \in DOMAIN s
        PROVE  Term(s, dev, E, i) = Term(s, dev, Mice, i) - Term(s, dev, D, i)
    <3>1. Term(s, dev, Mice, i) \in Int
      BY <1>3, TermInt
    <3>2. CASE i = k
      <4>1. Term(s, dev, E, i) = 0 /\ Term(s, dev, D, i) = Term(s, dev, Mice, i)
        BY <1>1, <3>2 DEF Term
      <4> QED BY <3>1, <4>1
    <3>3. CASE i # k
      <4>1. Term(s, dev, E, i) = Term(s, dev, Mice, i) /\ Term(s, dev, D, i) = 0
        BY <1>1, <3>3 DEF Term
      <4> QED BY <3>1, <4>1
    <3> QED BY <3>2, <3>3
  <2> HIDE DEF D, E
  <2> QED BY <1>3, <2>1, TotalLess
<1>4. /\ Total(s, a, D) = Pointer!ScaledMove(s[k], a[s[k]].x)
      /\ Total(s, b, D) = Pointer!ScaledMove(s[k], b[s[k]].x)
  BY TotalSingle
<1> HIDE DEF D, E
<1>5. Total(s, a, E) = Total(s, b, E)
  BY <1>2, TotalEqual
<1>6. /\ Total(s, a, Mice) \in Int /\ Total(s, b, Mice) \in Int
      /\ Total(s, a, D) \in Int /\ Total(s, b, D) \in Int
  BY TotalInt
<1> QED BY <1>3, <1>4, <1>5, <1>6

(***************************************************************************)
(* ConSplitterPointer: the invariant.                                      *)
(***************************************************************************)

\* Each device is at most once in a list, the one of its kind.
PointLists ==
    \A k \in Pointer!PointerKinds :
        /\ IsInjective(pointers[k])
        /\ \A i \in DOMAIN pointers[k] : Pointer!KindOf(pointers[k][i]) = k

\* Panels report what is on them, and a mouse that is in no list has not moved.
PointPlaces ==
    /\ \A d \in Panels : device[d].x \in 0 .. Extent[d].max
    /\ \A d \in Mice : d \notin Held(pointers["simple"]) => device[d].x = 0

PointOwed == owed = Total(pointers["simple"], device, Mice)

PointInv ==
    /\ Pointer!TypeOK /\ PointLists /\ PointPlaces /\ PointOwed
    /\ Pointer!WakeMeansInput /\ Pointer!TouchOnScreen

\* What the kinds and the ranges are.
LEMMA PointConstants ==
    /\ Mice \cap Panels = {} /\ Pointer!Pointing = Mice \cup Panels
    /\ Pointer!PointerKinds = {"simple", "absolute"}
    /\ \A d \in Mice : Pointer!KindOf(d) = "simple"
    /\ \A d \in Panels : Pointer!KindOf(d) = "absolute"
    /\ \A d \in Pointer!Pointing : /\ Pointer!KindOf(d) \in Pointer!PointerKinds
                                   /\ Pointer!KindOf(d) = "simple" <=> d \in Mice
    /\ \A d \in Panels :
         /\ Extent[d].min \in Nat /\ Extent[d].max \in Nat
         /\ Extent[d].min < Extent[d].max \/ Extent[d].max = 0
    /\ VirtualMax \in Nat /\ ListUnit \in Nat /\ ListUnit > 0
<1>1. Extent \in [Panels -> {r \in [min : Nat, max : Nat] : r.min < r.max \/ r.max = 0}]
  BY DevicesAssumption DEF Pointer!PointerAssumption
<1>2. \A d \in Panels :
         /\ Extent[d].min \in Nat /\ Extent[d].max \in Nat
         /\ Extent[d].min < Extent[d].max \/ Extent[d].max = 0
  BY <1>1
<1> QED
  BY <1>2, DevicesAssumption
  DEF Pointer!PointerAssumption, Pointer!Pointing, Pointer!PointerKinds, Pointer!KindOf

\* What the types say of the lists and of the devices.
LEMMA PointTypes ==
    ASSUME Pointer!TypeOK, PointLists
    PROVE  /\ \A k \in Pointer!PointerKinds : pointers[k] \in Seq(Pointer!Pointing)
           /\ "simple" \in Pointer!PointerKinds /\ "absolute" \in Pointer!PointerKinds
           /\ Listing(pointers["simple"], device) /\ IsInjective(pointers["simple"])
           /\ \A k \in Pointer!PointerKinds : \A d \in Held(pointers[k]) :
                d \in Pointer!Pointing /\ Pointer!KindOf(d) = k
           /\ \A k : Pointer!Listed(k) = Held(pointers[k])
           /\ \A d \in Pointer!Pointing :
                /\ device[d] \in Pointer!States /\ device[d].changed \in BOOLEAN
                /\ device[d].x \in Int /\ device[d].buttons \in SUBSET PointerButtons
           /\ \A S : Pointer!Moved(S) = Total(pointers["simple"], device, S)
<1>1. \A k \in Pointer!PointerKinds : pointers[k] \in Seq(Pointer!Pointing)
  BY DEF Pointer!TypeOK
<1>2. "simple" \in Pointer!PointerKinds /\ "absolute" \in Pointer!PointerKinds
  BY DEF Pointer!PointerKinds
<1>3. \A k \in Pointer!PointerKinds : \A d \in Held(pointers[k]) :
        d \in Pointer!Pointing /\ Pointer!KindOf(d) = k
  <2> SUFFICES ASSUME NEW k \in Pointer!PointerKinds, NEW i \in DOMAIN pointers[k]
               PROVE  /\ pointers[k][i] \in Pointer!Pointing
                      /\ Pointer!KindOf(pointers[k][i]) = k
    BY DEF Held
  <2>1. pointers[k] \in Seq(Pointer!Pointing)
    BY <1>1
  <2> QED BY <2>1, LenProperties DEF PointLists
<1>4. Listing(pointers["simple"], device)
  <2>1. \A i \in DOMAIN pointers["simple"] : pointers["simple"][i] \in Mice
    BY <1>2, <1>3, PointConstants DEF Held
  <2> QED BY <1>1, <1>2, <2>1 DEF Listing, Pointer!TypeOK
<1>5. \A k : Pointer!Listed(k) = Held(pointers[k])
  BY DEF Pointer!Listed, Pointer!Held, Held
<1>6. ASSUME NEW d \in Pointer!Pointing
      PROVE  /\ device[d] \in Pointer!States /\ device[d].changed \in BOOLEAN
             /\ device[d].x \in Int /\ device[d].buttons \in SUBSET PointerButtons
  <2>1. device[d] \in Pointer!States
    BY DEF Pointer!TypeOK
  <2> QED BY <2>1 DEF Pointer!States
<1>7. \A S : Pointer!Moved(S) = Total(pointers["simple"], device, S)
  BY Zenon DEF Pointer!Moved, Total
<1>8. IsInjective(pointers["simple"])
  BY <1>2 DEF PointLists
<1> QED BY <1>1, <1>2, <1>3, <1>4, <1>5, <1>6, <1>7, <1>8

\* A device at rest.
LEMMA RestingState ==
    Pointer!Resting \in Pointer!States /\ Pointer!Resting.x = 0 /\ Pointer!Resting.changed = FALSE
BY DEF Pointer!Resting, Pointer!States

\* It holds at first.
LEMMA PointInit == Pointer!Init => PointInv
<1> SUFFICES ASSUME Pointer!Init PROVE PointInv
  OBVIOUS
<1>1. /\ \A k \in Pointer!PointerKinds :
           pointers[k] = <<>> /\ caps[k] = ListUnit /\ signal[k] = FALSE
      /\ pointers["simple"] = <<>>
      /\ device = [d \in Pointer!Pointing |-> Pointer!Resting]
      /\ \A d \in Pointer!Pointing : device[d].x = 0
      /\ answer = [x |-> 0, buttons |-> {}, from |-> {}] /\ answer.from = {}
      /\ owed = 0 /\ gone = {}
  BY RestingState DEF Pointer!Init, Pointer!PointerKinds
<1>2. Pointer!TypeOK
  <2>1. device \in [Pointer!Pointing -> Pointer!States]
    BY <1>1, RestingState
  <2>2. /\ pointers = [k \in Pointer!PointerKinds |-> <<>>]
        /\ caps = [k \in Pointer!PointerKinds |-> ListUnit]
        /\ signal = [k \in Pointer!PointerKinds |-> FALSE]
    BY DEF Pointer!Init
  <2>3. pointers \in [Pointer!PointerKinds -> Seq(Pointer!Pointing)]
    <3>1. <<>> \in Seq(Pointer!Pointing)
      OBVIOUS
    <3> HIDE DEF Pointer!Pointing, Pointer!PointerKinds
    <3> QED BY <2>2, <3>1
  <2>4. answer \in [x : Int, buttons : SUBSET PointerButtons, from : SUBSET Panels]
    BY <1>1
  <2> QED BY <1>1, <2>1, <2>2, <2>3, <2>4, PointConstants DEF Pointer!TypeOK
<1>3. PointLists
  BY <1>1 DEF PointLists, IsInjective
<1>4. PointPlaces
  <2> SUFFICES ASSUME NEW d \in Pointer!Pointing
               PROVE  device[d].x = 0 /\ (d \in Panels => 0 \in 0 .. Extent[d].max)
    BY PointConstants DEF PointPlaces
  <2> QED BY <1>1, PointConstants
<1>5. PointOwed
  <2>1. Listing(pointers["simple"], device)
    BY <1>2, <1>3, PointTypes
  <2>2. \A i \in DOMAIN pointers["simple"] : pointers["simple"][i] \notin Mice
    BY <1>1
  <2>3. Total(pointers["simple"], device, Mice) = 0
    BY <2>1, <2>2, TotalNone
  <2> QED BY <1>1, <2>3 DEF PointOwed
<1>6. Pointer!WakeMeansInput /\ Pointer!TouchOnScreen
  BY <1>1 DEF Pointer!WakeMeansInput, Pointer!TouchOnScreen
<1> QED BY <1>2, <1>3, <1>4, <1>5, <1>6 DEF PointInv

\* A device comes: it has nothing to add yet.
LEMMA PointStart ==
    ASSUME PointInv, NEW d \in Pointer!Pointing, Pointer!Start(d)
    PROVE  PointInv'
<1> DEFINE k == Pointer!KindOf(d)
           s == pointers[k]
<1>1. /\ d \notin Held(s) /\ pointers' = [pointers EXCEPT ![k] = Append(@, d)]
      /\ caps' = IF Len(s) >= caps[k] THEN [caps EXCEPT ![k] = @ + ListUnit] ELSE caps
      /\ UNCHANGED <<signal, device, answer, owed, gone>>
  BY DEF Pointer!Start, Pointer!AddDevice, Pointer!Listed, Pointer!Held, Held
<1>2. Pointer!TypeOK /\ PointLists
  BY DEF PointInv
<1>3. k \in Pointer!PointerKinds /\ s \in Seq(Pointer!Pointing) /\ IsInjective(s)
  BY <1>2, PointConstants, PointTypes DEF PointLists
<1> DEFINE t == Append(s, d)
<1>4. /\ t \in Seq(Pointer!Pointing) /\ Held(t) = Held(s) \cup {d} /\ IsInjective(t)
      /\ DOMAIN s = 1 .. Len(s) /\ DOMAIN t = 1 .. Len(s) + 1 /\ Len(s) \in Nat
      /\ t[Len(s) + 1] = d /\ \A i \in 1 .. Len(s) : t[i] = s[i]
  BY <1>1, <1>3, HeldAppended, AppendProperties, LenProperties
<1>5. pointers \in [Pointer!PointerKinds -> Seq(Pointer!Pointing)]
  BY <1>2 DEF Pointer!TypeOK
<1>6. /\ pointers'[k] = t
      /\ \A j \in Pointer!PointerKinds \ {k} : pointers'[j] = pointers[j]
      /\ pointers' \in [Pointer!PointerKinds -> Seq(Pointer!Pointing)]
  <2> HIDE DEF k
  <2> QED BY <1>1, <1>3, <1>4, <1>5
<1>7. \A i \in DOMAIN t : Pointer!KindOf(t[i]) = k
  <2> SUFFICES ASSUME NEW i \in DOMAIN t
               PROVE  Pointer!KindOf(t[i]) = k
    OBVIOUS
  <2>1. CASE i = Len(s) + 1
    BY <1>4, <2>1
  <2>2. CASE i # Len(s) + 1
    <3>1. i \in DOMAIN s /\ t[i] = s[i]
      BY <1>4, <2>2
    <3>2. Pointer!KindOf(s[i]) = k
      BY <1>2, <1>3, <3>1 DEF PointLists
    <3> QED BY <3>1, <3>2
  <2> QED BY <2>1, <2>2
<1> HIDE DEF k, s, t
<1>8. PointLists'
  BY <1>2, <1>4, <1>6, <1>7 DEF PointLists
<1>9. Pointer!TypeOK'
  <2>1. caps \in [Pointer!PointerKinds -> Nat]
    BY <1>2 DEF Pointer!TypeOK
  <2>2. caps[k] + ListUnit \in Nat
    BY <1>3, <2>1, PointConstants
  <2>3. caps' \in [Pointer!PointerKinds -> Nat]
    BY <1>1, <1>3, <2>1, <2>2
  <2> QED BY <1>1, <1>2, <1>6, <2>3 DEF Pointer!TypeOK
<1>10. \A j \in Pointer!PointerKinds : Held(pointers[j]) \subseteq Held(pointers'[j])
  BY <1>4, <1>6 DEF s
<1>11. "simple" \in Pointer!PointerKinds
  BY <1>2, PointTypes
<1>12. PointPlaces'
  BY <1>1, <1>10, <1>11 DEF PointInv, PointPlaces
<1>13. PointOwed'
  <2>1. Listing(pointers["simple"], device)
    BY <1>2, PointTypes
  <2>2. CASE d \in Mice
    <3>1. k = "simple"
      BY <2>2, PointConstants DEF k
    <3>2. pointers' ["simple"] = t /\ s = pointers["simple"]
      BY <1>6, <3>1 DEF s
    <3>3. device[d].x = 0
      BY <1>1, <2>2, <3>2 DEF PointInv, PointPlaces
    <3>4. Total(t, device, Mice)
            = Total(s, device, Mice) + Pointer!ScaledMove(d, device[d].x)
      BY <2>1, <2>2, <3>2, TotalAdded DEF t
    <3>5. Pointer!ScaledMove(d, device[d].x) = 0 /\ Total(s, device, Mice) \in Int
      BY <2>1, <2>2, <3>2, <3>3, ScaledInt, TotalInt
    <3>6. Total(t, device, Mice) = Total(s, device, Mice)
      BY <3>4, <3>5
    <3> QED BY <1>1, <3>2, <3>6 DEF PointInv, PointOwed
  <2>3. CASE d \notin Mice
    <3>1. k # "simple"
      BY <2>3, PointConstants DEF k
    <3>2. pointers' ["simple"] = pointers["simple"]
      BY <1>6, <1>11, <3>1
    <3> QED BY <1>1, <3>2 DEF PointInv, PointOwed
  <2> QED BY <2>2, <2>3
<1>14. Pointer!WakeMeansInput'
  <2> SUFFICES ASSUME NEW j \in Pointer!PointerKinds, signal'[j]
               PROVE  j \in gone' \/ \E e \in Pointer!Listed(j)' : device'[e].changed
    BY DEF Pointer!WakeMeansInput
  <2>1. j \in gone \/ \E e \in Held(pointers[j]) : device[e].changed
    BY <1>1, <1>2, PointTypes DEF PointInv, Pointer!WakeMeansInput
  <2>2. Pointer!Listed(j)' = Held(pointers'[j])
    BY DEF Pointer!Listed, Pointer!Held, Held
  <2> QED BY <1>1, <1>10, <2>1, <2>2
<1>15. Pointer!TouchOnScreen'
  BY <1>1 DEF PointInv, Pointer!TouchOnScreen
<1> QED BY <1>8, <1>9, <1>12, <1>13, <1>14, <1>15 DEF PointInv

\* What a mouse had moved goes with it.
LEMMA PointStop ==
    ASSUME PointInv, NEW d \in Pointer!Pointing, Pointer!Stop(d)
    PROVE  PointInv'
<1> DEFINE k == Pointer!KindOf(d)
           s == pointers[k]
           at == {i \in DOMAIN s : s[i] = d}
           m == Min(at)
           t == RemoveAt(s, m)
<1>1. Pointer!TypeOK /\ PointLists
  BY DEF PointInv
<1>2. k \in Pointer!PointerKinds /\ s \in Seq(Pointer!Pointing) /\ IsInjective(s)
  BY <1>1, PointConstants, PointTypes DEF PointLists
<1>3. d \in Held(s)
  BY DEF Pointer!Stop, Pointer!Listed, Pointer!Held, Held
<1>4. m \in DOMAIN s /\ s[m] = d
  <2>1. at \subseteq Nat /\ at # {}
    BY <1>2, <1>3, LenProperties DEF Held
  <2>2. m \in at
    <3> HIDE DEF at
    <3> QED BY <2>1, MinOf
  <2> QED BY <2>2
<1>5. pointers \in [Pointer!PointerKinds -> Seq(Pointer!Pointing)]
  BY <1>1 DEF Pointer!TypeOK
<1>6. /\ pointers' = [pointers EXCEPT ![k] = t]
      /\ device' = [device EXCEPT ![d] = Pointer!Resting]
      /\ owed' = owed - Pointer!Moved({d}) /\ gone' = gone \cup {k}
      /\ UNCHANGED <<caps, signal, answer>>
  <2>1. Pointer!Min(at) = m
    BY DEF Pointer!Min, Min
  <2>2. Pointer!RemoveAt(s, m) = t
    BY DEF Pointer!RemoveAt, RemoveAt
  <2>3. pointers' = [pointers EXCEPT ![k] = Pointer!RemoveAt(s, Pointer!Min(at))]
    BY <1>2, <1>5 DEF Pointer!Stop, Pointer!DeleteDevice
  <2> QED BY <2>1, <2>2, <2>3 DEF Pointer!Stop
<1> HIDE DEF k, at, m
<1>7. t \in Seq(Pointer!Pointing) /\ IsInjective(t) /\ Held(t) = Held(s) \ {d}
  BY <1>2, <1>4, Removed, HeldRemoved
<1> HIDE DEF t
<1>8. /\ pointers'[k] = t
      /\ \A j \in Pointer!PointerKinds \ {k} : pointers'[j] = pointers[j]
      /\ pointers' \in [Pointer!PointerKinds -> Seq(Pointer!Pointing)]
  BY <1>2, <1>5, <1>6, <1>7
<1> HIDE DEF s
<1>9. PointLists'
  <2>1. ASSUME NEW i \in DOMAIN t
        PROVE  Pointer!KindOf(t[i]) = k
    <3>1. t[i] \in Held(s)
      BY <1>7 DEF Held
    <3> QED BY <1>1, <1>2, <3>1, PointTypes DEF s
  <2> QED BY <1>1, <1>7, <1>8, <2>1 DEF PointLists
<1>10. /\ device' \in [Pointer!Pointing -> Pointer!States]
       /\ device'[d] = Pointer!Resting
       /\ \A e \in Pointer!Pointing \ {d} : device'[e] = device[e]
  BY <1>1, <1>6, RestingState DEF Pointer!TypeOK
<1>11. "simple" \in Pointer!PointerKinds /\ "absolute" \in Pointer!PointerKinds
  BY <1>1, PointTypes
<1>12. PointPlaces'
  <2>1. ASSUME NEW e \in Panels
        PROVE  device'[e].x \in 0 .. Extent[e].max
    <3>1. 0 \in 0 .. Extent[e].max
      BY PointConstants
    <3> QED BY <1>10, <3>1, PointConstants, RestingState DEF PointInv, PointPlaces
  <2>2. ASSUME NEW e \in Mice, e \notin Held(pointers' ["simple"])
        PROVE  device'[e].x = 0
    <3>1. CASE e = d
      BY <1>10, <3>1, RestingState
    <3>2. CASE e # d
      <4>1. e \notin Held(pointers["simple"])
        BY <1>7, <1>8, <1>11, <2>2, <3>2 DEF s
      <4> QED BY <1>10, <3>2, <4>1, PointConstants DEF PointInv, PointPlaces
    <3> QED BY <3>1, <3>2
  <2> QED BY <2>1, <2>2 DEF PointPlaces
<1>13. PointOwed'
  <2> DEFINE l == pointers["simple"]
             D == {d}
  <2>1. Listing(l, device) /\ Pointer!Moved({d}) = Total(l, device, D)
    BY <1>1, PointTypes
  <2>2. Listing(l, device')
    BY <1>10, <2>1 DEF Listing
  <2>3. \A i \in DOMAIN l : device'[l[i]].x = IF l[i] \in D THEN 0 ELSE device[l[i]].x
    <3>1. \A i \in DOMAIN l : l[i] \in Pointer!Pointing
      BY <2>1, PointConstants DEF Listing
    <3> QED BY <1>10, <3>1, RestingState
  <2> HIDE DEF l, D
  <2>4. Total(l, device', Mice) = Total(l, device, Mice) - Total(l, device, D)
    BY <2>1, <2>2, <2>3, TotalEmptied
  <2>5. owed' = Total(l, device', Mice)
    BY <1>6, <2>1, <2>4 DEF PointInv, PointOwed, l
  <2>6. CASE k = "simple"
    <3>1. s = l /\ pointers' ["simple"] = t
      BY <1>8, <2>6 DEF s, l
    <3>2. Term(l, device', Mice, m) = 0
      <4>1. d \in Mice
        BY <2>6, PointConstants DEF k
      <4> QED BY <1>4, <1>10, <3>1, <4>1, RestingState, ScaledInt DEF Term, s
    <3>3. Total(RemoveAt(l, m), device', Mice) = Total(l, device', Mice)
      <4>1. m \in DOMAIN l
        BY <1>4, <3>1
      <4> QED BY <2>2, <3>2, <4>1, TotalRemoved
    <3> QED BY <2>5, <3>1, <3>3 DEF PointOwed, t
  <2>7. CASE k # "simple"
    <3>1. pointers' ["simple"] = l
      BY <1>8, <1>11, <2>7 DEF l
    <3> QED BY <2>5, <3>1 DEF PointOwed
  <2> QED BY <2>6, <2>7
<1>14. Pointer!WakeMeansInput'
  <2> SUFFICES ASSUME NEW j \in Pointer!PointerKinds, signal'[j]
               PROVE  j \in gone' \/ \E e \in Pointer!Listed(j)' : device'[e].changed
    BY DEF Pointer!WakeMeansInput
  <2>1. CASE j = k
    BY <1>6, <2>1
  <2>2. CASE j # k
    <3>1. j \in gone \/ \E e \in Held(pointers[j]) : device[e].changed
      BY <1>1, <1>6, PointTypes DEF PointInv, Pointer!WakeMeansInput
    <3>2. Pointer!Listed(j)' = Held(pointers[j])
      BY <1>8, <2>2 DEF Pointer!Listed, Pointer!Held, Held
    <3>3. \A e \in Held(pointers[j]) : e \in Pointer!Pointing /\ e # d
      BY <1>1, <2>2, PointTypes DEF k
    <3> QED BY <1>6, <1>10, <3>1, <3>2, <3>3
  <2> QED BY <2>1, <2>2
<1>15. Pointer!TouchOnScreen'
  BY <1>6 DEF PointInv, Pointer!TouchOnScreen
<1>16. Pointer!TypeOK'
  <2>1. owed' \in Int
    <3>1. Listing(pointers["simple"], device)
      BY <1>1, PointTypes
    <3>2. Total(pointers["simple"], device, {d}) \in Int /\ owed \in Int
      BY <1>1, <3>1, TotalInt DEF Pointer!TypeOK
    <3>3. owed' = owed - Total(pointers["simple"], device, {d})
      BY <1>1, <1>6, PointTypes
    <3> QED BY <3>2, <3>3
  <2> QED BY <1>1, <1>2, <1>6, <1>8, <1>10, <2>1 DEF Pointer!TypeOK
<1> QED BY <1>9, <1>12, <1>13, <1>14, <1>15, <1>16 DEF PointInv

\* The devices in D start anew, and what they had is taken off.
LEMMA PointAsked ==
    ASSUME PointInv, NEW k \in Pointer!PointerKinds, NEW D, D \subseteq Pointer!Listed(k),
           UNCHANGED <<pointers, caps>>, signal' = [signal EXCEPT ![k] = FALSE],
           gone' = gone \ {k},
           device' \in [Pointer!Pointing -> Pointer!States],
           \A d \in Pointer!Pointing :
              /\ d \notin D => device'[d] = device[d]
              /\ d \in D => device'[d].x = 0 \/ (d \notin Mice /\ device'[d].x = device[d].x),
           owed' = IF k = "simple" THEN owed - Pointer!Moved(D) ELSE owed,
           answer' \in [x : Int, buttons : SUBSET PointerButtons, from : SUBSET Panels],
           Pointer!TouchOnScreen'
    PROVE  PointInv'
<1>1. Pointer!TypeOK /\ PointLists
  BY DEF PointInv
<1>2. PointLists'
  BY <1>1 DEF PointLists
<1>3. D \subseteq Held(pointers[k]) /\ \A d \in D : d \in Pointer!Pointing /\ Pointer!KindOf(d) = k
  BY <1>1, PointTypes
<1>4. PointPlaces'
  <2>1. ASSUME NEW d \in Panels
        PROVE  device'[d].x \in 0 .. Extent[d].max
    <3>1. 0 \in 0 .. Extent[d].max /\ d \in Pointer!Pointing
      BY PointConstants
    <3>2. device[d].x \in 0 .. Extent[d].max
      BY DEF PointInv, PointPlaces
    <3>3. device'[d].x = 0 \/ device'[d].x = device[d].x
      BY <3>1
    <3> QED BY <3>1, <3>2, <3>3
  <2>2. ASSUME NEW d \in Mice, d \notin Held(pointers' ["simple"])
        PROVE  device'[d].x = 0
    <3>1. d \in Pointer!Pointing
      BY PointConstants
    <3>2. device[d].x = 0
      BY <2>2 DEF PointInv, PointPlaces
    <3>3. device'[d].x = 0 \/ device'[d] = device[d]
      BY <3>1
    <3> QED BY <3>2, <3>3
  <2> QED BY <2>1, <2>2 DEF PointPlaces
<1>5. PointOwed' /\ owed' \in Int
  <2> DEFINE l == pointers["simple"]
  <2>1. Listing(l, device) /\ Pointer!Moved(D) = Total(l, device, D)
    BY <1>1, PointTypes
  <2>2. Listing(l, device')
    BY <2>1 DEF Listing
  <2>3. \A i \in DOMAIN l : l[i] \in Pointer!Pointing /\ l[i] \in Mice
    BY <2>1, PointConstants DEF Listing
  <2>4. \A i \in DOMAIN l : device'[l[i]].x = IF l[i] \in D THEN 0 ELSE device[l[i]].x
    BY <2>3
  <2> HIDE DEF l
  <2>5. Total(l, device', Mice) = Total(l, device, Mice) - Total(l, device, D)
    BY <2>1, <2>2, <2>4, TotalEmptied
  <2>6. owed = Total(l, device, Mice) /\ owed \in Int /\ Total(l, device, D) \in Int
    BY <1>1, <2>1, TotalInt DEF PointInv, PointOwed, Pointer!TypeOK, l
  <2>7. owed' = Total(l, device', Mice) /\ owed' \in Int
    <3>1. CASE k = "simple"
      BY <2>1, <2>5, <2>6, <3>1
    <3>2. CASE k # "simple"
      <4>1. \A i \in DOMAIN l : l[i] \notin D
        BY <1>3, <2>3, <3>2, PointConstants
      <4>2. Total(l, device, D) = 0
        BY <2>1, <4>1, TotalNone
      <4> QED BY <2>5, <2>6, <3>2, <4>2
    <3> QED BY <3>1, <3>2
  <2> QED BY <2>7 DEF PointOwed, l
<1>6. Pointer!WakeMeansInput'
  <2> SUFFICES ASSUME NEW j \in Pointer!PointerKinds, signal'[j]
               PROVE  j \in gone' \/ \E e \in Pointer!Listed(j)' : device'[e].changed
    BY DEF Pointer!WakeMeansInput
  <2>1. signal \in [Pointer!PointerKinds -> BOOLEAN]
    BY <1>1 DEF Pointer!TypeOK
  <2>2. j # k /\ signal[j]
    BY <2>1
  <2>3. j \in gone \/ \E e \in Held(pointers[j]) : device[e].changed
    BY <1>1, <2>2, PointTypes DEF PointInv, Pointer!WakeMeansInput
  <2>4. \A e \in Held(pointers[j]) : e \in Pointer!Pointing /\ e \notin D
    BY <1>1, <1>3, <2>2, PointTypes
  <2>5. Pointer!Listed(j)' = Held(pointers[j])
    BY DEF Pointer!Listed, Pointer!Held, Held
  <2> QED BY <2>2, <2>3, <2>4, <2>5
<1>7. Pointer!TypeOK'
  <2>1. signal' \in [Pointer!PointerKinds -> BOOLEAN]
    BY <1>1 DEF Pointer!TypeOK
  <2> QED BY <1>1, <1>5, <2>1 DEF Pointer!TypeOK
<1> QED BY <1>2, <1>4, <1>5, <1>6, <1>7 DEF PointInv

\* Reset puts the devices that do not fail to rest.
LEMMA PointReset ==
    ASSUME PointInv, NEW k \in Pointer!PointerKinds, NEW failing,
           Pointer!ResetPointers(k, failing)
    PROVE  PointInv'
<1> DEFINE D == Pointer!Listed(k) \ failing
<1>1. /\ UNCHANGED <<pointers, caps, answer>> /\ signal' = [signal EXCEPT ![k] = FALSE]
      /\ gone' = gone \ {k}
      /\ device' = [d \in Pointer!Pointing |-> IF d \in D THEN Pointer!Resting ELSE device[d]]
      /\ owed' = IF k = "simple" THEN owed - Pointer!Moved(D) ELSE owed
  BY DEF Pointer!ResetPointers
<1>2. D \subseteq Pointer!Listed(k)
  OBVIOUS
<1> HIDE DEF D
<1>3. Pointer!TypeOK
  BY DEF PointInv
<1>4. device' \in [Pointer!Pointing -> Pointer!States]
  BY <1>1, <1>3, RestingState DEF Pointer!TypeOK
<1>5. \A d \in Pointer!Pointing :
         /\ d \notin D => device'[d] = device[d]
         /\ d \in D => device'[d].x = 0 \/ (d \notin Mice /\ device'[d].x = device[d].x)
  BY <1>1, RestingState
<1>6. answer' \in [x : Int, buttons : SUBSET PointerButtons, from : SUBSET Panels]
  BY <1>1, <1>3 DEF Pointer!TypeOK
<1>7. Pointer!TouchOnScreen'
  BY <1>1 DEF PointInv, Pointer!TouchOnScreen
<1> QED BY <1>1, <1>2, <1>4, <1>5, <1>6, <1>7, PointAsked

\* What a device that answers is left with.
LEMMA AnsweredState ==
    ASSUME NEW r \in Pointer!States, NEW x \in Int
    PROVE  /\ [r EXCEPT !.changed = FALSE, !.x = x] \in Pointer!States
           /\ [r EXCEPT !.changed = FALSE, !.x = x].x = x
BY DEF Pointer!States

\* The devices that answer a read.
LEMMA PointReadBy ==
    ASSUME PointInv, NEW k \in Pointer!PointerKinds, NEW broken,
           Pointer!ReadBy(k, Pointer!ReadyOf(k, broken))
    PROVE  /\ Pointer!ReadyOf(k, broken) \subseteq Pointer!Listed(k)
           /\ signal' = [signal EXCEPT ![k] = FALSE] /\ gone' = gone \ {k}
           /\ device' \in [Pointer!Pointing -> Pointer!States]
           /\ \A d \in Pointer!Pointing :
                /\ d \notin Pointer!ReadyOf(k, broken) => device'[d] = device[d]
                /\ d \in Pointer!ReadyOf(k, broken) =>
                     device'[d].x = 0 \/ (d \notin Mice /\ device'[d].x = device[d].x)
<1> DEFINE D == Pointer!ReadyOf(k, broken)
           left(d) == IF d \notin D THEN device[d]
                      ELSE [device[d] EXCEPT !.changed = FALSE,
                                             !.x = IF d \in Mice THEN 0 ELSE @]
<1>1. /\ signal' = [signal EXCEPT ![k] = FALSE] /\ gone' = gone \ {k}
      /\ device' = [d \in Pointer!Pointing |-> left(d)]
  BY DEF Pointer!ReadBy
<1>2. D \subseteq Pointer!Listed(k)
  BY DEF Pointer!ReadyOf
<1> HIDE DEF D
<1>3. ASSUME NEW d \in Pointer!Pointing
      PROVE  /\ left(d) \in Pointer!States
             /\ d \notin D => left(d) = device[d]
             /\ d \in D => left(d).x = 0 \/ (d \notin Mice /\ left(d).x = device[d].x)
  <2> DEFINE r == device[d]
             y == IF d \in Mice THEN 0 ELSE r.x
  <2>1. r \in Pointer!States /\ r.x \in Int
    BY PointTypes DEF PointInv
  <2>2. left(d) = IF d \notin D THEN r ELSE [r EXCEPT !.changed = FALSE, !.x = y]
    BY <2>1 DEF Pointer!States
  <2>3. y \in Int /\ (y = 0 \/ (d \notin Mice /\ y = r.x))
    BY <2>1
  <2> HIDE DEF r, y, left
  <2>4. /\ [r EXCEPT !.changed = FALSE, !.x = y] \in Pointer!States
        /\ [r EXCEPT !.changed = FALSE, !.x = y].x = y
    BY <2>1, <2>3, AnsweredState
  <2> QED BY <2>1, <2>2, <2>3, <2>4 DEF r
<1> HIDE DEF left
<1>4. device' \in [Pointer!Pointing -> Pointer!States]
  BY <1>1, <1>3
<1>5. \A d \in Pointer!Pointing : device'[d] = left(d)
  BY <1>1
<1> QED BY <1>1, <1>2, <1>3, <1>4, <1>5 DEF D

\* The mice that answer have given what they had.
LEMMA PointGetSimple ==
    ASSUME PointInv, NEW broken, Pointer!SimplePointerGetState(broken)
    PROVE  PointInv'
<1> DEFINE k == "simple"
           D == Pointer!ReadyOf(k, broken)
<1>1. /\ Pointer!ReadBy(k, D) /\ owed' = owed - Pointer!Moved(D)
      /\ UNCHANGED <<pointers, caps, answer>>
  BY DEF Pointer!SimplePointerGetState
<1>2. Pointer!TypeOK /\ k \in Pointer!PointerKinds
  BY PointTypes DEF PointInv
<1>3. /\ D \subseteq Pointer!Listed(k)
      /\ signal' = [signal EXCEPT ![k] = FALSE] /\ gone' = gone \ {k}
      /\ device' \in [Pointer!Pointing -> Pointer!States]
      /\ \A d \in Pointer!Pointing :
           /\ d \notin D => device'[d] = device[d]
           /\ d \in D => device'[d].x = 0 \/ (d \notin Mice /\ device'[d].x = device[d].x)
  BY <1>1, <1>2, PointReadBy
<1>4. answer' \in [x : Int, buttons : SUBSET PointerButtons, from : SUBSET Panels]
  BY <1>1, <1>2 DEF Pointer!TypeOK
<1>5. Pointer!TouchOnScreen'
  BY <1>1 DEF PointInv, Pointer!TouchOnScreen
<1>6. owed' = IF k = "simple" THEN owed - Pointer!Moved(D) ELSE owed
  BY <1>1
<1> HIDE DEF k, D
<1> QED BY <1>1, <1>2, <1>3, <1>4, <1>5, <1>6, PointAsked

\* What lies on a range is scaled to what lies on another.
LEMMA ScaledOn ==
    ASSUME NEW m \in Nat, m > 0, NEW x \in 0 .. m, NEW v \in Nat
    PROVE  (x * v) \div m \in 0 .. v
<1> DEFINE q == (x * v) \div m
<1>1. x * v \in Nat /\ m * v \in Nat
  BY SMT
<1>2. x * v <= m * v
  BY SMT
<1>3. q \in Int /\ m * q <= x * v /\ x * v < m * q + m
  <2> DEFINE p == x * v
  <2>1. p \in Nat
    BY <1>1
  <2> HIDE DEF p
  <2>2. p \div m \in Int /\ m * (p \div m) <= p /\ p < m * (p \div m) + m
    BY <2>1, SMT
  <2> QED BY <2>2 DEF p
<1> HIDE DEF q
<1>4. q >= 0
  <2> SUFFICES ASSUME q <= -1 PROVE FALSE
    BY <1>3
  <2>1. m * q <= -m
    BY <1>3, SMT
  <2> QED BY <1>1, <1>3, <2>1
<1>5. q <= v
  <2> SUFFICES ASSUME q >= v + 1 PROVE FALSE
    BY <1>3
  <2>1. m * q >= m * (v + 1)
    BY <1>3, SMT
  <2>2. m * (v + 1) = m * v + m
    BY SMT
  <2> QED BY <1>1, <1>2, <1>3, <2>1, <2>2
<1> QED BY <1>3, <1>4, <1>5 DEF q

\* A position of a panel is an integer on the virtual screen, or what was there.
LEMMA PositionOf ==
    ASSUME PointInv, NEW d \in Panels, NEW old \in Int
    PROVE  /\ Pointer!ScaledPosition(d, device[d].x, old) \in Int
           /\ Extent[d].max = 0 => Pointer!ScaledPosition(d, device[d].x, old) = old
           /\ Extent[d].max # 0 /\ Extent[d].min = 0 =>
                Pointer!ScaledPosition(d, device[d].x, old) \in 0 .. VirtualMax
<1> DEFINE x == device[d].x
           hi == Extent[d].max
           lo == Extent[d].min
<1>1. /\ lo \in Nat /\ hi \in Nat /\ (lo < hi \/ hi = 0) /\ VirtualMax \in Nat
      /\ x \in 0 .. hi
  BY PointConstants DEF PointInv, PointPlaces
<1>2. Pointer!ScaledPosition(d, x, old)
        = IF hi = 0 THEN old ELSE (x * VirtualMax) \div (hi - lo)
  BY DEF Pointer!ScaledPosition
<1> HIDE DEF x, hi, lo
<1>3. CASE hi = 0
  BY <1>2, <1>3 DEF x, hi
<1>4. CASE hi # 0
  <2> DEFINE p == x * VirtualMax
             m == hi - lo
  <2>1. p \in Int /\ m \in Nat /\ m > 0
    BY <1>1, <1>4
  <2> HIDE DEF p, m
  <2>2. p \div m \in Int
    BY <2>1
  <2>3. lo = 0 => p \div m \in 0 .. VirtualMax
    <3> SUFFICES ASSUME lo = 0
                 PROVE  p \div m \in 0 .. VirtualMax
      OBVIOUS
    <3>1. m = hi
      BY <1>1 DEF m
    <3>2. (x * VirtualMax) \div m \in 0 .. VirtualMax
      BY <1>1, <2>1, <3>1, ScaledOn
    <3> QED BY <3>2 DEF p
  <2>4. Pointer!ScaledPosition(d, x, old) = p \div m
    BY <1>2, <1>4 DEF p, m
  <2> QED BY <1>4, <2>2, <2>3, <2>4 DEF x, hi, lo
<1> QED BY <1>3, <1>4

Answers == [x : Int, buttons : SUBSET PointerButtons, from : SUBSET Panels]

\* Answers whose position is on the screen, if the panels that gave it count from zero.
OnScreen == {a \in Answers : \A d \in a.from : Extent[d].min = 0 => a.x \in 0 .. VirtualMax}

\* What the panels show together is one of those.
LEMMA ShownOf ==
    ASSUME PointInv, NEW ready
    PROVE  Pointer!Shown(ready) \in OnScreen
<1> DEFINE l == pointers["absolute"]
           n == Len(l)
           none == [x |-> 0, buttons |-> {}, from |-> {}]
           Writes(i, a) ==
               IF l[i] \notin ready THEN a
               ELSE [x |-> Pointer!ScaledPosition(l[i], device[l[i]].x, a.x),
                     buttons |-> device[l[i]].buttons,
                     from |-> IF Extent[l[i]].max = 0 THEN a.from ELSE {l[i]}]
           Body(f, i) == IF i = 0 THEN none
                         ELSE IF l[i] \notin ready THEN f[i - 1]
                         ELSE [x |-> Pointer!ScaledPosition(l[i], device[l[i]].x, f[i - 1].x),
                               buttons |-> device[l[i]].buttons,
                               from |-> IF Extent[l[i]].max = 0 THEN f[i - 1].from
                                        ELSE {l[i]}]
           Solves(f) == f = [i \in 0 .. n |-> Body(f, i)]
           state == CHOOSE f : Solves(f)
<1>1. Pointer!Shown(ready) = state[n]
  BY Zenon DEF Pointer!Shown
<1>2. Pointer!TypeOK /\ PointLists
  BY DEF PointInv
<1>3. n \in Nat /\ DOMAIN l = 1 .. n /\ \A i \in 1 .. n : l[i] \in Panels
  <2>1. /\ l \in Seq(Pointer!Pointing) /\ "absolute" # "simple"
        /\ \A d \in Held(l) : d \in Pointer!Pointing /\ Pointer!KindOf(d) = "absolute"
    BY <1>2, PointTypes
  <2>2. n \in Nat /\ DOMAIN l = 1 .. n
    BY <2>1, LenProperties
  <2>3. ASSUME NEW i \in DOMAIN l
        PROVE  l[i] \in Panels
    <3>1. l[i] \in Held(l)
      BY DEF Held
    <3>2. l[i] \in Pointer!Pointing /\ Pointer!KindOf(l[i]) # "simple"
      BY <2>1, <3>1
    <3> QED BY <3>2, PointConstants
  <2> QED BY <2>2, <2>3
<1> HIDE DEF l, n
<1>4. none \in OnScreen
  BY DEF OnScreen, Answers
<1>5. ASSUME NEW i \in 1 .. n, NEW a \in OnScreen
      PROVE  Writes(i, a) \in OnScreen
  <2>1. CASE l[i] \notin ready
    BY <1>5, <2>1
  <2>2. CASE l[i] \in ready
    <3> DEFINE d == l[i]
               y == Pointer!ScaledPosition(d, device[d].x, a.x)
               b == device[d].buttons
               g == IF Extent[d].max = 0 THEN a.from ELSE {d}
               r == [x |-> y, buttons |-> b, from |-> g]
    <3>1. d \in Panels /\ d \in Pointer!Pointing
      BY <1>3, PointConstants
    <3>2. /\ a.x \in Int /\ a.from \in SUBSET Panels
          /\ \A e \in a.from : Extent[e].min = 0 => a.x \in 0 .. VirtualMax
      BY DEF OnScreen, Answers
    <3>3. b \in SUBSET PointerButtons
      BY <1>2, <3>1, PointTypes
    <3> HIDE DEF d
    <3>4. /\ y \in Int /\ (Extent[d].max = 0 => y = a.x)
          /\ Extent[d].max # 0 /\ Extent[d].min = 0 => y \in 0 .. VirtualMax
      BY <3>1, <3>2, PositionOf
    <3>5. g \in SUBSET Panels
      BY <3>1, <3>2
    <3>6. \A e \in g : Extent[e].min = 0 => y \in 0 .. VirtualMax
      BY <3>2, <3>4
    <3> HIDE DEF y, b, g
    <3>7. r \in Answers /\ r.from = g /\ r.x = y
      BY <3>3, <3>4, <3>5 DEF Answers
    <3> HIDE DEF r
    <3>8. r \in OnScreen
      BY <3>6, <3>7 DEF OnScreen
    <3>9. Writes(i, a) = r
      BY <2>2 DEF r, y, b, g, d
    <3> HIDE DEF Writes
    <3> QED BY <3>8, <3>9
  <2> QED BY <2>1, <2>2
<1> DEFINE A == {m \in 0 .. n : state[m] \in OnScreen}
           G == [i \in 1 .. n |-> [a \in OnScreen |-> Writes(i, a)]]
<1> HIDE DEF Writes
<1>6. /\ G \in Steps(n, OnScreen)
      /\ \A i \in 1 .. n : \A a \in OnScreen : G[i][a] = Writes(i, a)
  BY <1>5 DEF Steps
<1> HIDE DEF G, none
<1>7. PICK f : Makes(f, n, OnScreen, none, G)
  BY <1>3, <1>4, <1>6, Unrolled
<1>8. /\ f \in [0 .. n -> OnScreen] /\ f[0] = none
      /\ \A i \in 1 .. n : i - 1 \in 0 .. n /\ f[i - 1] \in OnScreen
                           /\ f[i] = G[i][f[i - 1]]
  BY <1>3, <1>7 DEF Makes
<1>9. \A i \in 1 .. n : f[i] = Writes(i, f[i - 1])
  BY <1>6, <1>8
<1>10. \A h, i : Body(h, i) = IF i = 0 THEN none ELSE Writes(i, h[i - 1])
  BY Zenon DEF Writes
<1> HIDE DEF Body
<1>11. Solves(f)
  <2>1. \A i \in 0 .. n : f[i] = Body(f, i)
    BY <1>3, <1>8, <1>9, <1>10
  <2> QED BY <1>8, <2>1
<1>12. Solves(state)
  <2> HIDE DEF Solves
  <2> QED BY <1>11
<1>13. state[0] = none /\ \A i \in 1 .. n : state[i] = Writes(i, state[i - 1])
  <2>1. \A i \in 0 .. n : state[i] = Body(state, i)
    <3> HIDE DEF state
    <3> QED BY <1>12
  <2>2. 0 \in 0 .. n /\ \A i \in 1 .. n : i \in 0 .. n /\ i # 0
    BY <1>3
  <2> HIDE DEF state
  <2> QED BY <1>10, <2>1, <2>2
<1> HIDE DEF state, Solves
<1>14. 0 \in A
  BY <1>3, <1>4, <1>13
<1>15. ASSUME NEW m \in 0 .. n - 1, m \in A
       PROVE  m + 1 \in A
  <2>1. m + 1 \in 1 .. n /\ (m + 1) - 1 = m /\ m + 1 \in 0 .. n /\ state[m] \in OnScreen
    BY <1>3, <1>15
  <2> QED BY <1>5, <1>13, <2>1
<1> HIDE DEF A
<1>16. \A m \in 0 .. n : m \in A
  BY <1>3, <1>14, <1>15, Upwards
<1>17. n \in A
  BY <1>3, <1>16
<1> QED BY <1>1, <1>17 DEF A

\* The panels that answer write the state one after the other.
LEMMA PointGetAbsolute ==
    ASSUME PointInv, NEW broken, Pointer!AbsolutePointerGetState(broken)
    PROVE  PointInv'
<1> DEFINE k == "absolute"
           D == Pointer!ReadyOf(k, broken)
<1>1. /\ Pointer!ReadBy(k, D)
      /\ answer' = IF broken # {} \/ D = {} THEN answer ELSE Pointer!Shown(D)
      /\ UNCHANGED <<pointers, caps, owed>>
  BY DEF Pointer!AbsolutePointerGetState
<1>2. Pointer!TypeOK /\ k \in Pointer!PointerKinds
  BY PointTypes DEF PointInv
<1>3. /\ D \subseteq Pointer!Listed(k)
      /\ signal' = [signal EXCEPT ![k] = FALSE] /\ gone' = gone \ {k}
      /\ device' \in [Pointer!Pointing -> Pointer!States]
      /\ \A d \in Pointer!Pointing :
           /\ d \notin D => device'[d] = device[d]
           /\ d \in D => device'[d].x = 0 \/ (d \notin Mice /\ device'[d].x = device[d].x)
  BY <1>1, <1>2, PointReadBy
<1>4. answer' \in OnScreen
  <2>1. answer \in OnScreen
    BY <1>2 DEF OnScreen, Answers, PointInv, Pointer!TypeOK, Pointer!TouchOnScreen
  <2>2. Pointer!Shown(D) \in OnScreen
    BY ShownOf
  <2> QED BY <1>1, <2>1, <2>2
<1>5. answer' \in [x : Int, buttons : SUBSET PointerButtons, from : SUBSET Panels]
  BY <1>4 DEF OnScreen, Answers
<1>6. Pointer!TouchOnScreen'
  BY <1>4 DEF OnScreen, Pointer!TouchOnScreen
<1>7. owed' = IF k = "simple" THEN owed - Pointer!Moved(D) ELSE owed
  BY <1>1
<1> HIDE DEF k, D
<1> QED BY <1>1, <1>2, <1>3, <1>5, <1>6, <1>7, PointAsked

\* A client is woken when a device changed.
LEMMA PointWait ==
    ASSUME PointInv, NEW k \in Pointer!PointerKinds, Pointer!WaitForInput(k)
    PROVE  PointInv'
<1>1. /\ UNCHANGED <<pointers, caps, device, answer, owed, gone>>
      /\ signal' = [signal EXCEPT ![k] = TRUE]
      /\ \E d \in Pointer!Listed(k) : device[d].changed
  BY DEF Pointer!WaitForInput
<1>2. signal \in [Pointer!PointerKinds -> BOOLEAN]
  BY DEF PointInv, Pointer!TypeOK
<1>3. /\ signal' \in [Pointer!PointerKinds -> BOOLEAN]
      /\ \A j \in Pointer!PointerKinds \ {k} : signal'[j] = signal[j]
  BY <1>1, <1>2
<1>4. PointLists' /\ PointPlaces' /\ PointOwed' /\ Pointer!TouchOnScreen'
  BY <1>1 DEF PointInv, PointLists, PointPlaces, PointOwed, Pointer!TouchOnScreen
<1>5. Pointer!TypeOK'
  BY <1>1, <1>3 DEF PointInv, Pointer!TypeOK
<1>6. Pointer!WakeMeansInput'
  <2> SUFFICES ASSUME NEW j \in Pointer!PointerKinds, signal'[j]
               PROVE  j \in gone' \/ \E e \in Pointer!Listed(j)' : device'[e].changed
    BY DEF Pointer!WakeMeansInput
  <2>1. Pointer!Listed(j)' = Pointer!Listed(j)
    BY <1>1 DEF Pointer!Listed
  <2>2. CASE j = k
    BY <1>1, <2>1, <2>2
  <2>3. CASE j # k
    <3>1. j \in gone \/ \E e \in Pointer!Listed(j) : device[e].changed
      BY <1>3, <2>3 DEF PointInv, Pointer!WakeMeansInput
    <3> QED BY <1>1, <2>1, <3>1
  <2> QED BY <2>2, <2>3
<1> QED BY <1>4, <1>5, <1>6 DEF PointInv

\* A device that is used has changed.
LEMMA PointUsed ==
    ASSUME PointInv, NEW d \in Pointer!Pointing, NEW r \in Pointer!States, r.changed = TRUE,
           device' = [device EXCEPT ![d] = r],
           d \in Panels => r.x \in 0 .. Extent[d].max,
           d \in Mice => d \in Pointer!Listed("simple"),
           UNCHANGED <<pointers, caps, signal, answer, gone>>,
           owed' \in Int, PointOwed'
    PROVE  PointInv'
<1>1. Pointer!TypeOK /\ PointLists
  BY DEF PointInv
<1>2. /\ device' \in [Pointer!Pointing -> Pointer!States] /\ device'[d] = r
      /\ \A e \in Pointer!Pointing \ {d} : device'[e] = device[e]
  BY <1>1 DEF Pointer!TypeOK
<1>3. PointLists' /\ Pointer!TouchOnScreen'
  BY <1>1 DEF PointInv, PointLists, Pointer!TouchOnScreen
<1>4. Pointer!TypeOK'
  BY <1>1, <1>2 DEF Pointer!TypeOK
<1>5. PointPlaces'
  <2>1. ASSUME NEW e \in Panels
        PROVE  device'[e].x \in 0 .. Extent[e].max
    <3>1. CASE e = d
      BY <1>2, <3>1
    <3>2. CASE e # d
      BY <1>2, <3>2, PointConstants DEF PointInv, PointPlaces
    <3> QED BY <3>1, <3>2
  <2>2. ASSUME NEW e \in Mice, e \notin Held(pointers' ["simple"])
        PROVE  device'[e].x = 0
    <3>1. e \notin Held(pointers["simple"])
      BY <2>2
    <3>2. e # d
      BY <1>1, <3>1, PointTypes
    <3>3. device[e].x = 0
      BY <3>1 DEF PointInv, PointPlaces
    <3> QED BY <1>2, <3>2, <3>3, PointConstants
  <2> QED BY <2>1, <2>2 DEF PointPlaces
<1>6. Pointer!WakeMeansInput'
  <2> SUFFICES ASSUME NEW j \in Pointer!PointerKinds, signal'[j]
               PROVE  j \in gone' \/ \E e \in Pointer!Listed(j)' : device'[e].changed
    BY DEF Pointer!WakeMeansInput
  <2>1. j \in gone \/ \E e \in Pointer!Listed(j) : device[e].changed
    BY DEF PointInv, Pointer!WakeMeansInput
  <2>2. Pointer!Listed(j)' = Pointer!Listed(j)
    BY DEF Pointer!Listed
  <2>3. \A e \in Pointer!Listed(j) : e \in Pointer!Pointing
    BY <1>1, PointTypes
  <2>4. \A e \in Pointer!Listed(j) : device[e].changed => device'[e].changed
    BY <1>2, <2>3
  <2> QED BY <2>1, <2>2, <2>4
<1> QED BY <1>3, <1>4, <1>5, <1>6 DEF PointInv

\* The user moves a mouse, and is owed the movement.
LEMMA PointMove ==
    ASSUME PointInv, NEW d \in Mice, NEW x \in Int, Pointer!Move(d, x)
    PROVE  PointInv'
<1> DEFINE l == pointers["simple"]
           y == device[d].x + x
           r == [device[d] EXCEPT !.changed = TRUE, !.x = y]
<1>1. Pointer!TypeOK /\ PointLists /\ d \in Pointer!Pointing
  BY PointConstants DEF PointInv
<1>2. device[d] \in Pointer!States /\ device[d].x \in Int
  BY <1>1, PointTypes
<1>3. y \in Int
  BY <1>2
<1>4. /\ d \in Pointer!Listed("simple") /\ UNCHANGED <<pointers, caps, signal, answer, gone>>
      /\ owed' = owed + Pointer!ScaledMove(d, y) - Pointer!ScaledMove(d, device[d].x)
  BY DEF Pointer!Move
<1>5. device' = [device EXCEPT ![d] = r]
  <2>1. device' = [device EXCEPT ![d].changed = TRUE, ![d].x = @ + x]
    BY DEF Pointer!Move
  <2>2. device \in [Pointer!Pointing -> Pointer!States]
    BY <1>1 DEF Pointer!TypeOK
  <2> QED BY <1>1, <1>2, <2>1, <2>2 DEF Pointer!States
<1>6. r \in Pointer!States /\ r.changed = TRUE /\ r.x = y
  BY <1>2, <1>3 DEF Pointer!States
<1> HIDE DEF r, y
<1>7. /\ device' \in [Pointer!Pointing -> Pointer!States] /\ device'[d] = r
      /\ \A e \in Pointer!Pointing \ {d} : device'[e] = device[e]
  BY <1>1, <1>5, <1>6 DEF Pointer!TypeOK
<1>8. /\ Listing(l, device) /\ IsInjective(l)
      /\ \A i \in DOMAIN l : l[i] \in Pointer!Pointing
  BY <1>1, PointTypes, PointConstants DEF Listing
<1>9. Listing(l, device')
  BY <1>7, <1>8 DEF Listing
<1>10. PICK k \in DOMAIN l : l[k] = d
  BY <1>1, <1>4, PointTypes DEF Held
<1>11. \A i \in DOMAIN l : i # k => device'[l[i]].x = device[l[i]].x
  BY <1>7, <1>8, <1>10 DEF IsInjective
<1> HIDE DEF l
<1>12. Total(l, device', Mice) = Total(l, device, Mice)
          + Pointer!ScaledMove(l[k], device'[l[k]].x) - Pointer!ScaledMove(l[k], device[l[k]].x)
  BY <1>8, <1>9, <1>10, <1>11, TotalMoved
<1>13. owed = Total(l, device, Mice) /\ owed \in Int
  BY <1>1 DEF PointInv, PointOwed, Pointer!TypeOK, l
<1>14. owed' = Total(l, device', Mice)
  BY <1>4, <1>6, <1>7, <1>10, <1>12, <1>13
<1>15. owed' \in Int /\ PointOwed'
  <2>1. Total(l, device', Mice) \in Int
    BY <1>9, TotalInt
  <2> QED BY <1>4, <1>14, <2>1 DEF PointOwed, l
<1>16. d \notin Panels
  BY PointConstants
<1> QED BY <1>1, <1>4, <1>5, <1>6, <1>15, <1>16, PointUsed

\* The user touches a panel.
LEMMA PointTouch ==
    ASSUME PointInv, NEW d \in Panels, NEW x \in 0 .. VirtualMax,
           NEW b \in SUBSET PointerButtons, Pointer!Touch(d, x, b)
    PROVE  PointInv'
<1> DEFINE r == [changed |-> TRUE, x |-> x, buttons |-> b]
<1>1. /\ x \in Extent[d].min .. Extent[d].max /\ device' = [device EXCEPT ![d] = r]
      /\ UNCHANGED <<pointers, caps, signal, answer, owed, gone>>
  BY DEF Pointer!Touch
<1>2. d \in Pointer!Pointing /\ d \notin Mice
  BY PointConstants
<1>3. r \in Pointer!States /\ r.changed = TRUE /\ r.x = x
  BY PointConstants DEF Pointer!States
<1> HIDE DEF r
<1>4. r.x \in 0 .. Extent[d].max
  BY <1>1, <1>3, PointConstants
<1>5. Pointer!TypeOK /\ PointLists
  BY DEF PointInv
<1>6. PointOwed' /\ owed' \in Int
  <2> DEFINE l == pointers["simple"]
  <2>1. Listing(l, device)
    BY <1>5, PointTypes
  <2>2. device' \in [Pointer!Pointing -> Pointer!States]
    BY <1>1, <1>2, <1>3, <1>5 DEF Pointer!TypeOK
  <2>3. Listing(l, device')
    BY <2>1, <2>2 DEF Listing
  <2>4. \A i \in DOMAIN l : Term(l, device', Mice, i) = Term(l, device, Mice, i)
    <3>1. \A i \in DOMAIN l : l[i] \in Pointer!Pointing /\ l[i] # d
      BY <1>2, <2>1, PointConstants DEF Listing
    <3>2. device \in [Pointer!Pointing -> Pointer!States]
      BY <1>5 DEF Pointer!TypeOK
    <3>3. \A i \in DOMAIN l : device'[l[i]] = device[l[i]]
      BY <1>1, <3>1, <3>2
    <3> QED BY <3>3 DEF Term
  <2> HIDE DEF l
  <2>5. Total(l, device', Mice) = Total(l, device, Mice)
    BY <2>1, <2>3, <2>4, TotalEqual
  <2> QED BY <1>1, <1>5, <2>5 DEF PointInv, PointOwed, Pointer!TypeOK, l
<1> QED BY <1>1, <1>2, <1>3, <1>4, <1>6, PointUsed

\* Every step of the pointers keeps the invariant.
LEMMA PointStep == PointInv /\ [Pointer!Next]_(Pointer!vars) => PointInv'
<1> SUFFICES ASSUME PointInv, [Pointer!Next]_(Pointer!vars)
             PROVE  PointInv'
  OBVIOUS
<1>1. CASE \E d \in Pointer!Pointing : Pointer!Start(d) \/ Pointer!Stop(d)
  BY <1>1, PointStart, PointStop
<1>2. CASE \E k \in Pointer!PointerKinds : Pointer!WaitForInput(k)
  BY <1>2, PointWait
<1>3. CASE \E failing : \/ \E k \in Pointer!PointerKinds : Pointer!ResetPointers(k, failing)
                        \/ Pointer!SimplePointerGetState(failing)
                        \/ Pointer!AbsolutePointerGetState(failing)
  BY <1>3, PointReset, PointGetSimple, PointGetAbsolute
<1>4. CASE \E d \in Mice, x \in {-1, 1} : Pointer!Move(d, x)
  BY <1>4, PointMove
<1>5. CASE \E d \in Panels, x \in 0 .. VirtualMax, b \in SUBSET PointerButtons :
             Pointer!Touch(d, x, b)
  BY <1>5, PointTouch
<1>6. CASE UNCHANGED Pointer!vars
  <2>1. UNCHANGED <<pointers, caps, signal, device, answer, owed, gone>>
    BY <1>6 DEF Pointer!vars
  <2>2. PointLists' /\ PointPlaces' /\ PointOwed' /\ Pointer!TouchOnScreen'
    BY <2>1 DEF PointInv, PointLists, PointPlaces, PointOwed, Pointer!TouchOnScreen
  <2>3. Pointer!TypeOK' /\ Pointer!WakeMeansInput'
    BY <2>1 DEF PointInv, Pointer!TypeOK, Pointer!WakeMeansInput, Pointer!Listed
  <2> QED BY <2>2, <2>3 DEF PointInv
<1>7. Pointer!Next \/ UNCHANGED Pointer!vars
  OBVIOUS
<1> QED BY <1>1, <1>2, <1>3, <1>4, <1>5, <1>6, <1>7 DEF Pointer!Next

\* Every movement is returned once, is still with its mouse or went with it, a
\* client that is woken finds something, and touches are on the screen,
\* whatever mice and panels there are, whatever they measure and which fail.
THEOREM PointersTell == Pointer!Spec => []PointerInput
<1>1. PointInv => PointerInput
  <2> SUFFICES ASSUME PointInv PROVE PointerInput
    OBVIOUS
  <2> DEFINE l == pointers["simple"]
             H == Held(l)
  <2>1. Pointer!TypeOK /\ PointLists
    BY DEF PointInv
  <2>2. Listing(l, device)
    BY <2>1, PointTypes
  <2>3. \A i \in DOMAIN l : l[i] \in Mice /\ l[i] \in H
    BY <2>2 DEF Listing, Held
  <2>4. \A i \in DOMAIN l : Term(l, device, H, i) = Term(l, device, Mice, i)
    BY <2>3 DEF Term
  <2>5. Pointer!Moved(Pointer!Listed("simple")) = Total(l, device, H)
    BY <2>1, PointTypes
  <2> HIDE DEF l, H
  <2>6. Total(l, device, H) = Total(l, device, Mice)
    BY <2>2, <2>4, TotalEqual
  <2>7. Pointer!MovementArrives
    BY <2>5, <2>6 DEF PointInv, PointOwed, Pointer!MovementArrives, l
  <2> QED BY <2>1, <2>7 DEF PointInv, PointerInput
<1>2. Pointer!Init => PointInv
  BY PointInit
<1>3. PointInv /\ [Pointer!Next]_(Pointer!vars) => PointInv'
  BY PointStep
<1> QED
  BY <1>1, <1>2, <1>3, PTL DEF Pointer!Spec

(***************************************************************************)
(* ButtonsDxe: the rings and the count of buttons.                         *)
(***************************************************************************)

\* The remainder of what is at most one round away.
LEMMA ModOf ==
    ASSUME NEW n \in Nat, n > 0, NEW x \in Int, -n <= x, x < 2 * n
    PROVE  x % n = IF x < 0 THEN x + n ELSE IF x < n THEN x ELSE x - n
<1>1. CASE x < 0
  <2>1. x + n \in 0 .. n - 1
    BY <1>1
  <2>2. (x + n) % n = x + n
    BY <2>1
  <2>3. x % n = (x + n) % n
    OBVIOUS
  <2> QED BY <1>1, <2>2, <2>3
<1>2. CASE 0 <= x /\ x < n
  BY <1>2
<1>3. CASE x >= n
  <2>1. x - n \in 0 .. n - 1
    BY <1>3
  <2>2. (x - n) % n = x - n
    BY <2>1
  <2>3. x % n = (x - n) % n
    OBVIOUS
  <2> QED BY <1>3, <2>2, <2>3
<1> QED BY <1>1, <1>2, <1>3

\* The slot i behind r, and how many lie between two slots.
SlotAt(r, i) == IF r + i < RingSize THEN r + i ELSE r + i - RingSize
Between(r, w) == IF r <= w THEN w - r ELSE w - r + RingSize

EfiKeys == Buttons!EfiKeys
RingKeys == EfiKeys \cup {Buttons!NoKey}

\* How slots follow each other.
LEMMA SlotsOf ==
    ASSUME RingSize \in Nat, RingSize > 1,
           NEW r \in 0 .. RingSize - 1, NEW w \in 0 .. RingSize - 1
    PROVE  /\ Between(r, w) \in 0 .. RingSize - 1 /\ (Between(r, w) = 0 <=> r = w)
           /\ r # w => Between(SlotAt(r, 1), w) = Between(r, w) - 1
           /\ Between(r, w) # RingSize - 1 => Between(r, SlotAt(w, 1)) = Between(r, w) + 1
           /\ SlotAt(r, Between(r, w)) = w
           /\ \A i \in 0 .. Between(r, w) - 1 : SlotAt(r, i) # w
           /\ \A i \in 1 .. RingSize - 1 :
                SlotAt(r, i) # r /\ SlotAt(SlotAt(r, 1), i - 1) = SlotAt(r, i)
           /\ \A i \in 0 .. RingSize - 1 : SlotAt(r, i) \in 0 .. RingSize - 1
<1>1. Between(r, w) \in 0 .. RingSize - 1 /\ (Between(r, w) = 0 <=> r = w)
  BY DEF Between
<1>2. r # w => Between(SlotAt(r, 1), w) = Between(r, w) - 1
  BY DEF Between, SlotAt
<1>3. Between(r, w) # RingSize - 1 => Between(r, SlotAt(w, 1)) = Between(r, w) + 1
  BY DEF Between, SlotAt
<1>4. SlotAt(r, Between(r, w)) = w
  BY DEF Between, SlotAt
<1>5. ASSUME NEW i \in 0 .. Between(r, w) - 1
      PROVE  SlotAt(r, i) # w
  BY DEF Between, SlotAt
<1>6. ASSUME NEW i \in 1 .. RingSize - 1
      PROVE  SlotAt(r, i) # r /\ SlotAt(SlotAt(r, 1), i - 1) = SlotAt(r, i)
  BY DEF SlotAt
<1>7. ASSUME NEW i \in 0 .. RingSize - 1
      PROVE  SlotAt(r, i) \in 0 .. RingSize - 1
  BY DEF SlotAt
<1> QED BY <1>1, <1>2, <1>3, <1>4, <1>5, <1>6, <1>7

\* The contents of a ring without remainders.
LEMMA RingOf ==
    ASSUME NEW r \in Buttons!Ring
    PROVE  /\ RingSize \in Nat /\ RingSize > 1
           /\ r.rd \in 0 .. RingSize - 1 /\ r.wr \in 0 .. RingSize - 1
           /\ \A i \in 0 .. RingSize - 1 : r.buf[i] \in RingKeys
           /\ r.buf \in [0 .. RingSize - 1 -> RingKeys]
           /\ Between(r.rd, r.wr) \in 0 .. RingSize - 1
           /\ \A i \in 0 .. RingSize - 1 : SlotAt(r.rd, i) \in 0 .. RingSize - 1
           /\ Buttons!RingContents(r)
                = [i \in 1 .. Between(r.rd, r.wr) |-> r.buf[SlotAt(r.rd, i - 1)]]
           /\ Buttons!RingContents(r) \in Seq(RingKeys)
           /\ Len(Buttons!RingContents(r)) = Between(r.rd, r.wr)
<1>1. RingSize \in Nat /\ RingSize > 1
  BY DevicesAssumption DEF Buttons!ButtonsAssumption
<1>2. /\ r.rd \in 0 .. RingSize - 1 /\ r.wr \in 0 .. RingSize - 1
      /\ r.buf \in [0 .. RingSize - 1 -> RingKeys]
  BY DEF Buttons!Ring, Buttons!Slots, RingKeys, EfiKeys
<1>3. \A i \in 0 .. RingSize - 1 : r.buf[i] \in RingKeys
  BY <1>2
<1>4. /\ Between(r.rd, r.wr) \in 0 .. RingSize - 1
      /\ \A i \in 0 .. RingSize - 1 : SlotAt(r.rd, i) \in 0 .. RingSize - 1
  BY <1>1, <1>2 DEF Between, SlotAt
<1> DEFINE a == r.rd
           b == r.wr
           c == Buttons!RingContents(r)
           m == Between(a, b)
<1>5. (b - a) % RingSize = m
  <2>1. b - a \in Int /\ -RingSize <= b - a /\ b - a < 2 * RingSize /\ b - a < RingSize
    BY <1>1, <1>2
  <2>2. (b - a) % RingSize = IF b - a < 0 THEN b - a + RingSize ELSE b - a
    BY <1>1, <2>1, ModOf
  <2> QED BY <1>1, <1>2, <2>2 DEF Between
<1>6. ASSUME NEW i \in 1 .. m
      PROVE  (a + i - 1) % RingSize = SlotAt(a, i - 1)
  <2>0. a \in 0 .. RingSize - 1 /\ m \in 0 .. RingSize - 1
    BY <1>2, <1>4
  <2> HIDE DEF a, m
  <2>1. i \in Int /\ 1 <= i /\ i <= RingSize - 1 /\ a \in Int /\ 0 <= a /\ a <= RingSize - 1
    BY <1>1, <2>0
  <2> DEFINE x == a + i - 1
  <2>2. x \in Int /\ 0 <= x /\ -RingSize <= x /\ x < 2 * RingSize /\ x = a + (i - 1)
    BY <1>1, <2>1
  <2> HIDE DEF x
  <2>3. x % RingSize = IF x < RingSize THEN x ELSE x - RingSize
    BY <1>1, <2>2, ModOf
  <2>4. x % RingSize = SlotAt(a, i - 1)
    BY <1>1, <2>1, <2>2, <2>3 DEF SlotAt
  <2> QED BY <2>4 DEF x
<1>7. c = [i \in 1 .. m |-> r.buf[SlotAt(a, i - 1)]]
  <2>1. c = [i \in 1 .. (b - a) % RingSize |-> r.buf[(a + i - 1) % RingSize]]
    BY DEF Buttons!RingContents
  <2> HIDE DEF a, b, c, m
  <2>2. c = [i \in 1 .. m |-> r.buf[(a + i - 1) % RingSize]]
    BY <1>5, <2>1
  <2> QED BY <1>6, <2>2
<1>8. \A i \in 1 .. m : r.buf[SlotAt(a, i - 1)] \in RingKeys
  <2> SUFFICES ASSUME NEW i \in 1 .. m
               PROVE  r.buf[SlotAt(a, i - 1)] \in RingKeys
    OBVIOUS
  <2>1. i - 1 \in 0 .. RingSize - 1
    BY <1>1, <1>4
  <2> QED BY <1>3, <1>4, <2>1
<1>9. c \in Seq(RingKeys) /\ Len(c) = m
  <2>1. m \in Nat
    BY <1>1, <1>4
  <2> HIDE DEF c, m
  <2>2. c \in [1 .. m -> RingKeys]
    BY <1>7, <1>8
  <2> QED BY <2>1, <2>2
<1> QED BY <1>1, <1>2, <1>3, <1>4, <1>7, <1>9

\* The slot behind a slot.
LEMMA SuccOf ==
    ASSUME NEW i \in 0 .. RingSize - 1
    PROVE  Buttons!Succ(i) = SlotAt(i, 1) /\ SlotAt(i, 1) \in 0 .. RingSize - 1
<1>1. RingSize \in Nat /\ RingSize > 1
  BY DevicesAssumption DEF Buttons!ButtonsAssumption
<1> DEFINE x == i + 1
<1>2. x \in Int /\ 0 <= x /\ -RingSize <= x /\ x < 2 * RingSize
  BY <1>1
<1> HIDE DEF x
<1>3. x % RingSize = IF x < RingSize THEN x ELSE x - RingSize
  BY <1>1, <1>2, ModOf
<1> QED BY <1>1, <1>3 DEF Buttons!Succ, SlotAt, x

\* A ring that has room takes a key at its end.
LEMMA Stored ==
    ASSUME NEW r \in Buttons!Ring, NEW k \in EfiKeys
    PROVE  /\ Buttons!Store(r, k) \in Buttons!Ring
           /\ Between(r.rd, r.wr) # RingSize - 1 =>
                Buttons!RingContents(Buttons!Store(r, k)) = Append(Buttons!RingContents(r), k)
<1> DEFINE q == Buttons!Store(r, k)
           w == SlotAt(r.wr, 1)
           m == Between(r.rd, r.wr)
           c == Buttons!RingContents(r)
           d == Buttons!RingContents(q)
<1>1. /\ RingSize \in Nat /\ RingSize > 1 /\ r.rd \in 0 .. RingSize - 1
      /\ r.wr \in 0 .. RingSize - 1 /\ r.buf \in [0 .. RingSize - 1 -> RingKeys]
      /\ m \in 0 .. RingSize - 1
      /\ c = [i \in 1 .. m |-> r.buf[SlotAt(r.rd, i - 1)]]
      /\ c \in Seq(RingKeys) /\ Len(c) = m
      /\ \A i \in 0 .. RingSize - 1 : SlotAt(r.rd, i) \in 0 .. RingSize - 1
  BY RingOf
<1>2. w \in 0 .. RingSize - 1 /\ Buttons!Succ(r.wr) = w
  BY <1>1, SuccOf
<1>3. /\ q \in Buttons!Ring /\ q.rd = r.rd /\ q.wr = w
      /\ q.buf = [r.buf EXCEPT ![r.wr] = k]
  BY <1>1, <1>2 DEF Buttons!Store, Buttons!Ring, Buttons!Slots, EfiKeys
<1> HIDE DEF q, w
<1>4. ASSUME m # RingSize - 1
      PROVE  d = Append(c, k)
  <2>0. /\ Between(r.rd, w) = m + 1 /\ SlotAt(r.rd, m) = r.wr
        /\ \A i \in 0 .. m - 1 : SlotAt(r.rd, i) # r.wr
    <3>1. Between(r.rd, w) = m + 1
      <4> DEFINE x == r.rd
                 y == r.wr
      <4>1. /\ x \in 0 .. RingSize - 1 /\ y \in 0 .. RingSize - 1
            /\ RingSize \in Nat /\ RingSize > 1 /\ Between(x, y) # RingSize - 1
        BY <1>1, <1>4
      <4> HIDE DEF x, y
      <4>2. Between(x, SlotAt(y, 1)) = Between(x, y) + 1
        BY <4>1, SlotsOf
      <4> QED BY <4>2 DEF x, y, w
    <3>2. SlotAt(r.rd, m) = r.wr
      BY <1>1, SlotsOf
    <3>3. \A i \in 0 .. m - 1 : SlotAt(r.rd, i) # r.wr
      BY <1>1, SlotsOf
    <3> HIDE DEF m
    <3> QED BY <3>1, <3>2, <3>3
  <2>1. Between(q.rd, q.wr) = m + 1
    BY <1>3, <2>0
  <2>2. /\ d = [i \in 1 .. m + 1 |-> q.buf[SlotAt(r.rd, i - 1)]]
        /\ d \in Seq(RingKeys) /\ Len(d) = m + 1
    BY ZenonT(60), <1>3, <2>1, RingOf
  <2>3. SlotAt(r.rd, m) = r.wr
    BY <2>0
  <2>4. \A i \in 0 .. m - 1 : SlotAt(r.rd, i) # r.wr
    BY <2>0
  <2>5. k \in RingKeys
    BY DEF RingKeys
  <2>6. /\ Append(c, k) \in Seq(RingKeys) /\ Len(Append(c, k)) = m + 1
        /\ \A i \in 1 .. m : Append(c, k)[i] = c[i]
        /\ Append(c, k)[m + 1] = k
    BY <1>1, <2>5, AppendProperties
  <2> HIDE DEF d, c, m
  <2>7. ASSUME NEW i \in 1 .. m + 1
        PROVE  d[i] = Append(c, k)[i]
    <3>0. d[i] = q.buf[SlotAt(r.rd, i - 1)]
      BY <2>2
    <3>1. CASE i = m + 1
      <4>1. d[i] = q.buf[SlotAt(r.rd, m)]
        BY <1>1, <3>0, <3>1
      <4> QED BY <1>1, <1>3, <2>3, <2>6, <3>1, <4>1
    <3>2. CASE i # m + 1
      <4>1. i \in 1 .. m /\ i - 1 \in 0 .. m - 1 /\ i - 1 \in 0 .. RingSize - 1
        BY SMTT(40), <1>1, <3>2
      <4>2. d[i] = r.buf[SlotAt(r.rd, i - 1)]
        BY <1>1, <1>3, <2>4, <3>0, <4>1
      <4> QED BY <1>1, <2>6, <4>1, <4>2
    <3> QED BY <3>1, <3>2
  <2> DEFINE e == Append(c, k)
  <2>8. e \in Seq(RingKeys) /\ Len(e) = m + 1 /\ \A i \in 1 .. m + 1 : d[i] = e[i]
    BY <2>6, <2>7
  <2> HIDE DEF e
  <2>9. d = e
    BY <2>2, <2>8, SeqEqual
  <2> QED BY <2>9 DEF e
<1> QED BY <1>3, <1>4 DEF q

\* A ring that has keys gives the first.
LEMMA Consumed ==
    ASSUME NEW r \in Buttons!Ring
    PROVE  /\ Buttons!Consume(r) \in Buttons!Ring
           /\ Buttons!IsKeyInBuffer(r) =>
                /\ Buttons!RingContents(r) # <<>>
                /\ Buttons!RingContents(Buttons!Consume(r)) = Tail(Buttons!RingContents(r))
           /\ Buttons!RingContents(r) # <<>> => Buttons!IsKeyInBuffer(r)
<1> DEFINE q == Buttons!Consume(r)
           a == SlotAt(r.rd, 1)
           m == Between(r.rd, r.wr)
           c == Buttons!RingContents(r)
           d == Buttons!RingContents(q)
<1>1. /\ RingSize \in Nat /\ RingSize > 1 /\ r.rd \in 0 .. RingSize - 1
      /\ r.wr \in 0 .. RingSize - 1 /\ r.buf \in [0 .. RingSize - 1 -> RingKeys]
      /\ m \in 0 .. RingSize - 1
      /\ c = [i \in 1 .. m |-> r.buf[SlotAt(r.rd, i - 1)]]
      /\ c \in Seq(RingKeys) /\ Len(c) = m
      /\ \A i \in 0 .. RingSize - 1 : SlotAt(r.rd, i) \in 0 .. RingSize - 1
  BY RingOf
<1>2. a \in 0 .. RingSize - 1 /\ Buttons!Succ(r.rd) = a
  BY <1>1, SuccOf
<1>3. /\ q \in Buttons!Ring /\ q.rd = a /\ q.wr = r.wr
      /\ q.buf = [r.buf EXCEPT ![r.rd] = Buttons!NoKey]
  BY <1>1, <1>2 DEF Buttons!Consume, Buttons!Ring, Buttons!Slots
<1>4. m = 0 <=> r.rd = r.wr
  BY <1>1, SlotsOf
<1>5. c # <<>> <=> m # 0
  BY <1>1, EmptySeq
<1> HIDE DEF q, a
<1>6. ASSUME r.rd # r.wr
      PROVE  d = Tail(c)
  <2>0. /\ Between(a, r.wr) = m - 1
        /\ \A i \in 1 .. RingSize - 1 :
             SlotAt(r.rd, i) # r.rd /\ SlotAt(a, i - 1) = SlotAt(r.rd, i)
        /\ \A i \in 1 .. m - 1 : i \in 1 .. RingSize - 1
    <3>1. Between(a, r.wr) = m - 1
      BY <1>1, <1>6, SlotsOf DEF a
    <3>2. \A i \in 1 .. RingSize - 1 :
             SlotAt(r.rd, i) # r.rd /\ SlotAt(a, i - 1) = SlotAt(r.rd, i)
      BY <1>1, SlotsOf DEF a
    <3> HIDE DEF m
    <3> QED BY <1>1, <3>1, <3>2
  <2>1. Between(q.rd, q.wr) = m - 1
    BY <1>3, <2>0
  <2>2. /\ d = [i \in 1 .. m - 1 |-> q.buf[SlotAt(a, i - 1)]]
        /\ d \in Seq(RingKeys) /\ Len(d) = m - 1
    <3>1. /\ d = [i \in 1 .. Between(q.rd, q.wr) |-> q.buf[SlotAt(q.rd, i - 1)]]
          /\ d \in Seq(RingKeys) /\ Len(d) = Between(q.rd, q.wr)
      BY <1>3, RingOf
    <3> HIDE DEF d, m
    <3>2. d = [i \in 1 .. m - 1 |-> q.buf[SlotAt(q.rd, i - 1)]] /\ Len(d) = m - 1
      BY <2>1, <3>1
    <3> QED BY <1>3, <3>1, <3>2
  <2>3. \A i \in 1 .. m - 1 : SlotAt(a, i - 1) = SlotAt(r.rd, i)
    BY <2>0
  <2>4. \A i \in 1 .. m - 1 : SlotAt(r.rd, i) # r.rd
    BY <2>0
  <2>5. /\ Tail(c) \in Seq(RingKeys) /\ DOMAIN Tail(c) = 1 .. m - 1
        /\ \A i \in 1 .. m - 1 : 1 + i \in DOMAIN c /\ Tail(c)[i] = c[1 + i]
    BY <1>1, <1>4, <1>5, <1>6, TailOf
  <2>6. Len(Tail(c)) = m - 1
    <3>1. Len(Tail(c)) \in Nat /\ DOMAIN Tail(c) = 1 .. Len(Tail(c)) /\ m - 1 \in Nat
      BY SMTT(40), <1>1, <1>4, <1>6, <2>5, LenProperties
    <3> QED BY <2>5, <3>1
  <2> HIDE DEF d, c, m
  <2>7. ASSUME NEW i \in 1 .. m - 1
        PROVE  d[i] = Tail(c)[i]
    <3>0. d[i] = q.buf[SlotAt(r.rd, i)]
      BY <2>2, <2>3
    <3>1. i \in 0 .. RingSize - 1 /\ 1 + i \in 1 .. m /\ (1 + i) - 1 = i
      BY <1>1
    <3>2. d[i] = r.buf[SlotAt(r.rd, i)]
      BY <1>1, <1>3, <2>4, <3>0, <3>1
    <3>3. c[1 + i] = r.buf[SlotAt(r.rd, i)]
      <4> DEFINE j == 1 + i
      <4>1. j \in 1 .. m /\ j - 1 = i
        BY <3>1
      <4> HIDE DEF j
      <4>2. c[j] = r.buf[SlotAt(r.rd, j - 1)]
        BY <1>1, <4>1
      <4> QED BY <4>1, <4>2 DEF j
    <3> QED BY <2>5, <3>2, <3>3
  <2> DEFINE e == Tail(c)
  <2>8. e \in Seq(RingKeys) /\ Len(e) = m - 1 /\ \A i \in 1 .. m - 1 : d[i] = e[i]
    BY <2>5, <2>6, <2>7
  <2> HIDE DEF e
  <2>9. d = e
    BY <2>2, <2>8, SeqEqual
  <2> QED BY <2>9 DEF e
<1>7. Buttons!IsKeyInBuffer(r) <=> r.rd # r.wr
  BY DEF Buttons!IsKeyInBuffer
<1> QED BY <1>3, <1>4, <1>5, <1>6, <1>7 DEF q

(***************************************************************************)
(* ButtonsDxe: the invariant.                                              *)
(***************************************************************************)

\* Counting is counting.
LEMMA CardinalityOf ==
    ASSUME NEW S
    PROVE  Buttons!Cardinality(S) = Cardinality(S)
BY Zenon DEF Buttons!Cardinality, Cardinality

\* The buttons are counted right, and a session that has its key is detected.
Counted ==
    /\ pressed = prev /\ npressed = Cardinality(prev)
    /\ given <= 1 /\ (given = 1 => detected)

\* What a Reset that nobody interrupts has done so far.
BtnCount ==
    /\ place \in Buttons!Places \ Buttons!ResetPlaces => Counted
    /\ place \in Buttons!ResetPlaces \ {"count"} => npressed = 0
    /\ place \in {"currLeft", "pressed", "detection"} => prev = {}
    /\ place = "detection" => pressed = {}

BtnInv ==
    /\ Buttons!TypeOK
    /\ ~torn => BtnCount
    /\ Buttons!NoKeyLost

\* A count is a byte.
LEMMA ByteOf ==
    ASSUME NEW d \in Int
    PROVE  d % 256 \in 0 .. 255 /\ (d \in 0 .. 6 => d % 256 = d)
OBVIOUS

\* There are six buttons at most.
LEMMA SixButtons ==
    ASSUME NEW S, S \subseteq KeyMap
    PROVE  IsFiniteSet(S) /\ Cardinality(S) \in 0 .. 6
<1> DEFINE S1 == {} \cup {"PWR"}
           S2 == S1 \cup {"VOL_UP"}
           S3 == S2 \cup {"VOL_DOWN"}
           S4 == S3 \cup {"CAMERA"}
           S5 == S4 \cup {"HOME"}
           S6 == S5 \cup {"ROTATE_LOCK"}
<1>2. S \subseteq S6
  BY DevicesAssumption DEF Buttons!ButtonsAssumption
<1>3. IsFiniteSet(S1) /\ Cardinality(S1) \in 0 .. 1
  BY FS_EmptySet, FS_AddElement
<1> HIDE DEF S1
<1>4. IsFiniteSet(S2) /\ Cardinality(S2) \in 0 .. 2
  BY <1>3, FS_AddElement
<1> HIDE DEF S2
<1>5. IsFiniteSet(S3) /\ Cardinality(S3) \in 0 .. 3
  BY <1>4, FS_AddElement
<1> HIDE DEF S3
<1>6. IsFiniteSet(S4) /\ Cardinality(S4) \in 0 .. 4
  BY <1>5, FS_AddElement
<1> HIDE DEF S4
<1>7. IsFiniteSet(S5) /\ Cardinality(S5) \in 0 .. 5
  BY <1>6, FS_AddElement
<1> HIDE DEF S5
<1>8. IsFiniteSet(S6) /\ Cardinality(S6) \in 0 .. 6
  BY <1>7, FS_AddElement
<1> HIDE DEF S6
<1>9. IsFiniteSet(S) /\ Cardinality(S) <= Cardinality(S6)
  BY <1>2, <1>8, FS_Subset
<1>10. Cardinality(S) \in Nat
  BY <1>9, FS_CardinalityType
<1> QED BY <1>8, <1>9, <1>10

\* Counting what went down and what came up leaves the buttons that are held.
LEMMA CountOf ==
    ASSUME NEW S, S \subseteq KeyMap, NEW T, T \subseteq KeyMap
    PROVE  /\ (S \ (S \ T)) \cup (T \ S) = T
           /\ Cardinality(S) + Cardinality(T \ S) - Cardinality(S \cap (S \ T)) = Cardinality(T)
<1>1. IsFiniteSet(S) /\ IsFiniteSet(T) /\ IsFiniteSet(S \cap T)
  <2>1. S \cap T \subseteq KeyMap
    OBVIOUS
  <2> QED BY <2>1, SixButtons
<1>2. /\ Cardinality(T \ S) = Cardinality(T) - Cardinality(T \cap S)
      /\ Cardinality(S \ T) = Cardinality(S) - Cardinality(S \cap T)
  BY <1>1, FS_Difference
<1>3. T \cap S = S \cap T /\ S \cap (S \ T) = S \ T
  OBVIOUS
<1>4. Cardinality(S) \in Nat /\ Cardinality(T) \in Nat /\ Cardinality(S \cap T) \in Nat
  BY <1>1, FS_CardinalityType
<1>5. (S \ (S \ T)) \cup (T \ S) = T
  OBVIOUS
<1>6. Cardinality(S \cap (S \ T)) = Cardinality(S) - Cardinality(S \cap T)
  BY <1>2, <1>3, Zenon
<1>7. Cardinality(T \ S) = Cardinality(T) - Cardinality(S \cap T)
  BY <1>2, <1>3, Zenon
<1>8. Cardinality(S) + Cardinality(T \ S) - Cardinality(S \cap (S \ T)) = Cardinality(T)
  <2> DEFINE a == Cardinality(S)
             b == Cardinality(T)
             c == Cardinality(S \cap T)
             d == Cardinality(T \ S)
             e == Cardinality(S \cap (S \ T))
  <2>1. a \in Nat /\ b \in Nat /\ c \in Nat /\ d = b - c /\ e = a - c
    BY <1>4, <1>6, <1>7
  <2> HIDE DEF a, b, c, d, e
  <2>2. a + d - e = b
    BY <2>1
  <2> QED BY <2>2 DEF a, b, d, e
<1> QED BY <1>5, <1>8

\* What the buttons mean is a key or none.
LEMMA CombinationOf ==
    ASSUME NEW p, NEW r
    PROVE  Buttons!Combination(p, r) \in RingKeys
BY DEF Buttons!Combination, RingKeys, EfiKeys, Buttons!EfiKeys, Buttons!NoKey

\* What a poll leaves behind.
LEMMA PollOf ==
    ASSUME BtnInv, NEW x \in Buttons!Polls
    PROVE  /\ x.prev \subseteq KeyMap /\ x.pressed \subseteq KeyMap /\ x.npressed \in 0 .. 255
           /\ pressed = prev /\ npressed = Cardinality(prev) =>
                x.pressed = x.prev /\ x.npressed = Cardinality(x.prev)
           /\ x.detected \in BOOLEAN /\ x.key \in RingKeys
           /\ x.key # Buttons!NoKey => ~detected
           /\ x.npressed # 0 => (detected \/ x.key # Buttons!NoKey => x.detected)
           /\ x.ring = IF x.key = Buttons!NoKey THEN ring ELSE Buttons!Store(ring, x.key)
           /\ x.tring \in {tring, Buttons!Store(tring, x.key)}
           /\ x.key = Buttons!NoKey => x.tring = tring
           /\ x.place \in Buttons!Places
           /\ place \notin Buttons!ResetPlaces => x.place = place
<1> DEFINE NoKey == Buttons!NoKey
           swapped == Buttons!Swapped
<1>1. /\ held \subseteq KeyMap /\ prev \subseteq KeyMap /\ pressed \subseteq KeyMap
      /\ npressed \in 0 .. 255 /\ detected \in BOOLEAN /\ place \in Buttons!Places
  BY DEF BtnInv, Buttons!TypeOK
<1>swap. /\ swapped \in Buttons!Places
         /\ place \notin Buttons!ResetPlaces => swapped = place
  BY <1>1 DEF Buttons!Swapped, Buttons!Places, Buttons!ResetPlaces
<1>2. CASE x = Buttons!Stale
  BY <1>1, <1>2 DEF Buttons!Stale, RingKeys
<1> HIDE DEF swapped
<1>3. CASE x = Buttons!Sampled /\ held = prev
  <2>1. x = [Buttons!Stale EXCEPT !.place = swapped]
    BY <1>3, Zenon DEF Buttons!Sampled, swapped
  <2>2. /\ x.prev = prev /\ x.pressed = pressed /\ x.npressed = npressed
        /\ x.detected = detected /\ x.key = NoKey /\ x.ring = ring /\ x.tring = tring
        /\ x.place = swapped
    BY <2>1 DEF Buttons!Stale
  <2> QED BY <1>1, <1>swap, <2>2 DEF RingKeys
<1>4. CASE x = Buttons!Sampled /\ held # prev
  <2> DEFINE down == held \ prev
             up == prev \ held
             p == (pressed \ up) \cup down
             d == npressed + Cardinality(down) - Cardinality(pressed \cap up)
             n == d % 256
             c == Buttons!ConvertEfiKeyCode(p, n, up)
             left == [prev |-> held, pressed |-> p, npressed |-> n, detected |-> c.detected,
                      ring |-> IF c.key = NoKey THEN ring ELSE Buttons!Store(ring, c.key),
                      tring |-> IF c.key # NoKey /\ running THEN Buttons!Store(tring, c.key)
                                ELSE tring,
                      key |-> c.key, place |-> swapped]
  <2>0. Buttons!Sampled = IF held = prev THEN [Buttons!Stale EXCEPT !.place = swapped] ELSE left
    <3> DEFINE m == (npressed + Buttons!Cardinality(down) - Buttons!Cardinality(pressed \cap up))
                       % 256
    <3>1. m = n
      BY CardinalityOf
    <3> HIDE DEF n
    <3>2. Buttons!Sampled = IF held = prev THEN [Buttons!Stale EXCEPT !.place = swapped] ELSE
             [prev |-> held, pressed |-> p, npressed |-> m,
              detected |-> Buttons!ConvertEfiKeyCode(p, m, up).detected,
              ring |-> IF Buttons!ConvertEfiKeyCode(p, m, up).key = NoKey THEN ring
                       ELSE Buttons!Store(ring, Buttons!ConvertEfiKeyCode(p, m, up).key),
              tring |-> IF Buttons!ConvertEfiKeyCode(p, m, up).key # NoKey /\ running
                        THEN Buttons!Store(tring, Buttons!ConvertEfiKeyCode(p, m, up).key)
                        ELSE tring,
              key |-> Buttons!ConvertEfiKeyCode(p, m, up).key, place |-> swapped]
      BY Zenon DEF Buttons!Sampled, swapped
    <3> HIDE DEF m
    <3> QED BY <3>1, <3>2, Zenon
  <2> HIDE DEF left
  <2>1. x = left
    BY <1>4, <2>0
  <2> USE DEF left
  <2>2. /\ p \subseteq KeyMap /\ n \in 0 .. 255
        /\ pressed = prev /\ npressed = Cardinality(prev) => p = held /\ n = Cardinality(held)
    <3>1. down \subseteq KeyMap /\ pressed \cap up \subseteq KeyMap
      BY <1>1
    <3>2. /\ Cardinality(down) \in 0 .. 6 /\ Cardinality(pressed \cap up) \in 0 .. 6
          /\ Cardinality(held) \in 0 .. 6
      BY <1>1, <3>1, SixButtons
    <3>3. d \in Int
      BY <1>1, <3>2
    <3>4. n \in 0 .. 255 /\ (d \in 0 .. 6 => n = d)
      BY <3>3, ByteOf
    <3>5. ASSUME pressed = prev, npressed = Cardinality(prev)
          PROVE  p = held /\ d = Cardinality(held)
      BY <1>1, <3>5, CountOf
    <3> HIDE DEF d, n
    <3>6. p \subseteq KeyMap
      BY <1>1
    <3> QED BY <3>2, <3>4, <3>5, <3>6
  <2>3. /\ c.key = IF detected THEN NoKey ELSE Buttons!Combination(p, up)
        /\ c.detected = (n # 0 /\ (detected \/ c.key # NoKey))
    BY DEF Buttons!ConvertEfiKeyCode
  <2>4. NoKey \in RingKeys
    BY DEF RingKeys
  <2>5. c.key \in RingKeys
    BY <2>3, <2>4, CombinationOf
  <2> HIDE DEF p, d, n, c, NoKey
  <2>6. /\ x.prev = held /\ x.pressed = p /\ x.npressed = n /\ x.detected = c.detected
        /\ x.key = c.key /\ x.place = swapped
        /\ x.ring = IF c.key = NoKey THEN ring ELSE Buttons!Store(ring, c.key)
        /\ x.tring = IF c.key # NoKey /\ running THEN Buttons!Store(tring, c.key) ELSE tring
    BY <2>1
  <2>7. /\ x.prev \subseteq KeyMap /\ x.pressed \subseteq KeyMap /\ x.npressed \in 0 .. 255
        /\ x.key \in RingKeys
        /\ pressed = prev /\ npressed = Cardinality(prev) =>
             x.pressed = x.prev /\ x.npressed = Cardinality(x.prev)
    BY <1>1, <2>2, <2>5, <2>6
  <2>8. x.detected \in BOOLEAN
    BY <2>3, <2>6
  <2>9. /\ x.key # NoKey => ~detected
        /\ x.npressed # 0 => (detected \/ x.key # NoKey => x.detected)
    BY <2>3, <2>6
  <2>10. /\ x.ring = IF x.key = NoKey THEN ring ELSE Buttons!Store(ring, x.key)
         /\ x.tring \in {tring, Buttons!Store(tring, x.key)}
         /\ x.key = NoKey => x.tring = tring
    BY <2>6
  <2> QED BY <1>swap, <2>6, <2>7, <2>8, <2>9, <2>10 DEF NoKey
<1> QED BY <1>2, <1>3, <1>4 DEF Buttons!Polls

\* A poll keeps the count, and gives no key to a session that has one.
LEMMA PolledOf ==
    ASSUME BtnInv, NEW x \in Buttons!Polls, Buttons!Polled(x)
    PROVE  /\ prev' \subseteq KeyMap /\ pressed' \subseteq KeyMap
           /\ npressed' \in 0 .. 255 /\ detected' \in BOOLEAN /\ overrun' \in BOOLEAN
           /\ given' \in Nat /\ (Counted => Counted')
<1>1. /\ prev' = x.prev /\ pressed' = x.pressed /\ npressed' = x.npressed
      /\ detected' = x.detected
      /\ given' = IF x.npressed = 0 THEN 0
                  ELSE given + (IF x.key = Buttons!NoKey THEN 0 ELSE 1)
      /\ overrun' = (overrun \/ (x.key # Buttons!NoKey /\ Len(unread) = RingSize - 1))
  BY DEF Buttons!Polled
<1>2. /\ x.prev \subseteq KeyMap /\ x.pressed \subseteq KeyMap /\ x.npressed \in 0 .. 255
      /\ pressed = prev /\ npressed = Cardinality(prev) =>
           x.pressed = x.prev /\ x.npressed = Cardinality(x.prev)
      /\ x.detected \in BOOLEAN
      /\ x.key # Buttons!NoKey => ~detected
      /\ x.npressed # 0 => (detected \/ x.key # Buttons!NoKey => x.detected)
  BY PollOf
<1>3. given \in Nat /\ detected \in BOOLEAN
  BY DEF BtnInv, Buttons!TypeOK
<1>4. given' \in Nat
  BY <1>1, <1>3
<1>5. ASSUME given <= 1, given = 1 => detected
      PROVE  given' <= 1 /\ (given' = 1 => detected')
  <2>1. CASE x.npressed = 0
    BY <1>1, <2>1
  <2>2. CASE x.npressed # 0 /\ x.key = Buttons!NoKey
    BY <1>1, <1>2, <1>3, <1>5, <2>2
  <2>3. CASE x.npressed # 0 /\ x.key # Buttons!NoKey
    <3>1. given = 0 /\ given' = 1
      BY <1>1, <1>2, <1>3, <1>5, <2>3
    <3> QED BY <1>1, <1>2, <2>3, <3>1
  <2> QED BY <2>1, <2>2, <2>3
<1>6. ASSUME Counted PROVE Counted'
  BY <1>1, <1>2, <1>5, <1>6 DEF Counted
<1>7. overrun' \in BOOLEAN
  BY <1>1
<1> QED BY <1>1, <1>2, <1>4, <1>6, <1>7

\* What a poll adds to the ring is what it adds to the keys that are unread.
LEMMA FoundOf ==
    ASSUME BtnInv, NEW x \in Buttons!Polls, Buttons!Polled(x)
    PROVE  /\ x.ring \in Buttons!Ring /\ x.tring \in Buttons!Ring
           /\ Buttons!Found(x) \in Seq(EfiKeys)
           /\ ~overrun' => Buttons!RingContents(x.ring) = Buttons!Found(x)
           /\ ~overrun' /\ x.key # Buttons!NoKey => Buttons!Found(x) # <<>>
<1>1. /\ ring \in Buttons!Ring /\ tring \in Buttons!Ring /\ unread \in Seq(EfiKeys)
      /\ overrun \in BOOLEAN /\ (~overrun => Buttons!RingContents(ring) = unread)
  BY DEF BtnInv, Buttons!TypeOK, Buttons!NoKeyLost, EfiKeys
<1>2. /\ x.key \in RingKeys
      /\ x.ring = IF x.key = Buttons!NoKey THEN ring ELSE Buttons!Store(ring, x.key)
      /\ x.tring \in {tring, Buttons!Store(tring, x.key)}
      /\ x.key = Buttons!NoKey => x.tring = tring
  BY PollOf
<1>3. overrun' = (overrun \/ (x.key # Buttons!NoKey /\ Len(unread) = RingSize - 1))
  BY DEF Buttons!Polled
<1>4. x.key # Buttons!NoKey => x.key \in EfiKeys
  BY <1>2 DEF RingKeys
<1> DEFINE f == Buttons!Found(x)
<1>5. f = IF overrun' THEN <<>>
          ELSE IF x.key = Buttons!NoKey THEN unread ELSE Append(unread, x.key)
  BY DEF Buttons!Found
<1> HIDE DEF f
<1>6. CASE x.key = Buttons!NoKey
  <2>1. x.ring = ring /\ x.tring = tring /\ (~overrun' => f = unread) /\ (overrun' => f = <<>>)
    BY <1>2, <1>5, <1>6
  <2>2. f \in Seq(EfiKeys)
    <3>1. <<>> \in Seq(EfiKeys)
      OBVIOUS
    <3> HIDE DEF EfiKeys
    <3> QED BY <1>1, <2>1, <3>1
  <2>3. ~overrun' => ~overrun
    BY <1>3
  <2> QED BY <1>1, <1>6, <2>1, <2>2, <2>3 DEF f
<1>7. CASE x.key # Buttons!NoKey
  <2> DEFINE k == x.key
  <2>1. k \in EfiKeys /\ x.ring = Buttons!Store(ring, k)
    BY <1>2, <1>4, <1>7
  <2> HIDE DEF k
  <2>2. /\ Buttons!Store(ring, k) \in Buttons!Ring /\ Buttons!Store(tring, k) \in Buttons!Ring
        /\ Between(ring.rd, ring.wr) # RingSize - 1 =>
             Buttons!RingContents(Buttons!Store(ring, k)) = Append(Buttons!RingContents(ring), k)
    BY <1>1, <2>1, Stored
  <2>3. Append(unread, k) \in Seq(EfiKeys) /\ Append(unread, k) # <<>>
    <3>1. Append(unread, k) \in Seq(EfiKeys) /\ Len(Append(unread, k)) = Len(unread) + 1
      BY <1>1, <2>1, AppendProperties
    <3>2. Len(unread) \in Nat
      BY <1>1, LenProperties
    <3> QED BY <3>1, <3>2, EmptySeq
  <2>4. <<>> \in Seq(EfiKeys)
    OBVIOUS
  <2>5. f = IF overrun' THEN <<>> ELSE Append(unread, k)
    BY <1>5, <1>7 DEF k
  <2>6. f \in Seq(EfiKeys) /\ (~overrun' => f # <<>>)
    <3> HIDE DEF EfiKeys
    <3> QED BY <2>3, <2>4, <2>5
  <2>7. ASSUME ~overrun'
        PROVE  Buttons!RingContents(x.ring) = f
    <3>1. ~overrun /\ Len(unread) # RingSize - 1
      BY <1>3, <1>7, <2>7
    <3>2. Buttons!RingContents(ring) = unread
      BY <1>1, <3>1
    <3>3. Len(Buttons!RingContents(ring)) = Between(ring.rd, ring.wr)
      BY <1>1, RingOf
    <3> QED BY <2>1, <2>2, <2>5, <2>7, <3>1, <3>2, <3>3
  <2>8. x.ring \in Buttons!Ring
    BY <2>1, <2>2
  <2>9. x.tring \in Buttons!Ring
    BY <1>1, <1>2, <2>2 DEF k
  <2> QED BY <2>6, <2>7, <2>8, <2>9 DEF f
<1> QED BY <1>6, <1>7

\* At first there is neither a button nor a key.
LEMMA BtnNew ==
    /\ Buttons!NewRing \in Buttons!Ring
    /\ Buttons!RingContents(Buttons!NewRing) = <<>>
    /\ Cardinality({}) = 0
<1> DEFINE r == Buttons!NewRing
<1>1. RingSize \in Nat /\ RingSize > 1
  BY DevicesAssumption DEF Buttons!ButtonsAssumption
<1>2. r \in Buttons!Ring /\ r.rd = 0 /\ r.wr = 0
  BY <1>1 DEF Buttons!NewRing, Buttons!Ring, Buttons!Slots
<1> HIDE DEF r
<1>3. Buttons!RingContents(r) \in Seq(RingKeys) /\ Len(Buttons!RingContents(r)) = 0
  BY <1>2, RingOf DEF Between
<1>4. Buttons!RingContents(r) = <<>>
  BY <1>3, EmptySeq
<1> QED BY <1>2, <1>4, FS_EmptySet DEF r

\* Initially the invariant holds.
LEMMA BtnInit == Buttons!Init => BtnInv
<1> SUFFICES ASSUME Buttons!Init PROVE BtnInv
  OBVIOUS
<1>1. /\ held \subseteq KeyMap /\ prev = {} /\ pressed = {} /\ npressed = 0
      /\ detected = FALSE /\ given = 0 /\ ring = Buttons!NewRing /\ tring = Buttons!NewRing
      /\ list = <<>> /\ running = FALSE /\ timer = "idle" /\ unread = <<>> /\ overrun = FALSE
      /\ place = "idle" /\ torn = FALSE
  BY DEF Buttons!Init
<1>2. <<>> \in Seq(ButtonPatterns)
  OBVIOUS
<1>3. <<>> \in Seq(Buttons!EfiKeys)
  OBVIOUS
<1>4. Buttons!TypeOK
  <2> HIDE DEF Buttons!EfiKeys
  <2>1. held \subseteq KeyMap /\ prev \subseteq KeyMap /\ pressed \subseteq KeyMap
    BY <1>1
  <2>2. npressed = 0 /\ given = 0
    BY <1>1
  <2>3. detected \in BOOLEAN
    BY <1>1
  <2>4. npressed \in 0 .. 255 /\ given \in Nat
    BY <2>2
  <2>5. ring \in Buttons!Ring /\ tring \in Buttons!Ring
    BY <1>1, BtnNew
  <2>6. list \in Seq(ButtonPatterns)
    BY <1>1, <1>2
  <2>7. running \in BOOLEAN /\ timer \in {"idle", "armed", "closed"} /\ overrun \in BOOLEAN
    BY <1>1
  <2>8. unread \in Seq(Buttons!EfiKeys)
    BY <1>1, <1>3
  <2>9. place \in Buttons!Places /\ torn \in BOOLEAN
    BY <1>1 DEF Buttons!Places
  <2> QED BY <2>1, <2>5, <2>6, <2>7, <2>8, <2>9, <2>3, <2>4 DEF Buttons!TypeOK
<1>5. Buttons!NoKeyLost
  BY <1>1, BtnNew DEF Buttons!NoKeyLost
<1>6. BtnCount
  BY <1>1, BtnNew DEF BtnCount, Counted, Buttons!ResetPlaces
<1> QED BY <1>4, <1>5, <1>6 DEF BtnInv

\* A step that polls leaves a sound count and sound rings.
LEMMA BtnPolls ==
    ASSUME BtnInv, NEW x \in Buttons!Polls, Buttons!Polled(x),
           UNCHANGED <<held, list, running, timer>>,
           \/ place \notin Buttons!ResetPlaces /\ UNCHANGED <<place, torn>>
           \/ torn' = TRUE /\ place' = x.place,
           ring' \in Buttons!Ring, tring' \in Buttons!Ring, unread' \in Seq(EfiKeys),
           ~overrun' => Buttons!RingContents(ring') = unread'
    PROVE  BtnInv'
<1>1. /\ prev' \subseteq KeyMap /\ pressed' \subseteq KeyMap
      /\ npressed' \in 0 .. 255 /\ detected' \in BOOLEAN /\ overrun' \in BOOLEAN
      /\ given' \in Nat /\ (Counted => Counted')
  BY PolledOf
<1>5. place' \in Buttons!Places /\ torn' \in BOOLEAN
  BY PollOf DEF BtnInv, Buttons!TypeOK
<1>2. Buttons!TypeOK'
  BY <1>1, <1>5 DEF BtnInv, Buttons!TypeOK, Buttons!Places, Buttons!ResetPlaces, EfiKeys
<1>3. Buttons!NoKeyLost'
  <2>1. Buttons!RingContents(ring)' = Buttons!RingContents(ring')
    BY DEF Buttons!RingContents
  <2> QED BY <2>1 DEF Buttons!NoKeyLost
<1>4. ASSUME ~torn' PROVE BtnCount'
  <2>1. place \notin Buttons!ResetPlaces /\ place' = place /\ ~torn
    BY <1>4
  <2>2. place \in Buttons!Places
    BY DEF BtnInv, Buttons!TypeOK
  <2>3. Counted
    BY <2>1, <2>2 DEF BtnInv, BtnCount
  <2>4. Counted'
    BY <1>1, <2>3
  <2> QED BY <2>1, <2>2, <2>4 DEF BtnCount, Buttons!Places, Buttons!ResetPlaces
<1> QED BY <1>2, <1>3, <1>4 DEF BtnInv

\* The event is for whoever waits: the key stays.
LEMMA BtnWait ==
    ASSUME BtnInv, NEW x \in Buttons!Polls, Buttons!WaitForKeyCallback(x)
    PROVE  BtnInv'
<1>1. /\ Buttons!Polled(x) /\ UNCHANGED <<held, list, running, timer, place, torn>>
      /\ place \notin Buttons!ResetPlaces
      /\ ring' = x.ring /\ tring' = x.tring /\ unread' = Buttons!Found(x)
  BY DEF Buttons!WaitForKeyCallback, Buttons!notify, Buttons!ResetPlaces
<1>2. /\ ring' \in Buttons!Ring /\ tring' \in Buttons!Ring /\ unread' \in Seq(EfiKeys)
      /\ ~overrun' => Buttons!RingContents(ring') = unread'
  BY <1>1, FoundOf
<1> QED BY <1>1, <1>2, BtnPolls

\* The first key found is read.
LEMMA BtnRead ==
    ASSUME BtnInv, NEW x \in Buttons!Polls, Buttons!KeysDxeReadKeyStroke(x)
    PROVE  BtnInv'
<1> DEFINE f == Buttons!Found(x)
           q == x.ring
<1>1. /\ Buttons!Polled(x) /\ UNCHANGED <<held, list, running, timer, place, torn>>
      /\ tring' = x.tring /\ place \notin Buttons!ResetPlaces
      /\ IF x.key # Buttons!NoKey \/ Buttons!IsKeyInBuffer(q)
         THEN /\ ring' = Buttons!Consume(q)
              /\ unread' = IF overrun' THEN <<>> ELSE Tail(f)
         ELSE ring' = q /\ unread' = unread
  BY DEF Buttons!KeysDxeReadKeyStroke, Buttons!notify, Buttons!ResetPlaces
<1>2. /\ q \in Buttons!Ring /\ tring' \in Buttons!Ring /\ f \in Seq(EfiKeys)
      /\ ~overrun' => Buttons!RingContents(q) = f
      /\ ~overrun' /\ x.key # Buttons!NoKey => f # <<>>
  BY <1>1, FoundOf
<1>3. f = IF overrun' THEN <<>>
          ELSE IF x.key = Buttons!NoKey THEN unread ELSE Append(unread, x.key)
  BY DEF Buttons!Found
<1> HIDE DEF f, q
<1>4. /\ Buttons!Consume(q) \in Buttons!Ring
      /\ Buttons!IsKeyInBuffer(q) =>
           /\ Buttons!RingContents(q) # <<>>
           /\ Buttons!RingContents(Buttons!Consume(q)) = Tail(Buttons!RingContents(q))
      /\ Buttons!RingContents(q) # <<>> => Buttons!IsKeyInBuffer(q)
  BY <1>2, Consumed
<1>5. unread \in Seq(EfiKeys)
  BY DEF BtnInv, Buttons!TypeOK, EfiKeys
<1>6. ring' \in Buttons!Ring
  BY <1>1, <1>2, <1>4
<1>7. unread' \in Seq(EfiKeys) /\ (~overrun' => Buttons!RingContents(ring') = unread')
  <2>1. CASE ~(x.key # Buttons!NoKey \/ Buttons!IsKeyInBuffer(q))
    BY <1>1, <1>2, <1>3, <1>5, <2>1
  <2>2. CASE /\ x.key # Buttons!NoKey \/ Buttons!IsKeyInBuffer(q)
             /\ ~overrun'
    <3>1. Buttons!IsKeyInBuffer(q) /\ f # <<>>
      BY <1>2, <1>4, <2>2
    <3>2. unread' = Tail(f) /\ Tail(f) \in Seq(EfiKeys)
      BY <1>1, <1>2, <2>2, <3>1, TailOf
    <3>3. Buttons!RingContents(Buttons!Consume(q)) = Tail(f) /\ ring' = Buttons!Consume(q)
      BY <1>1, <1>2, <1>4, <2>2, <3>1
    <3> QED BY <3>2, <3>3
  <2>3. CASE /\ x.key # Buttons!NoKey \/ Buttons!IsKeyInBuffer(q)
             /\ overrun'
    <3>1. unread' = <<>>
      BY <1>1, <2>3
    <3>2. <<>> \in Seq(EfiKeys)
      OBVIOUS
    <3> HIDE DEF EfiKeys
    <3> QED BY <2>3, <3>1, <3>2
  <2> QED BY <2>1, <2>2, <2>3
<1> QED BY <1>1, <1>2, <1>6, <1>7, BtnPolls

\* The timer takes from its own ring.
LEMMA BtnTimer ==
    ASSUME BtnInv, NEW x \in Buttons!Polls, Buttons!PollForKeyCallback(x)
    PROVE  BtnInv'
<1>1. /\ Buttons!Polled(x) /\ UNCHANGED <<held, list, running, timer>>
      /\ ring' = x.ring /\ unread' = Buttons!Found(x)
      /\ tring' \in {x.tring, Buttons!Consume(x.tring)}
      /\ place' = x.place /\ torn' = (torn \/ place \in Buttons!ResetPlaces)
  BY DEF Buttons!PollForKeyCallback, Buttons!notify
<1>4. \/ place \notin Buttons!ResetPlaces /\ UNCHANGED <<place, torn>>
      \/ torn' = TRUE /\ place' = x.place
  <2>1. torn \in BOOLEAN /\ (place \notin Buttons!ResetPlaces => x.place = place)
    BY PollOf DEF BtnInv, Buttons!TypeOK
  <2> QED BY <1>1, <2>1
<1>2. /\ ring' \in Buttons!Ring /\ x.tring \in Buttons!Ring /\ unread' \in Seq(EfiKeys)
      /\ ~overrun' => Buttons!RingContents(ring') = unread'
  BY <1>1, FoundOf
<1>3. tring' \in Buttons!Ring
  BY <1>1, <1>2, Consumed
<1> QED BY <1>1, <1>2, <1>3, <1>4, BtnPolls

\* Whoever registers, unregisters or presses finds no key.
LEMMA BtnElse ==
    ASSUME BtnInv,
           UNCHANGED <<prev, pressed, npressed, detected, given, ring, unread, overrun, torn>>,
           held' \subseteq KeyMap, tring' \in Buttons!Ring, list' \in Seq(ButtonPatterns),
           running' \in BOOLEAN, timer' \in {"idle", "armed", "closed"},
           \/ place' = place
           \/ {place, place'} \subseteq Buttons!Places \ Buttons!ResetPlaces
    PROVE  BtnInv'
<1>1. Buttons!TypeOK'
  BY DEF BtnInv, Buttons!TypeOK, Buttons!Places, Buttons!ResetPlaces
<1>2. Buttons!NoKeyLost'
  BY DEF BtnInv, Buttons!NoKeyLost, Buttons!RingContents
<1>3. ASSUME ~torn' PROVE BtnCount'
  <2>1. BtnCount /\ (Counted => Counted')
    BY <1>3 DEF BtnInv, Counted
  <2> QED BY <2>1 DEF BtnCount, Buttons!Places, Buttons!ResetPlaces
<1> QED BY <1>1, <1>2, <1>3 DEF BtnInv

\* The list of notifications, and the timer that serves it.
LEMMA BtnNotify ==
    ASSUME BtnInv,
           \/ \E k \in ButtonPatterns : Buttons!KeysDxeRegisterKeyNotify(k)
           \/ \E i \in DOMAIN list : Buttons!KeysDxeUnregisterKeyNotify(i)
           \/ Buttons!StartTimer \/ Buttons!CloseTimer
    PROVE  BtnInv'
<1> DEFINE same == UNCHANGED <<prev, pressed, npressed, detected, given, ring, unread, overrun,
                               torn>>
           rest == {place, place'} \subseteq Buttons!Places \ Buttons!ResetPlaces
<1>1. /\ held \subseteq KeyMap /\ tring \in Buttons!Ring /\ list \in Seq(ButtonPatterns)
      /\ running \in BOOLEAN /\ timer \in {"idle", "armed", "closed"}
  BY DEF BtnInv, Buttons!TypeOK
<1>2. CASE \E k \in ButtonPatterns : Buttons!KeysDxeRegisterKeyNotify(k)
  <2>1. PICK k \in ButtonPatterns : Buttons!KeysDxeRegisterKeyNotify(k)
    BY <1>2
  <2>2. /\ same /\ held' = held /\ tring' = tring /\ list' = Append(list, k)
        /\ timer' = timer /\ running' = running
    BY <2>1 DEF Buttons!KeysDxeRegisterKeyNotify, Buttons!buttons
  <2>3. list' \in Seq(ButtonPatterns)
    BY <1>1, <2>2, AppendProperties
  <2>4. rest
    BY <2>1 DEF Buttons!KeysDxeRegisterKeyNotify, Buttons!Places, Buttons!ResetPlaces
  <2> QED BY <1>1, <2>2, <2>3, <2>4, BtnElse
<1>3. CASE \E i \in DOMAIN list : Buttons!KeysDxeUnregisterKeyNotify(i)
  <2>1. PICK i \in DOMAIN list : Buttons!KeysDxeUnregisterKeyNotify(i)
    BY <1>3
  <2> DEFINE front == SubSeq(list, 1, i - 1)
             back  == SubSeq(list, i + 1, Len(list))
  <2>2. /\ same /\ held' = held /\ list' = front \o back
        /\ tring' = tring /\ timer' = timer /\ running' = running
    BY <2>1 DEF Buttons!KeysDxeUnregisterKeyNotify, Buttons!buttons
  <2>6. rest
    BY <2>1 DEF Buttons!KeysDxeUnregisterKeyNotify, Buttons!Places, Buttons!ResetPlaces
  <2>3. /\ Len(list) \in Nat /\ i \in 1 .. Len(list)
        /\ \A j \in 1 .. Len(list) : list[j] \in ButtonPatterns
    BY <1>1, LenProperties
  <2>4. front \in Seq(ButtonPatterns) /\ back \in Seq(ButtonPatterns)
    BY <1>1, <2>3, SubSeqProperties
  <2> HIDE DEF front, back
  <2>5. list' \in Seq(ButtonPatterns)
    BY <2>2, <2>4, ConcatProperties
  <2> QED BY <1>1, <2>2, <2>5, <2>6, BtnElse
<1>4. CASE Buttons!StartTimer
  <2>1. /\ same /\ held' = held /\ tring' = tring /\ list' = list
        /\ timer' \in {timer, "armed"} /\ running' \in {running, TRUE}
    BY <1>4 DEF Buttons!StartTimer, Buttons!buttons
  <2>2. rest
    BY <1>4 DEF Buttons!StartTimer, Buttons!Places, Buttons!ResetPlaces
  <2> QED BY <1>1, <2>1, <2>2, BtnElse
<1>5. CASE Buttons!CloseTimer
  <2>1. /\ same /\ held' = held /\ tring' = Buttons!NewRing /\ list' = list
        /\ timer' = "closed" /\ running' = FALSE
    BY <1>5 DEF Buttons!CloseTimer, Buttons!buttons
  <2>2. rest
    BY <1>5 DEF Buttons!CloseTimer, Buttons!Places, Buttons!ResetPlaces
  <2> QED BY <1>1, <2>1, <2>2, BtnNew, BtnElse
<1> QED BY <1>2, <1>3, <1>4, <1>5

\* A step of Reset behind its first leaves the readers' ring alone.
LEMMA BtnResetStep ==
    ASSUME BtnInv, UNCHANGED <<held, list, running, timer, ring, unread, overrun, torn>>,
           prev' \in {prev, {}}, pressed' \in {pressed, {}}, npressed' \in {npressed, 0},
           detected' \in {detected, FALSE}, given' \in {given, 0},
           tring' \in Buttons!Ring, place' \in Buttons!Places,
           ~torn => BtnCount'
    PROVE  BtnInv'
<1>0. Buttons!TypeOK
  BY DEF BtnInv
<1>1. Buttons!TypeOK'
  <2>1. detected' \in BOOLEAN
    BY <1>0 DEF Buttons!TypeOK
  <2>2. /\ prev' \subseteq KeyMap /\ pressed' \subseteq KeyMap
        /\ npressed' \in 0 .. 255 /\ given' \in Nat
    BY <1>0 DEF Buttons!TypeOK
  <2>3. Buttons!Places' = Buttons!Places
    BY DEF Buttons!Places, Buttons!ResetPlaces
  <2> QED BY <1>0, <2>1, <2>2, <2>3 DEF Buttons!TypeOK
<1>2. Buttons!NoKeyLost'
  BY DEF BtnInv, Buttons!NoKeyLost, Buttons!RingContents
<1> QED BY <1>1, <1>2 DEF BtnInv

\* Reset begins with the readers' ring, and forgets what interrupted the one before.
LEMMA BtnResetBegins ==
    ASSUME BtnInv, Buttons!KeysDxeReset
    PROVE  BtnInv'
<1>1. /\ UNCHANGED <<held, list, running, timer, prev, pressed, npressed, detected, given, tring>>
      /\ place = "idle" /\ place' = "count" /\ torn' = FALSE
      /\ ring' = Buttons!NewRing /\ unread' = <<>> /\ overrun' = FALSE
  BY DEF Buttons!KeysDxeReset, Buttons!Advance, Buttons!notify, Buttons!buttons
<1>2. <<>> \in Seq(EfiKeys)
  OBVIOUS
<1>3. Buttons!TypeOK'
  <2> HIDE DEF EfiKeys
  <2>1. ring' \in Buttons!Ring
    BY <1>1, BtnNew
  <2>2. unread' \in Seq(EfiKeys) /\ overrun' \in BOOLEAN /\ torn' \in BOOLEAN
    BY <1>1, <1>2
  <2>3. place' \in Buttons!Places
    BY <1>1 DEF Buttons!Places, Buttons!ResetPlaces
  <2>4. /\ held \subseteq KeyMap /\ prev \subseteq KeyMap /\ pressed \subseteq KeyMap
        /\ npressed \in 0 .. 255 /\ detected \in BOOLEAN /\ given \in Nat
        /\ tring \in Buttons!Ring /\ list \in Seq(ButtonPatterns) /\ running \in BOOLEAN
        /\ timer \in {"idle", "armed", "closed"}
    BY DEF BtnInv, Buttons!TypeOK
  <2>5. Buttons!EfiKeys = EfiKeys
    BY DEF EfiKeys
  <2> HIDE DEF BtnInv
  <2> QED BY <1>1, <2>1, <2>2, <2>3, <2>4, <2>5 DEF Buttons!TypeOK
<1>4. Buttons!NoKeyLost'
  <2>1. Buttons!RingContents(ring)' = Buttons!RingContents(ring')
    BY DEF Buttons!RingContents
  <2> QED BY <1>1, <2>1, BtnNew DEF Buttons!NoKeyLost
<1>5. BtnCount'
  BY <1>1 DEF BtnCount, Buttons!ResetPlaces
<1> QED BY <1>3, <1>4, <1>5 DEF BtnInv

\* Reset forgets everything that was pressed and read.
LEMMA BtnReset ==
    ASSUME BtnInv, Buttons!ResetSteps
    PROVE  BtnInv'
<1> DEFINE same == UNCHANGED <<held, list, running, timer, ring, unread, overrun, torn>>
<1> USE DEF Buttons!Advance, Buttons!notify, Buttons!buttons
<1>0. /\ tring \in Buttons!Ring
      /\ ~torn => BtnCount
  BY DEF BtnInv, Buttons!TypeOK
<1>1. CASE Buttons!KeysDxeReset
  BY <1>1, BtnResetBegins
<1>2. CASE Buttons!ResetCount
  <2>1. /\ same /\ UNCHANGED <<prev, pressed, detected, given, tring>> /\ npressed' = 0
        /\ place = "count" /\ place' = "ring"
    BY <1>2 DEF Buttons!ResetCount
  <2>2. place' \in Buttons!Places /\ (~torn => BtnCount')
    BY <2>1 DEF BtnCount, Buttons!Places, Buttons!ResetPlaces
  <2> QED BY <1>0, <2>1, <2>2, BtnResetStep
<1>3. CASE Buttons!ResetTimerRing
  <2>1. /\ same /\ UNCHANGED <<prev, pressed, npressed, detected, given>>
        /\ \/ place = "ring" /\ place' = "reader" /\ tring' = [tring EXCEPT !.wr = 0]
           \/ place = "reader" /\ place' = "matrices" /\ tring' = [tring EXCEPT !.rd = 0]
    BY <1>3 DEF Buttons!ResetTimerRing
  <2>2. tring' \in Buttons!Ring
    BY <1>0, <2>1, DevicesAssumption DEF Buttons!Ring, Buttons!Slots, Buttons!ButtonsAssumption
  <2>3. place' \in Buttons!Places /\ (~torn => BtnCount')
    BY <1>0, <2>1 DEF BtnCount, Buttons!Places, Buttons!ResetPlaces
  <2> QED BY <2>1, <2>2, <2>3, BtnResetStep
<1>4. CASE Buttons!ResetMatrixA
  <2>1. /\ same /\ UNCHANGED <<pressed, npressed, detected, given, tring>>
        /\ place = "matrices"
        /\ \/ place' = "currLeft" /\ prev' = {}
           \/ place' = "prevLeft" /\ prev' = prev
    BY <1>4 DEF Buttons!ResetMatrixA
  <2>2. place' \in Buttons!Places /\ (~torn => BtnCount')
    BY <1>0, <2>1 DEF BtnCount, Buttons!Places, Buttons!ResetPlaces
  <2> QED BY <1>0, <2>1, <2>2, BtnResetStep
<1>5. CASE Buttons!ResetMatrixB
  <2>1. /\ same /\ UNCHANGED <<pressed, npressed, detected, given, tring>>
        /\ place' = "pressed"
        /\ \/ place = "prevLeft" /\ prev' = {}
           \/ place = "currLeft" /\ prev' = prev
    BY <1>5 DEF Buttons!ResetMatrixB
  <2>2. place' \in Buttons!Places /\ (~torn => BtnCount')
    BY <1>0, <2>1 DEF BtnCount, Buttons!Places, Buttons!ResetPlaces
  <2> QED BY <1>0, <2>1, <2>2, BtnResetStep
<1>6. CASE Buttons!ResetPressed
  <2>1. /\ same /\ UNCHANGED <<prev, npressed, detected, given, tring>>
        /\ place = "pressed" /\ place' = "detection" /\ pressed' = {}
    BY <1>6 DEF Buttons!ResetPressed
  <2>2. place' \in Buttons!Places /\ (~torn => BtnCount')
    BY <1>0, <2>1 DEF BtnCount, Buttons!Places, Buttons!ResetPlaces
  <2> QED BY <1>0, <2>1, <2>2, BtnResetStep
<1>7. CASE Buttons!ResetDetection
  <2>1. /\ same /\ UNCHANGED <<prev, pressed, npressed, tring>>
        /\ place = "detection" /\ place' = "idle" /\ detected' = FALSE /\ given' = 0
    BY <1>7 DEF Buttons!ResetDetection
  <2>2. place' \in Buttons!Places
    BY <2>1 DEF Buttons!Places
  <2>3. ASSUME ~torn PROVE BtnCount'
    <3>1. npressed = 0 /\ prev = {} /\ pressed = {}
      BY <1>0, <2>1, <2>3 DEF BtnCount, Buttons!ResetPlaces
    <3>2. Counted'
      BY <2>1, <3>1, BtnNew DEF Counted
    <3> QED BY <2>1, <3>2 DEF BtnCount, Buttons!ResetPlaces
  <2> QED BY <1>0, <2>1, <2>2, <2>3, BtnResetStep
<1> QED BY <1>1, <1>2, <1>3, <1>4, <1>5, <1>6, <1>7 DEF Buttons!ResetSteps

\* Every step of the button driver keeps the invariant.
LEMMA BtnStep == BtnInv /\ [Buttons!Next]_(Buttons!vars) => BtnInv'
<1> SUFFICES ASSUME BtnInv, [Buttons!Next]_(Buttons!vars)
             PROVE  BtnInv'
  OBVIOUS
<1>0. /\ held \subseteq KeyMap /\ tring \in Buttons!Ring /\ list \in Seq(ButtonPatterns)
      /\ running \in BOOLEAN /\ timer \in {"idle", "armed", "closed"}
  BY DEF BtnInv, Buttons!TypeOK
<1>1. CASE \E x \in Buttons!Polls : \/ Buttons!WaitForKeyCallback(x)
                                    \/ Buttons!KeysDxeReadKeyStroke(x)
                                    \/ Buttons!PollForKeyCallback(x)
  BY <1>1, BtnWait, BtnRead, BtnTimer
<1>2. CASE Buttons!ResetSteps
  BY <1>2, BtnReset
<1>3. CASE \/ \E k \in ButtonPatterns : Buttons!KeysDxeRegisterKeyNotify(k)
           \/ \E i \in DOMAIN list : Buttons!KeysDxeUnregisterKeyNotify(i)
           \/ Buttons!StartTimer \/ Buttons!CloseTimer
  BY <1>3, BtnNotify
<1>4. CASE Buttons!User
  <2>1. /\ held' \subseteq KeyMap
        /\ UNCHANGED <<prev, pressed, npressed, detected, given, ring, unread, overrun, torn>>
        /\ UNCHANGED <<tring, list, running, timer, place>>
    BY <1>4 DEF Buttons!User, Buttons!buttons, Buttons!notify
  <2> QED BY <1>0, <2>1, BtnElse
<1>5. CASE UNCHANGED Buttons!vars
  <2>1. UNCHANGED <<held, prev, pressed, npressed, detected, given, ring, tring, list, running,
                    timer, place, torn, unread, overrun>>
    BY <1>5 DEF Buttons!vars, Buttons!buttons, Buttons!notify
  <2> QED BY <1>0, <2>1, BtnElse
<1> QED BY <1>1, <1>2, <1>3, <1>4, <1>5 DEF Buttons!Next

\* Unless the timer polled in the middle of the latest Reset, a press session of
\* buttons gives one key at most and the driver's list and count of the buttons are
\* right when it is at rest; and until the ring runs over the readers get every key
\* that was found, whatever buttons there are and however long the ring is.
THEOREM ButtonsGiveKeys == Buttons!Spec => []ButtonKeys
<1>1. BtnInv => ButtonKeys
  <2>1. ASSUME BtnInv, place = "idle", ~torn
        PROVE  Counted
    BY <2>1 DEF BtnInv, BtnCount, Buttons!Places, Buttons!ResetPlaces
  <2> QED BY <2>1, CardinalityOf DEF BtnInv, Counted, ButtonKeys, Buttons!OneKeyPerSession
<1>2. Buttons!Init => BtnInv
  BY BtnInit
<1>3. BtnInv /\ [Buttons!Next]_(Buttons!vars) => BtnInv'
  BY BtnStep
<1> QED
  BY <1>1, <1>2, <1>3, PTL DEF Buttons!Spec
=============================================================================
