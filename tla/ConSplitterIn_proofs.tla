------------------------ MODULE ConSplitterIn_proofs ------------------------
(***************************************************************************)
(* ConSplitterIn: the buffers suffice and the lists are sound, whichever    *)
(* allocation failed; every keyboard reports partial keys; and, if no       *)
(* client's pattern covers another's, every notification is registered on   *)
(* every keyboard.                                                         *)
(***************************************************************************)
EXTENDS ConSplitterIn, SequenceTheorems, FiniteSetTheorems, TLAPS

(***************************************************************************)
(* Sequences.                                                              *)
(***************************************************************************)

HandleSlots == DeviceHandles \cup {NoHandle}

\* A function on 1 .. n is a sequence of length n.
LEMMA FunctionIsSeq ==
    ASSUME NEW S, NEW n \in Nat, NEW f \in [1 .. n -> S]
    PROVE  f \in Seq(S) /\ Len(f) = n
<1>1. f \in Seq(S)
  BY SeqDef
<1>2. DOMAIN f = 1 .. n /\ DOMAIN f = 1 .. Len(f) /\ Len(f) \in Nat
  BY <1>1, LenProperties
<1> QED BY <1>1, <1>2

\* The elements behind the one that is removed move up.
LEMMA Removed ==
    ASSUME NEW S, NEW s \in Seq(S), NEW k \in DOMAIN s
    PROVE  /\ RemoveAt(s, k) \in Seq(S)
           /\ Len(RemoveAt(s, k)) = Len(s) - 1
           /\ \A i \in 1 .. Len(s) - 1 :
                RemoveAt(s, k)[i] = IF i < k THEN s[i] ELSE s[i + 1]
<1> DEFINE front == SubSeq(s, 1, k - 1)
           back  == SubSeq(s, k + 1, Len(s))
<1>1. Len(s) \in Nat /\ k \in 1 .. Len(s) /\ \A i \in 1 .. Len(s) : s[i] \in S
  BY LenProperties
<1>2. /\ front \in Seq(S) /\ Len(front) = k - 1
      /\ \A i \in 1 .. k - 1 : front[i] = s[i]
  BY <1>1, SubSeqProperties
<1>3. /\ back \in Seq(S) /\ Len(back) = Len(s) - k
      /\ \A i \in 1 .. Len(s) - k : back[i] = s[k + i]
  <2>1. /\ back \in Seq(S)
        /\ Len(back) = IF k + 1 <= Len(s) THEN Len(s) - (k + 1) + 1 ELSE 0
        /\ \A i \in 1 .. Len(s) - (k + 1) + 1 : back[i] = s[(k + 1) + i - 1]
    BY <1>1, SubSeqProperties
  <2> QED BY <1>1, <2>1
<1>4. RemoveAt(s, k) = front \o back
  BY DEF RemoveAt
<1> HIDE DEF front, back
<1>5. /\ front \o back \in Seq(S)
      /\ Len(front \o back) = Len(s) - 1
  BY <1>1, <1>2, <1>3, ConcatProperties
<1>6. \A i \in 1 .. Len(front) + Len(back) :
         (front \o back)[i] = IF i <= Len(front) THEN front[i] ELSE back[i - Len(front)]
  BY <1>2, <1>3, ConcatProperties
<1>7. ASSUME NEW i \in 1 .. Len(s) - 1
      PROVE  (front \o back)[i] = IF i < k THEN s[i] ELSE s[i + 1]
  <2>1. (front \o back)[i] = IF i <= k - 1 THEN front[i] ELSE back[i - (k - 1)]
    <3>1. i \in 1 .. Len(front) + Len(back)
      BY <1>1, <1>2, <1>3
    <3> QED BY <1>2, <1>6, <3>1
  <2>2. CASE i < k
    <3>1. i \in 1 .. k - 1
      BY <1>1, <2>2
    <3> QED BY <1>2, <2>1, <2>2, <3>1
  <2>3. CASE ~(i < k)
    <3>1. i - (k - 1) \in 1 .. Len(s) - k /\ k + (i - (k - 1)) = i + 1 /\ ~(i <= k - 1)
      BY <1>1, <2>3
    <3>2. back[i - (k - 1)] = s[k + (i - (k - 1))]
      BY <1>3, <3>1
    <3> QED BY <2>1, <2>3, <3>1, <3>2
  <2> QED BY <2>2, <2>3
<1> QED BY <1>4, <1>5, <1>7

\* What is held after the removal of an element that is there only once.
LEMMA HeldRemoved ==
    ASSUME NEW S, NEW s \in Seq(S), NEW k \in DOMAIN s, IsInjective(s)
    PROVE  /\ IsInjective(RemoveAt(s, k))
           /\ Held(RemoveAt(s, k)) = Held(s) \ {s[k]}
<1> DEFINE t == RemoveAt(s, k)
<1>1. /\ Len(s) \in Nat /\ DOMAIN s = 1 .. Len(s) /\ k \in 1 .. Len(s)
      /\ t \in Seq(S) /\ DOMAIN t = 1 .. Len(s) - 1
      /\ \A i \in 1 .. Len(s) - 1 : t[i] = IF i < k THEN s[i] ELSE s[i + 1]
  BY Removed, LenProperties
<1>2. \A i, j \in 1 .. Len(s) : s[i] = s[j] => i = j
  BY <1>1 DEF IsInjective
<1> HIDE DEF t
<1>3. IsInjective(t)
  <2> SUFFICES ASSUME NEW i \in 1 .. Len(s) - 1, NEW j \in 1 .. Len(s) - 1, t[i] = t[j]
               PROVE  i = j
    BY <1>1 DEF IsInjective
  <2>1. /\ i \in 1 .. Len(s) /\ i + 1 \in 1 .. Len(s)
        /\ j \in 1 .. Len(s) /\ j + 1 \in 1 .. Len(s)
    BY <1>1
  <2>2. CASE i < k /\ j < k
    BY <1>1, <1>2, <2>1, <2>2
  <2>3. CASE i < k /\ ~(j < k)
    <3>1. s[i] = s[j + 1]
      BY <1>1, <2>3
    <3> QED BY <1>1, <1>2, <2>1, <2>3, <3>1
  <2>4. CASE ~(i < k) /\ j < k
    <3>1. s[i + 1] = s[j]
      BY <1>1, <2>4
    <3> QED BY <1>1, <1>2, <2>1, <2>4, <3>1
  <2>5. CASE ~(i < k) /\ ~(j < k)
    <3>1. s[i + 1] = s[j + 1]
      BY <1>1, <2>5
    <3> QED BY <1>1, <1>2, <2>1, <3>1
  <2> QED BY <2>2, <2>3, <2>4, <2>5
<1>4. ASSUME NEW x \in Held(t)
      PROVE  x \in Held(s) \ {s[k]}
  <2>1. PICK i \in 1 .. Len(s) - 1 : x = t[i]
    BY <1>1 DEF Held
  <2>2. PICK j \in 1 .. Len(s) : j # k /\ x = s[j]
    <3>1. CASE i < k
      BY <1>1, <2>1, <3>1
    <3>2. CASE ~(i < k)
      <4>1. i + 1 \in 1 .. Len(s) /\ i + 1 # k /\ x = s[i + 1]
        BY <1>1, <2>1, <3>2
      <4> QED BY <4>1
    <3> QED BY <3>1, <3>2
  <2> QED BY <1>1, <1>2, <2>2 DEF Held
<1>5. ASSUME NEW x \in Held(s) \ {s[k]}
      PROVE  x \in Held(t)
  <2>1. PICK j \in 1 .. Len(s) : x = s[j] /\ j # k
    BY <1>1 DEF Held
  <2>2. PICK i \in 1 .. Len(s) - 1 : x = t[i]
    <3>1. CASE j < k
      BY <1>1, <2>1, <3>1
    <3>2. CASE j > k
      <4>1. j - 1 \in 1 .. Len(s) - 1 /\ ~(j - 1 < k) /\ (j - 1) + 1 = j
        BY <1>1, <2>1, <3>2
      <4>2. t[j - 1] = s[j]
        BY <1>1, <4>1
      <4> QED BY <2>1, <4>1, <4>2
    <3> QED BY <1>1, <2>1, <3>1, <3>2
  <2> QED BY <1>1, <2>2 DEF Held
<1> QED BY <1>3, <1>4, <1>5 DEF t

\* What is held after an element is appended that was not there.
LEMMA HeldAppended ==
    ASSUME NEW S, NEW s \in Seq(S), NEW d \in S
    PROVE  /\ Held(Append(s, d)) = Held(s) \cup {d}
           /\ IsInjective(s) /\ d \notin Held(s) => IsInjective(Append(s, d))
<1> DEFINE t == Append(s, d)
<1>1. /\ Len(s) \in Nat /\ DOMAIN s = 1 .. Len(s) /\ DOMAIN t = 1 .. Len(s) + 1
      /\ \A i \in 1 .. Len(s) : t[i] = s[i]
      /\ t[Len(s) + 1] = d
  BY AppendProperties, LenProperties
<1> HIDE DEF t
<1>2. \A i \in 1 .. Len(s) + 1 : i \in 1 .. Len(s) \/ i = Len(s) + 1
  BY <1>1
<1>3. Held(t) = Held(s) \cup {d}
  BY <1>1, <1>2 DEF Held
<1>4. IsInjective(s) /\ d \notin Held(s) => IsInjective(t)
  BY <1>1, <1>2 DEF IsInjective, Held
<1> QED BY <1>3, <1>4 DEF t

(***************************************************************************)
(* Registrations.                                                          *)
(***************************************************************************)

\* A registration covers itself.
LEMMA CoversSelf == \A r : Covers(r, r)
  BY DEF Covers, IsKeyRegistered

\* What a device returns the handle of is its own or the new registration.
LEMMA CoveringOf ==
    ASSUME NEW rs, NEW r
    PROVE  Covering(rs, r) \in rs \cup {r}
  BY DEF Covering

\* Registration adds registrations of the list to those of the device.
LEMMA RegisteredOnType ==
    ASSUME TypeOK, NEW d \in Devices, NEW k \in 0 .. Len(notify)
    PROVE  /\ RegisteredOn(d, k) \in SUBSET Regs
           /\ regs[d] \subseteq RegisteredOn(d, k)
<1>1. regs[d] \in SUBSET Regs
  BY DEF TypeOK
<1>2. \A i \in 1 .. k : notify[i].reg \in Regs
  <2>1. notify \in Seq(Notifies) /\ Len(notify) \in Nat /\ DOMAIN notify = 1 .. Len(notify)
    BY LenProperties DEF TypeOK
  <2>2. \A i \in 1 .. k : notify[i] \in Notifies
    BY <2>1, ElementOfSeq
  <2> QED BY <2>2 DEF Notifies
<1> QED BY <1>1, <1>2 DEF RegisteredOn

\* An entry whose handle list grew.
LEMMA GrownHandlesOf ==
    ASSUME NEW e \in Notifies, exCap \in Nat, Len(e.handles) >= exCap, ConInAssumption
    PROVE  /\ GrownHandles(e) \in Notifies
           /\ GrownHandles(e).reg = e.reg
           /\ Len(GrownHandles(e).handles) = Grown(exCap)
           /\ \A j \in 1 .. Grown(exCap) :
                GrownHandles(e).handles[j] =
                  IF j <= exCap THEN e.handles[j] ELSE NoHandle
<1> DEFINE h == [i \in 1 .. Grown(exCap) |-> IF i <= exCap THEN e.handles[i] ELSE NoHandle]
<1>1. e.handles \in Seq(HandleSlots) /\ Len(e.handles) \in Nat
  BY LenProperties DEF Notifies, HandleSlots
<1>2. Grown(exCap) \in Nat
  BY DEF Grown, ConInAssumption
<1>3. h \in [1 .. Grown(exCap) -> HandleSlots]
  <2>1. \A i \in 1 .. Grown(exCap) : i <= exCap => e.handles[i] \in HandleSlots
    BY <1>1, <1>2, ElementOfSeq
  <2> QED BY <2>1 DEF HandleSlots
<1>4. h \in Seq(HandleSlots) /\ Len(h) = Grown(exCap)
  BY <1>2, <1>3, FunctionIsSeq
<1>5. \A j \in 1 .. Grown(exCap) : h[j] = IF j <= exCap THEN e.handles[j] ELSE NoHandle
  OBVIOUS
<1>6. GrownHandles(e) = [e EXCEPT !.handles = h]
  BY DEF GrownHandles
<1> HIDE DEF h
<1> QED BY <1>4, <1>5, <1>6 DEF Notifies, HandleSlots

\* An entry after the registration on d: the new handle is one of d's.
LEMMA WithHandleOf ==
    ASSUME TypeOK, NEW e \in Notifies, NEW d \in ExDevices, NEW i \in 1 .. Len(notify),
           ConInAssumption
    PROVE  /\ WithHandle(e, d, i) \in Notifies
           /\ WithHandle(e, d, i).reg = e.reg
           /\ Len(WithHandle(e, d, i).handles) = Len(e.handles)
           /\ \A j \in 1 .. Len(e.handles) :
                WithHandle(e, d, i).handles[j] =
                  IF j = Len(exList) + 1 THEN HandleOf(d, RegisteredOn(d, i - 1), e.reg)
                                         ELSE e.handles[j]
<1> DEFINE n == Len(exList) + 1
           v == HandleOf(d, RegisteredOn(d, i - 1), e.reg)
           h == [e.handles EXCEPT ![n] = v]
<1>1. /\ e.handles \in Seq(HandleSlots) /\ Len(e.handles) \in Nat
      /\ DOMAIN e.handles = 1 .. Len(e.handles)
  BY LenProperties DEF Notifies, HandleSlots
<1>2. v \in HandleSlots
  <2>1. i - 1 \in 0 .. Len(notify)
    BY LenProperties DEF TypeOK
  <2>2. RegisteredOn(d, i - 1) \in SUBSET Regs
    BY <2>1, RegisteredOnType DEF ConInAssumption
  <2>3. e.reg \in Regs
    BY DEF Notifies
  <2>4. Covering(RegisteredOn(d, i - 1), e.reg) \in Regs
    BY <2>2, <2>3, CoveringOf
  <2> QED BY <2>4 DEF HandleOf, HandleSlots, DeviceHandles
<1>3. WithHandle(e, d, i) = [e EXCEPT !.handles = h]
  BY DEF WithHandle
<1> HIDE DEF v
<1>4. /\ h \in Seq(HandleSlots) /\ Len(h) = Len(e.handles)
      /\ \A j \in 1 .. Len(e.handles) : h[j] = IF j = n THEN v ELSE e.handles[j]
  <2>1. CASE n \in 1 .. Len(e.handles)
    BY <1>1, <1>2, <2>1, ExceptSeq
  <2>2. CASE n \notin 1 .. Len(e.handles)
    <3>1. h = e.handles
      BY <1>1, <2>2
    <3> QED BY <1>1, <2>2, <3>1
  <2> QED BY <2>1, <2>2
<1> HIDE DEF h
<1> QED BY <1>3, <1>4 DEF Notifies, HandleSlots, v

\* The pattern a client registers covers no other client's: the registrations a
\* keyboard holds are then told apart by what they match.
PatternsApart == \A p, q \in Patterns : IsKeyRegistered(p, q) => p = q

\* A registration covers no other one.
LEMMA CoversApart ==
    ASSUME PatternsApart, ConInAssumption, NEW o \in Regs, NEW r \in Regs, Covers(o, r)
    PROVE  o = r
<1>1. IsKeyRegistered(o.pattern, r.pattern) /\ o.fn = r.fn
  BY DEF Covers
<1>2. CASE o.fn = Sync
  <2>1. o.fn \notin Functions /\ r.fn \notin Functions
    BY <1>1, <1>2 DEF ConInAssumption
  <2>2. /\ o \in [pattern : {PartialKey}, fn : {Sync}]
        /\ r \in [pattern : {PartialKey}, fn : {Sync}]
    BY <2>1 DEF Regs
  <2>3. o.pattern = r.pattern /\ o.fn = r.fn
    BY <2>2
  <2> QED BY <2>2, <2>3
<1>3. CASE o.fn # Sync
  <2>1. /\ o \in [pattern : Patterns, fn : Functions]
        /\ r \in [pattern : Patterns, fn : Functions]
    BY <1>1, <1>3 DEF Regs
  <2>2. o.pattern = r.pattern
    BY <1>1, <2>1 DEF PatternsApart
  <2> QED BY <1>1, <2>1, <2>2
<1> QED BY <1>2, <1>3

\* A keyboard then returns the handle of the very registration it is asked for.
LEMMA CoveringApart ==
    ASSUME PatternsApart, ConInAssumption, NEW rs \in SUBSET Regs, NEW r \in Regs
    PROVE  Covering(rs, r) = r
<1>1. CASE \E o \in rs : Covers(o, r)
  <2>1. Covering(rs, r) \in rs /\ Covers(Covering(rs, r), r)
    BY <1>1 DEF Covering
  <2> QED BY <2>1, CoversApart
<1>2. CASE ~\E o \in rs : Covers(o, r)
  BY <1>2 DEF Covering
<1> QED BY <1>1, <1>2

(***************************************************************************)
(* The entries of the list.                                                *)
(***************************************************************************)

\* The handles an entry keeps are those of its own registration.
OwnHandles(e) ==
    \A j \in 1 .. Len(e.handles) : e.handles[j] # NoHandle => e.handles[j].reg = e.reg

\* The handle lists that are grown keep what they hold.
LEMMA GrownHandlesOwn ==
    ASSUME NEW e \in Notifies, exCap \in Nat, Len(e.handles) >= exCap, ConInAssumption,
           OwnHandles(e)
    PROVE  OwnHandles(GrownHandles(e))
<1>1. Len(e.handles) \in Nat /\ Grown(exCap) \in Nat
  BY LenProperties DEF Notifies, Grown, ConInAssumption
<1>2. ASSUME NEW j \in 1 .. Grown(exCap), GrownHandles(e).handles[j] # NoHandle
      PROVE  GrownHandles(e).handles[j].reg = e.reg
  <2>1. j <= exCap /\ GrownHandles(e).handles[j] = e.handles[j]
    BY <1>2, GrownHandlesOf
  <2>2. j \in 1 .. Len(e.handles)
    BY <1>1, <2>1
  <2> QED BY <1>2, <2>1, <2>2 DEF OwnHandles
<1> QED BY <1>2, GrownHandlesOf DEF OwnHandles

\* A handle that is added is that of the entry's own registration.
LEMMA WithHandleOwn ==
    ASSUME PatternsApart, TypeOK, NEW e \in Notifies, NEW d \in ExDevices,
           NEW i \in 1 .. Len(notify), ConInAssumption, OwnHandles(e)
    PROVE  OwnHandles(WithHandle(e, d, i))
<1> DEFINE v == HandleOf(d, RegisteredOn(d, i - 1), e.reg)
<1>1. v.reg = e.reg
  <2>1. i - 1 \in 0 .. Len(notify)
    BY LenProperties DEF TypeOK
  <2>2. RegisteredOn(d, i - 1) \in SUBSET Regs
    BY <2>1, RegisteredOnType DEF ConInAssumption
  <2>3. e.reg \in Regs
    BY DEF Notifies
  <2>4. Covering(RegisteredOn(d, i - 1), e.reg) = e.reg
    BY <2>2, <2>3, CoveringApart
  <2> QED BY <2>4 DEF HandleOf
<1> HIDE DEF v
<1>2. \A j \in 1 .. Len(e.handles) :
         WithHandle(e, d, i).handles[j] = IF j = Len(exList) + 1 THEN v ELSE e.handles[j]
  BY WithHandleOf DEF v
<1>3. WithHandle(e, d, i).reg = e.reg /\ Len(WithHandle(e, d, i).handles) = Len(e.handles)
  BY WithHandleOf
<1> QED BY <1>1, <1>2, <1>3 DEF OwnHandles

\* Nothing of the list is lost when it is given room.
LEMMA NotifyRoom ==
    ASSUME TypeOK, BuffersSuffice, ConInAssumption, NEW i \in 1 .. Len(notify)
    PROVE  /\ NotifyWithRoom[i] \in Notifies
           /\ NotifyWithRoom[i].reg = notify[i].reg
           /\ Len(NotifyWithRoom[i].handles) >= IF Room THEN exCap ELSE Grown(exCap)
           /\ OwnHandles(notify[i]) => OwnHandles(NotifyWithRoom[i])
<1>1. /\ notify \in Seq(Notifies) /\ DOMAIN notify = 1 .. Len(notify) /\ exCap \in Nat
      /\ notify[i] \in Notifies /\ Len(notify[i].handles) >= exCap
  BY ElementOfSeq, LenProperties DEF TypeOK, BuffersSuffice
<1>2. CASE Room
  BY <1>1, <1>2 DEF NotifyWithRoom
<1>3. CASE ~Room
  <2>1. NotifyWithRoom[i] = GrownHandles(notify[i])
    BY <1>1, <1>3 DEF NotifyWithRoom
  <2>2. Grown(exCap) \in Nat
    BY <1>1 DEF Grown, ConInAssumption
  <2>3. /\ GrownHandles(notify[i]) \in Notifies
        /\ GrownHandles(notify[i]).reg = notify[i].reg
        /\ Len(GrownHandles(notify[i]).handles) = Grown(exCap)
    BY <1>1, GrownHandlesOf
  <2>4. OwnHandles(notify[i]) => OwnHandles(GrownHandles(notify[i]))
    BY <1>1, GrownHandlesOwn
  <2> QED BY <1>3, <2>1, <2>2, <2>3, <2>4
<1> QED BY <1>2, <1>3

\* Each step of a device that joins leaves the list the same registrations, of
\* which each has a handle list as long as the devices need.
LEMMA NotifyKept ==
    ASSUME TypeOK, BuffersSuffice, ConInAssumption, NEW d \in Devices,
           StartExNoMemory(d) \/ StartExRefused(d) \/ StartEx(d)
    PROVE  /\ notify' \in Seq(Notifies)
           /\ Len(notify') = Len(notify)
           /\ \A i \in 1 .. Len(notify) :
                /\ notify'[i].reg = notify[i].reg
                /\ Len(notify'[i].handles) >= exCap'
                /\ PatternsApart /\ OwnHandles(notify[i]) => OwnHandles(notify'[i])
<1> DEFINE Kept(e, i) == /\ e \in Notifies
                         /\ e.reg = notify[i].reg
                         /\ Len(e.handles) >= exCap'
                         /\ PatternsApart /\ OwnHandles(notify[i]) => OwnHandles(e)
<1>1. /\ notify \in Seq(Notifies) /\ DOMAIN notify = 1 .. Len(notify) /\ exCap \in Nat
      /\ Len(notify) \in Nat
      /\ \A i \in 1 .. Len(notify) : notify[i] \in Notifies /\ Len(notify[i].handles) >= exCap
  BY ElementOfSeq, LenProperties DEF TypeOK, BuffersSuffice
<1>2. Grown(exCap) \in Nat /\ Grown(exCap) > exCap
  BY <1>1 DEF Grown, ConInAssumption
<1>3. ASSUME NEW i \in 1 .. Len(notify), StartExRefused(d) \/ StartEx(d)
      PROVE  Kept(NotifyWithRoom[i], i) /\ Kept(WithHandle(NotifyWithRoom[i], d, i), i)
  <2>1. exCap' = (IF Room THEN exCap ELSE Grown(exCap)) /\ d \in ExDevices
    BY <1>3 DEF StartExRefused, StartEx, ExRoom
  <2>2. Kept(NotifyWithRoom[i], i)
    BY <2>1, NotifyRoom
  <2>3. NotifyWithRoom[i] \in Notifies
    BY <2>2
  <2>4. /\ WithHandle(NotifyWithRoom[i], d, i) \in Notifies
        /\ WithHandle(NotifyWithRoom[i], d, i).reg = NotifyWithRoom[i].reg
        /\ Len(WithHandle(NotifyWithRoom[i], d, i).handles) = Len(NotifyWithRoom[i].handles)
    BY <2>1, <2>3, WithHandleOf
  <2>5. PatternsApart /\ OwnHandles(NotifyWithRoom[i])
          => OwnHandles(WithHandle(NotifyWithRoom[i], d, i))
    BY <2>1, <2>3, WithHandleOwn
  <2> QED BY <2>2, <2>4, <2>5
<1>4. ASSUME NEW i \in 1 .. Len(notify), StartExNoMemory(d)
      PROVE  Kept(notify[i], i) /\ Kept(GrownHandles(notify[i]), i)
  <2>1. exCap' = exCap
    BY <1>4 DEF StartExNoMemory
  <2>2. Kept(notify[i], i)
    BY <1>1, <2>1
  <2>3. /\ GrownHandles(notify[i]) \in Notifies
        /\ GrownHandles(notify[i]).reg = notify[i].reg
        /\ Len(GrownHandles(notify[i]).handles) = Grown(exCap)
    BY <1>1, GrownHandlesOf
  <2>4. OwnHandles(notify[i]) => OwnHandles(GrownHandles(notify[i]))
    BY <1>1, GrownHandlesOwn
  <2> QED BY <1>1, <1>2, <2>1, <2>2, <2>3, <2>4
<1>5. PICK f \in [1 .. Len(notify) -> Notifies] :
         notify' = f /\ \A i \in 1 .. Len(notify) : Kept(f[i], i)
  <2>1. CASE StartExNoMemory(d)
    <3>1. PICK k \in 0 .. Len(notify) :
             notify' = [i \in 1 .. Len(notify) |->
                          IF i <= k THEN GrownHandles(notify[i]) ELSE notify[i]]
      BY <1>1, <2>1 DEF StartExNoMemory
    <3>2. \A i \in 1 .. Len(notify) : Kept(notify'[i], i)
      BY <1>4, <2>1, <3>1
    <3> QED BY SMTT(40), <3>1, <3>2
  <2>2. CASE StartExRefused(d)
    <3>1. PICK k \in 0 .. Len(notify) - 1 :
             notify' = [i \in 1 .. Len(notify) |->
                          IF i <= k THEN WithHandle(NotifyWithRoom[i], d, i)
                                    ELSE NotifyWithRoom[i]]
      BY <1>1, <2>2 DEF StartExRefused
    <3>2. \A i \in 1 .. Len(notify) : Kept(notify'[i], i)
      BY <1>3, <2>2, <3>1
    <3> QED BY SMTT(40), <3>1, <3>2
  <2>3. CASE StartEx(d)
    <3>1. notify' = [i \in 1 .. Len(notify) |-> WithHandle(NotifyWithRoom[i], d, i)]
      BY <1>1, <2>3 DEF StartEx
    <3>2. \A i \in 1 .. Len(notify) : Kept(notify'[i], i)
      BY <1>3, <2>3, <3>1
    <3> QED BY <3>1, <3>2
  <2> QED BY <2>1, <2>2, <2>3
<1> QED BY <1>1, <1>5, FunctionIsSeq

\* The entry of a registration that every device took.
LEMMA NewEntryOf ==
    ASSUME TypeOK, BuffersSuffice, ConInAssumption, NEW r \in Regs, NEW n \in 0 .. Len(exList)
    PROVE  /\ NewEntry(r, n) \in Notifies
           /\ NewEntry(r, n).reg = r
           /\ Len(NewEntry(r, n).handles) = exCap
           /\ PatternsApart => OwnHandles(NewEntry(r, n))
<1> DEFINE h == [i \in 1 .. exCap |->
                   IF i <= n THEN HandleOf(exList[i], regs[exList[i]], r) ELSE NoHandle]
<1>1. exCap \in Nat /\ exList \in Seq(ExDevices) /\ Len(exList) \in Nat
  BY LenProperties DEF TypeOK
<1>2. ASSUME NEW i \in 1 .. exCap, i <= n
      PROVE  h[i] \in DeviceHandles /\ (PatternsApart => h[i].reg = r)
  <2>1. exList[i] \in ExDevices
    BY <1>1, <1>2, ElementOfSeq
  <2>2. regs[exList[i]] \in SUBSET Regs
    BY <2>1 DEF TypeOK, ConInAssumption
  <2>3. Covering(regs[exList[i]], r) \in Regs
    BY <2>2, CoveringOf
  <2>4. PatternsApart => Covering(regs[exList[i]], r) = r
    BY <2>2, CoveringApart
  <2>5. h[i] = [dev |-> exList[i], reg |-> Covering(regs[exList[i]], r)]
    BY <1>2 DEF HandleOf
  <2> HIDE DEF h
  <2> QED BY <2>1, <2>3, <2>4, <2>5 DEF DeviceHandles
<1>3. ASSUME NEW i \in 1 .. exCap, ~(i <= n)
      PROVE  h[i] = NoHandle
  BY <1>3
<1>4. h \in [1 .. exCap -> HandleSlots]
  BY <1>2, <1>3 DEF HandleSlots
<1>5. h \in Seq(HandleSlots) /\ Len(h) = exCap
  BY <1>1, <1>4, FunctionIsSeq
<1>6. NewEntry(r, n) = [reg |-> r, handles |-> h]
  BY DEF NewEntry
<1> HIDE DEF h
<1>7. PatternsApart => \A i \in 1 .. exCap : h[i] # NoHandle => h[i].reg = r
  BY <1>2, <1>3
<1> QED BY <1>5, <1>6, <1>7 DEF Notifies, HandleSlots, OwnHandles

(***************************************************************************)
(* Types.                                                                  *)
(***************************************************************************)

\* The states a toggle can be in.
LEMMA ToggleStates ==
    /\ Exposed \in Toggles /\ Cleared \in Toggles
    /\ Exposed.exposed = TRUE /\ Cleared.exposed = FALSE
  BY DEF Exposed, Cleared, Toggles

\* PhysicalKeyToggleState gets the state asked for, and always with the flag
\* that exposes partial keys.
LEMMA PhysicalStateOf ==
    ASSUME TypeOK
    PROVE  PhysicalState \in Toggles /\ PhysicalState.exposed = TRUE
<1>1. setting.to \in Toggles
  BY DEF TypeOK
<1>2. PhysicalState = [setting.to EXCEPT !.exposed = TRUE]
  BY DEF PhysicalState
<1> QED BY <1>1, <1>2 DEF Toggles

\* Every list starts with the types of the driver's structures.
LEMMA TypesInit == ASSUME ConInAssumption, Init PROVE TypeOK
<1>1. SyncEntry \in Notifies
  <2>1. [i \in 1 .. AllocUnit |-> NoHandle] \in Seq(HandleSlots)
    <3>1. AllocUnit \in Nat
      BY DEF ConInAssumption
    <3>2. [i \in 1 .. AllocUnit |-> NoHandle] \in [1 .. AllocUnit -> HandleSlots]
      BY DEF HandleSlots
    <3> QED BY <3>1, <3>2, FunctionIsSeq
  <2>2. [pattern |-> PartialKey, fn |-> Sync] \in Regs
    BY DEF Regs
  <2> QED BY <2>1, <2>2 DEF SyncEntry, Notifies, HandleSlots
<1>2. notify \in Seq(Notifies)
  BY <1>1 DEF Init
<1>3. exList \in Seq(ExDevices)
  BY EmptySeq DEF Init
<1>4. NotSetting \in [on : BOOLEAN, to : Toggles, index : Nat]
  BY ToggleStates DEF NotSetting
<1> QED
  BY <1>2, <1>3, <1>4, ToggleStates DEF Init, TypeOK, ConInAssumption

\* The lists and buffers keep their types when a device joins, leaves or is lost.
LEMMA TypesBinding ==
    ASSUME ConInAssumption, TypeOK, BuffersSuffice, BindingNext
    PROVE  TypeOK'
<1>1. PICK d \in Devices :
         \/ StartNoMemory(d) \/ StartPlain(d) \/ StartExNoMemory(d)
         \/ StartExRefused(d) \/ StartEx(d) \/ Stop(d) \/ Replug(d)
  BY DEF BindingNext
<1>2. /\ conCap \in Nat /\ exCap \in Nat /\ Grown(exCap) \in Nat /\ Grown(conCap) \in Nat
      /\ queueCap \in Nat
  BY DEF TypeOK, Grown, ConInAssumption
<1>3. CASE StartNoMemory(d)
  BY <1>3 DEF StartNoMemory, Open, TypeOK, exVars, toggles
<1>4. CASE StartPlain(d)
  BY <1>2, <1>4 DEF StartPlain, Open, TextInAddDevice, TypeOK, exVars, toggles
<1>5. CASE StartExNoMemory(d)
  <2>1. notify' \in Seq(Notifies)
    BY <1>5, NotifyKept
  <2>2. queueCap' \in Nat
    BY <1>2, <1>5 DEF StartExNoMemory
  <2>3. UNCHANGED <<exList, exCap, regs, toggles, setting, due>> /\ Open(d) /\ TextInAddDevice(d)
    BY <1>5 DEF StartExNoMemory
  <2> QED BY <1>2, <2>1, <2>2, <2>3 DEF Open, TextInAddDevice, TypeOK, toggles
<1>6. CASE StartExRefused(d)
  <2>1. notify' \in Seq(Notifies)
    BY <1>6, NotifyKept
  <2>2. queueCap' \in Nat /\ exCap' \in Nat
    BY <1>2, <1>6 DEF StartExRefused, ExRoom
  <2>3. regs' \in [Devices -> SUBSET Regs]
    <3>1. PICK k \in 0 .. Len(notify) - 1 :
             regs' = [regs EXCEPT ![d] = RegisteredOn(d, k) \
                        {notify'[i].handles[Len(exList) + 1].reg : i \in 1 .. k}]
      BY <1>6 DEF StartExRefused
    <3>2. RegisteredOn(d, k) \in SUBSET Regs
      BY RegisteredOnType, LenProperties DEF TypeOK
    <3> QED BY <3>1, <3>2 DEF TypeOK
  <2>4. UNCHANGED <<exList, toggles, setting, due>> /\ Open(d) /\ TextInAddDevice(d)
    BY <1>6 DEF StartExRefused
  <2> QED BY <1>2, <2>1, <2>2, <2>3, <2>4 DEF Open, TextInAddDevice, TypeOK, toggles
<1>7. CASE StartEx(d)
  <2>1. notify' \in Seq(Notifies)
    BY <1>7, NotifyKept
  <2>2. queueCap' \in Nat /\ exCap' \in Nat
    BY <1>2, <1>7 DEF StartEx, ExRoom
  <2>3. regs' \in [Devices -> SUBSET Regs]
    <3>1. RegisteredOn(d, Len(notify)) \in SUBSET Regs
      BY SMTT(40), RegisteredOnType, LenProperties DEF TypeOK
    <3> QED BY <1>7, <3>1 DEF StartEx, TypeOK
  <2>4. exList' \in Seq(ExDevices)
    BY <1>7, AppendProperties DEF StartEx, TypeOK
  <2>5. toggle' \in [Devices -> Toggles] /\ lapsed' \subseteq Devices
    BY <1>7 DEF StartEx, TypeOK
  <2>6. UNCHANGED <<phys, setting, due>> /\ Open(d) /\ TextInAddDevice(d)
    BY <1>7 DEF StartEx
  <2> QED BY <1>2, <2>1, <2>2, <2>3, <2>4, <2>5, <2>6 DEF Open, TextInAddDevice, TypeOK
<1>8. CASE Stop(d)
  <2>1. exList' \in Seq(ExDevices)
    <3>1. CASE d \in ExDevices
      BY <1>8, <3>1, Removed DEF Stop, TextInExDeleteDevice, TypeOK
    <3>2. CASE d \notin ExDevices
      BY <1>8, <3>2 DEF Stop, TypeOK
    <3> QED BY <3>1, <3>2
  <2>2. /\ Close(d) /\ TextInDeleteDevice(d) /\ lapsed' = lapsed \ {d}
        /\ UNCHANGED <<conCap, exCap, notify, regs, phys, toggle, queueCap, setting, due>>
    BY <1>8 DEF Stop
  <2> QED BY <2>1, <2>2 DEF Close, TextInDeleteDevice, TypeOK
<1>9. CASE Replug(d)
  BY <1>9, ToggleStates DEF Replug, TypeOK, binding
<1> QED BY <1>1, <1>3, <1>4, <1>5, <1>6, <1>7, <1>8, <1>9

\* What clients register is of the type of a registration.
LEMMA RegisteredTypes ==
    \A p \in Patterns, f \in Functions : [pattern |-> p, fn |-> f] \in Regs
  BY DEF Regs

\* So they do when a client registers or unregisters a notification.
LEMMA TypesNotify ==
    ASSUME ConInAssumption, TypeOK, BuffersSuffice, NotifyNext
    PROVE  TypeOK'
<1>0. \A d \in Held(exList) : d \in Devices
  BY LenProperties, ElementOfSeq DEF Held, TypeOK, ConInAssumption
<1>1. ASSUME NEW r \in Regs, RegisterKeyNotify(r)
      PROVE  TypeOK'
  <2>1. notify' \in Seq(Notifies)
    <3>1. NewEntry(r, Len(exList)) \in Notifies
      BY NewEntryOf, LenProperties DEF TypeOK
    <3> QED BY <1>1, <3>1, AppendProperties DEF RegisterKeyNotify, TypeOK
  <2>2. regs' \in [Devices -> SUBSET Regs]
    <3>1. \A d \in Devices : DeviceRegister(d, r) \in SUBSET Regs
      BY CoveringOf DEF DeviceRegister, TypeOK
    <3> QED BY <1>1, <3>1 DEF RegisterKeyNotify, TypeOK
  <2>3. UNCHANGED <<binding, exList, exCap, toggles, queueCap, setting, due>>
    BY <1>1 DEF RegisterKeyNotify
  <2> QED BY <2>1, <2>2, <2>3 DEF TypeOK, binding, toggles
<1>2. ASSUME NEW r \in Regs, RegisterRefused(r)
      PROVE  TypeOK'
  <2>1. regs' \in [Devices -> SUBSET Regs]
    <3>1. \A d \in Devices : DeviceRegister(d, r) \in SUBSET Regs
      BY CoveringOf DEF DeviceRegister, TypeOK
    <3>2. PICK k \in DOMAIN exList :
             regs' = [d \in Devices |->
                        IF d \in Held(SubSeq(exList, 1, k - 1))
                        THEN DeviceRegister(d, r) \ {Covering(regs[d], r)} ELSE regs[d]]
      BY <1>2 DEF RegisterRefused
    <3> QED BY <3>1, <3>2 DEF TypeOK
  <2>2. UNCHANGED <<binding, exList, exCap, notify, toggles, queueCap, setting, due>>
    BY <1>2 DEF RegisterRefused
  <2> QED BY <2>1, <2>2 DEF TypeOK, binding, toggles
<1>3. ASSUME NEW i \in DOMAIN notify, UnregisterKeyNotify(i)
      PROVE  TypeOK'
  <2>1. notify' \in Seq(Notifies)
    BY <1>3, Removed DEF UnregisterKeyNotify, TypeOK
  <2>2. regs' \in [Devices -> SUBSET Regs]
    <3>1. \A d \in Devices : \A h : DeviceUnregister(d, h) \in SUBSET Regs
      BY DEF DeviceUnregister, TypeOK
    <3> QED BY <1>3, <3>1 DEF UnregisterKeyNotify, TypeOK
  <2>3. UNCHANGED <<binding, exList, exCap, toggles, queueCap, setting, due>>
    BY <1>3 DEF UnregisterKeyNotify
  <2> QED BY <2>1, <2>2, <2>3 DEF TypeOK, binding, toggles
<1> QED BY <1>1, <1>2, <1>3, RegisteredTypes DEF NotifyNext

\* And when the toggle state is set, reported or reset.
LEMMA TypesState ==
    ASSUME ConInAssumption, TypeOK, StateNext
    PROVE  TypeOK'
<1>0. Held(exList) \subseteq ExDevices /\ Len(exList) \in Nat
  BY LenProperties, ElementOfSeq DEF Held, TypeOK
<1>1. ASSUME NEW t \in Toggles, SetStateCall(t)
      PROVE  TypeOK'
  <2>1. setting' \in [on : BOOLEAN, to : Toggles, index : Nat]
    BY <1>1 DEF SetStateCall
  <2>2. UNCHANGED <<binding, exVars, toggles, queueCap, due>>
    BY <1>1 DEF SetStateCall
  <2> QED BY <2>1, <2>2 DEF TypeOK, binding, exVars, toggles
<1>2. CASE SetStateDevice
  <2>1. setting' \in [on : BOOLEAN, to : Toggles, index : Nat]
    <3> DEFINE onward == [setting EXCEPT !.index = setting.index + 1]
    <3>1. NotSetting \in [on : BOOLEAN, to : Toggles, index : Nat]
      BY ToggleStates DEF NotSetting
    <3>2. onward \in [on : BOOLEAN, to : Toggles, index : Nat]
      <4>1. setting \in [on : BOOLEAN, to : Toggles, index : Nat]
        BY DEF TypeOK
      <4> QED BY <4>1
    <3>3. setting' = NotSetting \/ setting' = onward
      BY <1>2, Zenon DEF SetStateDevice
    <3> HIDE DEF onward
    <3> QED BY <3>1, <3>2, <3>3
  <2>2. toggle' \in [Devices -> Toggles] /\ lapsed' \subseteq Devices
    <3> DEFINE d == exList[setting.index + 1]
    <3>1. /\ toggle' = toggle \/ toggle' = [toggle EXCEPT ![d] = PhysicalState]
          /\ lapsed' = lapsed \/ lapsed' = lapsed \ {d}
      BY <1>2, Zenon DEF SetStateDevice
    <3>2. PhysicalState \in Toggles
      BY PhysicalStateOf
    <3> QED BY SMTT(40), <3>1, <3>2 DEF TypeOK
  <2>3. UNCHANGED <<binding, exVars, phys, queueCap, due>>
    BY <1>2 DEF SetStateDevice
  <2> QED BY <2>1, <2>2, <2>3 DEF TypeOK, binding, exVars
<1>3. CASE SetStateReturn
  BY <1>3, PhysicalStateOf, ToggleStates
     DEF SetStateReturn, TypeOK, NotSetting, binding, exVars
<1>4. ASSUME NEW d \in Devices, ToggleStateSyncKeyNotify(d)
      PROVE  TypeOK'
  <2>1. phys' \in Toggles /\ toggle' \in [Devices -> Toggles] /\ lapsed' \subseteq Devices
    <3>1. PICK t \in due[d] :
             IF t.exposed /\ t # phys
             THEN /\ phys' = t
                  /\ \E failing \in SUBSET (Faulty \cap Held(exList)) :
                       toggle' = Takes(t, failing) /\ lapsed' = failing
             ELSE UNCHANGED <<phys, toggle, lapsed>>
      BY <1>4 DEF ToggleStateSyncKeyNotify
    <3>2. t \in Toggles
      BY <3>1 DEF TypeOK
    <3>3. \A failing : Takes(t, failing) \in [Devices -> Toggles]
      BY <3>2 DEF Takes, TypeOK
    <3> QED BY <3>1, <3>2, <3>3 DEF TypeOK, ConInAssumption
  <2>2. due' \in [Devices -> SUBSET Toggles] /\ UNCHANGED <<binding, exVars, queueCap, setting>>
    BY <1>4 DEF ToggleStateSyncKeyNotify, TypeOK
  <2> QED BY <2>1, <2>2 DEF TypeOK, binding, exVars
<1>5. ASSUME NEW list \in SUBSET Devices, NEW failing, ResetDevices(list, failing)
      PROVE  TypeOK'
  <2>1. phys' \in Toggles /\ toggle' \in [Devices -> Toggles] /\ lapsed' \subseteq Devices
    <3>1. CASE failing = {}
      <4>1. PICK deaf \in SUBSET (Faulty \cap Held(exList)) :
               /\ toggle' = [d \in Devices |->
                    IF d \in Held(exList) \ deaf THEN Exposed
                    ELSE IF d \in list THEN Cleared ELSE toggle[d]]
               /\ lapsed' = deaf
        BY <1>5, <3>1 DEF ResetDevices
      <4>2. phys' = Exposed
        BY <1>5, <3>1 DEF ResetDevices
      <4> QED BY <4>1, <4>2, ToggleStates DEF TypeOK, ConInAssumption
    <3>2. CASE failing # {}
      <4>1. /\ toggle' = [d \in Devices |-> IF d \in list \ failing THEN Cleared ELSE toggle[d]]
            /\ lapsed' = lapsed \cup ((Held(exList) \cap list) \ failing)
            /\ phys' = phys
        BY <1>5, <3>2 DEF ResetDevices
      <4> QED BY <4>1, ToggleStates DEF TypeOK
    <3> QED BY <3>1, <3>2
  <2>2. UNCHANGED <<binding, exVars, queueCap, setting, due>>
    BY <1>5 DEF ResetDevices
  <2> QED BY <2>1, <2>2 DEF TypeOK, binding, exVars
<1>6. Held(exList) \in SUBSET Devices /\ consoles \in SUBSET Devices
  BY <1>0 DEF TypeOK, ConInAssumption
<1> QED BY <1>1, <1>2, <1>3, <1>4, <1>5, <1>6 DEF StateNext, Reset, ResetEx

\* And when a lock key is pressed.
LEMMA TypesLock ==
    ASSUME ConInAssumption, TypeOK, NEW d \in ExDevices, PressLock(d)
    PROVE  TypeOK'
<1>1. d \in Devices
  BY DEF ConInAssumption
<1>2. toggle' \in [Devices -> Toggles]
  <2>1. toggle[d] \in Toggles
    BY <1>1 DEF TypeOK
  <2>2. toggle' = [toggle EXCEPT ![d] = [toggle[d] EXCEPT !.caps = ~toggle[d].caps]]
    BY <1>1 DEF PressLock, TypeOK
  <2>3. [toggle[d] EXCEPT !.caps = ~toggle[d].caps] \in Toggles
    BY <2>1 DEF Toggles
  <2> QED BY <2>2, <2>3 DEF TypeOK
<1>3. due' \in [Devices -> SUBSET Toggles]
  BY <1>1, <1>2 DEF PressLock, TypeOK
<1>4. UNCHANGED <<binding, exVars, phys, lapsed, queueCap, setting>>
  BY DEF PressLock
<1> QED BY <1>2, <1>3, <1>4 DEF TypeOK, binding, exVars

(***************************************************************************)
(* The lists and their buffers.                                            *)
(***************************************************************************)

\* The inductive invariant of the lists: a cardinality is that of a finite set.
ListsInv == TypeOK /\ IsFiniteSet(consoles) /\ ListsSound

\* Every keyboard of TextInExList has the Ex protocol.
LEMMA HeldDevices ==
    ASSUME TypeOK, ConInAssumption
    PROVE  Held(exList) \subseteq ExDevices /\ Held(exList) \subseteq Devices
  BY LenProperties, ElementOfSeq DEF Held, TypeOK, ConInAssumption

\* The keyboard that is stopped is in TextInExList no more.
LEMMA StopHeld ==
    ASSUME TypeOK, ConInAssumption, IsInjective(exList), NEW d \in Devices, Stop(d)
    PROVE  /\ IsInjective(exList') /\ Held(exList') = Held(exList) \ {d}
           /\ Len(exList') <= Len(exList)
<1>1. exList \in Seq(ExDevices) /\ Len(exList) \in Nat
  BY LenProperties DEF TypeOK
<1>2. CASE d \in ExDevices
  <2>1. PICK k \in DOMAIN exList : exList[k] = d /\ exList' = RemoveAt(exList, k)
    BY <1>2 DEF Stop, TextInExDeleteDevice
  <2>2. IsInjective(exList') /\ Held(exList') = Held(exList) \ {d}
    BY <1>1, <2>1, HeldRemoved
  <2>3. Len(exList') = Len(exList) - 1
    BY <1>1, <2>1, Removed
  <2> QED BY <1>1, <2>2, <2>3
<1>3. CASE d \notin ExDevices
  <2>1. exList' = exList
    BY <1>3 DEF Stop
  <2>2. d \notin Held(exList)
    BY <1>3, HeldDevices
  <2> QED BY <1>1, <2>1, <2>2
<1> QED BY <1>2, <1>3

\* TextInList grows before it is full.
LEMMA ConsolesGrow ==
    ASSUME TypeOK, ConInAssumption, IsFiniteSet(consoles), Cardinality(consoles) <= conCap,
           NEW d \in Devices, TextInAddDevice(d)
    PROVE  IsFiniteSet(consoles)' /\ Cardinality(consoles') <= conCap'
<1>1. conCap \in Nat /\ AllocUnit \in Nat \ {0} /\ Cardinality(consoles) \in Nat
  BY FS_CardinalityType DEF TypeOK, ConInAssumption
<1>2. /\ consoles' = consoles \cup {d}
      /\ conCap' = IF Cardinality(consoles) >= conCap THEN conCap + AllocUnit ELSE conCap
  BY DEF TextInAddDevice, Grown
<1>3. /\ IsFiniteSet(consoles \cup {d})
      /\ Cardinality(consoles \cup {d}) <= Cardinality(consoles) + 1
  <2>1. /\ IsFiniteSet(consoles \cup {d})
        /\ \/ Cardinality(consoles \cup {d}) = Cardinality(consoles)
           \/ Cardinality(consoles \cup {d}) = Cardinality(consoles) + 1
    BY FS_AddElement
  <2> QED BY <1>1, <2>1
<1>4. Cardinality(consoles \cup {d}) \in Nat
  BY <1>3, FS_CardinalityType
<1> QED BY <1>1, <1>2, <1>3, <1>4

\* The lists are sound at the start.
LEMMA ListsInit == ASSUME ConInAssumption, Init PROVE ListsInv
<1>1. TypeOK
  BY TypesInit
<1>2. /\ opened = {} /\ consoles = {} /\ conCap = AllocUnit /\ exList = <<>>
      /\ exCap = AllocUnit /\ queueCap = AllocUnit /\ notify = <<SyncEntry>>
      /\ AllocUnit \in Nat
  BY DEF Init, ConInAssumption
<1>3. IsFiniteSet(consoles) /\ Cardinality(consoles) = 0
  BY <1>2, FS_EmptySet
<1>4. Len(exList) = 0 /\ DOMAIN exList = {}
  BY <1>2
<1>5. \A i \in DOMAIN notify : Len(notify[i].handles) = AllocUnit
  <2>1. DOMAIN notify = {1} /\ notify[1] = SyncEntry
    BY <1>2
  <2>2. SyncEntry.handles = [i \in 1 .. AllocUnit |-> NoHandle]
    BY DEF SyncEntry
  <2>3. SyncEntry.handles \in [1 .. AllocUnit -> HandleSlots]
    BY <2>2 DEF HandleSlots
  <2>4. Len(SyncEntry.handles) = AllocUnit
    BY <1>2, <2>3, FunctionIsSeq
  <2> QED BY <2>1, <2>4
<1>6. BuffersSuffice
  BY <1>2, <1>3, <1>4, <1>5 DEF BuffersSuffice
<1>7. Attached
  BY <1>2, <1>4 DEF Attached, Held, IsInjective
<1> QED BY <1>1, <1>3, <1>6, <1>7 DEF ListsInv, ListsSound

\* Joining, leaving and being lost keeps them so, whichever allocation fails.
LEMMA ListsBinding ==
    ASSUME ConInAssumption, ListsInv, BindingNext
    PROVE  ListsInv'
<1>1. /\ TypeOK /\ BuffersSuffice /\ IsFiniteSet(consoles)
      /\ Held(exList) \subseteq consoles /\ consoles \subseteq opened /\ IsInjective(exList)
  BY DEF ListsInv, ListsSound, Attached
<1>2. TypeOK'
  BY <1>1, TypesBinding
<1>3. PICK d \in Devices :
         \/ StartNoMemory(d) \/ StartPlain(d) \/ StartExNoMemory(d)
         \/ StartExRefused(d) \/ StartEx(d) \/ Stop(d) \/ Replug(d)
  BY DEF BindingNext
<1>4. /\ Cardinality(consoles) <= conCap /\ Cardinality(consoles) \in Nat /\ conCap \in Nat
      /\ Len(exList) <= exCap /\ exCap <= queueCap
      /\ Len(exList) \in Nat /\ exCap \in Nat /\ queueCap \in Nat
      /\ notify \in Seq(Notifies) /\ DOMAIN notify = 1 .. Len(notify)
      /\ exList \in Seq(ExDevices)
      /\ \A i \in 1 .. Len(notify) : Len(notify[i].handles) >= exCap
      /\ Grown(exCap) \in Nat /\ Grown(exCap) >= exCap + 1
  BY <1>1, FS_CardinalityType, LenProperties DEF BuffersSuffice, TypeOK, Grown, ConInAssumption
<1>5. CASE StartNoMemory(d) \/ Replug(d)
  <2>1. UNCHANGED <<consoles, conCap, exList, exCap, queueCap, notify>> /\ opened \subseteq opened'
    BY <1>5 DEF StartNoMemory, Replug, Open, binding, exVars
  <2> QED BY <1>1, <1>2, <2>1 DEF ListsInv, ListsSound, BuffersSuffice, Attached
<1>6. ASSUME d \notin opened, Open(d), TextInAddDevice(d)
      PROVE  /\ IsFiniteSet(consoles)' /\ Cardinality(consoles') <= conCap'
             /\ consoles' = consoles \cup {d} /\ consoles' \subseteq opened'
  BY <1>1, <1>4, <1>6, ConsolesGrow DEF Open, TextInAddDevice
<1>7. CASE StartPlain(d)
  <2>1. d \notin opened /\ Open(d) /\ TextInAddDevice(d) /\ UNCHANGED <<exVars, queueCap>>
    BY <1>7 DEF StartPlain
  <2> QED BY <1>1, <1>2, <1>6, <2>1 DEF ListsInv, ListsSound, BuffersSuffice, Attached, exVars
<1>8. CASE StartExNoMemory(d)
  <2>1. /\ d \notin opened /\ Open(d) /\ TextInAddDevice(d)
        /\ UNCHANGED <<exList, exCap>> /\ (queueCap' = queueCap \/ queueCap' = Grown(exCap))
    BY <1>8 DEF StartExNoMemory
  <2>2. BuffersSuffice'
    <3>1. \A i \in DOMAIN notify' : Len(notify'[i].handles) >= exCap'
      BY <1>1, <1>4, <1>8, NotifyKept, LenProperties
    <3> QED BY <1>4, <1>6, <2>1, <3>1 DEF BuffersSuffice
  <2> QED BY <1>1, <1>2, <1>6, <2>1, <2>2 DEF ListsInv, ListsSound, Attached
<1>9. CASE StartExRefused(d) \/ StartEx(d)
  <2>1. /\ d \notin opened /\ d \in ExDevices /\ Open(d) /\ TextInAddDevice(d)
        /\ exCap' = (IF Len(exList) < exCap THEN exCap ELSE Grown(exCap))
        /\ queueCap' = (IF Len(exList) < exCap THEN queueCap ELSE Grown(exCap))
        /\ exList' = exList \/ exList' = Append(exList, d)
    BY <1>9 DEF StartExRefused, StartEx, ExRoom, Room
  <2>2. /\ Len(exList') \in {Len(exList), Len(exList) + 1}
        /\ Held(exList') \subseteq Held(exList) \cup {d} /\ IsInjective(exList')
    <3>1. d \notin Held(exList)
      BY <1>1, <2>1
    <3>2. /\ Len(Append(exList, d)) = Len(exList) + 1
          /\ Held(Append(exList, d)) = Held(exList) \cup {d}
          /\ IsInjective(Append(exList, d))
      BY <1>1, <1>4, <2>1, <3>1, HeldAppended, AppendProperties
    <3>3. CASE exList' = exList
      BY <1>1, <1>4, <3>3
    <3>4. CASE exList' = Append(exList, d)
      BY <3>2, <3>4
    <3> QED BY <2>1, <3>3, <3>4
  <2>3. BuffersSuffice'
    <3>1. \A i \in DOMAIN notify' : Len(notify'[i].handles) >= exCap'
      BY <1>1, <1>4, <1>9, NotifyKept, LenProperties
    <3>2. Len(exList') <= exCap' /\ exCap' <= queueCap'
      BY <1>4, <2>1, <2>2
    <3> QED BY <1>6, <2>1, <3>1, <3>2 DEF BuffersSuffice
  <2> QED BY <1>1, <1>2, <1>6, <2>1, <2>2, <2>3 DEF ListsInv, ListsSound, Attached
<1>10. CASE Stop(d)
  <2>1. /\ IsInjective(exList') /\ Held(exList') = Held(exList) \ {d}
        /\ Len(exList') <= Len(exList)
    BY <1>1, <1>10, StopHeld
  <2>2. /\ UNCHANGED <<conCap, exCap, notify, queueCap>>
        /\ consoles' = consoles \ {d} /\ opened' = opened \ {d}
    BY <1>10 DEF Stop, Close, TextInDeleteDevice
  <2>3. IsFiniteSet(consoles') /\ Cardinality(consoles') <= Cardinality(consoles)
    BY <1>1, <2>2, FS_Subset
  <2>4. Cardinality(consoles') \in Nat /\ Len(exList') \in Nat
    BY <1>2, <2>3, FS_CardinalityType, LenProperties DEF TypeOK
  <2>5. BuffersSuffice'
    BY <1>1, <1>4, <2>1, <2>2, <2>3, <2>4 DEF BuffersSuffice
  <2> QED BY <1>1, <1>2, <2>1, <2>2, <2>3, <2>5 DEF ListsInv, ListsSound, Attached
<1> QED BY <1>3, <1>5, <1>7, <1>8, <1>9, <1>10

\* So do the calls of clients.
LEMMA ListsNotify ==
    ASSUME ConInAssumption, ListsInv, NotifyNext
    PROVE  ListsInv'
<1>1. TypeOK /\ BuffersSuffice
  BY DEF ListsInv, ListsSound
<1>2. TypeOK'
  BY <1>1, TypesNotify
<1>3. /\ notify \in Seq(Notifies) /\ Len(notify) \in Nat /\ DOMAIN notify = 1 .. Len(notify)
      /\ \A i \in 1 .. Len(notify) : Len(notify[i].handles) >= exCap
      /\ exCap \in Nat /\ Len(exList) \in Nat
  BY <1>1, LenProperties DEF TypeOK, BuffersSuffice
<1>4. \A i \in DOMAIN notify' : Len(notify'[i].handles) >= exCap
  <2>1. ASSUME NEW r \in Regs, RegisterKeyNotify(r)
        PROVE  \A i \in DOMAIN notify' : Len(notify'[i].handles) >= exCap
    <3>1. notify' = Append(notify, NewEntry(r, Len(exList)))
      BY <2>1 DEF RegisterKeyNotify
    <3>2. NewEntry(r, Len(exList)) \in Notifies /\ Len(NewEntry(r, Len(exList)).handles) = exCap
      BY <1>1, <1>3, NewEntryOf
    <3>3. /\ DOMAIN notify' = 1 .. Len(notify) + 1
          /\ \A i \in 1 .. Len(notify) : notify'[i] = notify[i]
          /\ notify'[Len(notify) + 1] = NewEntry(r, Len(exList))
      BY <1>3, <3>1, <3>2, AppendProperties, LenProperties
    <3> QED BY <1>3, <3>2, <3>3
  <2>2. ASSUME NEW r \in Regs, RegisterRefused(r)
        PROVE  \A i \in DOMAIN notify' : Len(notify'[i].handles) >= exCap
    BY <1>3, <2>2 DEF RegisterRefused
  <2>3. ASSUME NEW k \in DOMAIN notify, UnregisterKeyNotify(k)
        PROVE  \A i \in DOMAIN notify' : Len(notify'[i].handles) >= exCap
    <3>1. /\ notify' \in Seq(Notifies) /\ Len(notify') = Len(notify) - 1
          /\ \A i \in 1 .. Len(notify) - 1 :
               notify'[i] = IF i < k THEN notify[i] ELSE notify[i + 1]
      BY <1>3, <2>3, Removed DEF UnregisterKeyNotify
    <3>2. DOMAIN notify' = 1 .. Len(notify) - 1
      BY <3>1, LenProperties
    <3> QED BY SMTT(40), <1>3, <3>1, <3>2
  <2> QED BY <2>1, <2>2, <2>3, RegisteredTypes DEF NotifyNext
<1>5. UNCHANGED <<binding, exList, exCap, queueCap>>
  BY DEF NotifyNext, RegisterKeyNotify, RegisterRefused, UnregisterKeyNotify
<1> QED BY <1>1, <1>2, <1>3, <1>4, <1>5 DEF ListsInv, ListsSound, BuffersSuffice, Attached, binding

\* The calls that set and reset the toggle state, and lock keys, leave them alone.
LEMMA ListsUntouched ==
    ASSUME StateNext \/ \E d \in ExDevices : PressLock(d)
    PROVE  UNCHANGED <<binding, exVars, queueCap>>
  BY DEF StateNext, SetStateCall, SetStateDevice, SetStateReturn, ToggleStateSyncKeyNotify,
         Reset, ResetEx, ResetDevices, PressLock

\* A step of the driver or its devices keeps the invariant.
LEMMA ListsStep ==
    ASSUME ConInAssumption, ListsInv, [Next]_vars
    PROVE  ListsInv'
<1>1. CASE BindingNext
  BY <1>1, ListsBinding
<1>2. CASE NotifyNext
  BY <1>2, ListsNotify
<1>3. CASE StateNext \/ \E d \in ExDevices : PressLock(d)
  <2>1. TypeOK'
    BY <1>3, TypesState, TypesLock DEF ListsInv
  <2>2. UNCHANGED <<binding, exVars, queueCap>>
    BY <1>3, ListsUntouched
  <2> QED BY <2>1, <2>2 DEF ListsInv, ListsSound, BuffersSuffice, Attached, binding, exVars
<1>4. CASE UNCHANGED vars
  BY <1>4 DEF ListsInv, ListsSound, BuffersSuffice, Attached, TypeOK, vars, binding, exVars,
              toggles
<1> QED BY <1>1, <1>2, <1>3, <1>4 DEF Next

\* The invariant holds in every state of every execution.
LEMMA ListsAlways == Spec => []ListsInv
<1>1. Init => ListsInv
  BY ConInAssumption, ListsInit
<1>2. ListsInv /\ [Next]_vars => ListsInv'
  BY ConInAssumption, ListsStep
<1> QED BY <1>1, <1>2, PTL DEF Spec

\* Types of the text input splitter.
THEOREM ConsoleInTypes == Spec => []TypeOK
  BY ListsAlways, PTL DEF ListsInv

\* Whichever of the allocations fails, and in whichever order keyboards come and
\* go and clients register: no array is written behind its end, and the lists
\* hold each keyboard once and only while the driver holds it open.
THEOREM ConsoleInLists == Spec => []ListsSound
  BY ListsAlways, PTL DEF ListsInv

(***************************************************************************)
(* Partial keys.                                                           *)
(***************************************************************************)

\* With the lists: PhysicalKeyToggleState always exposes partial keys, so that
\* every keyboard it is passed on to reports them.
ExposedInv == ListsInv /\ phys.exposed /\ ExposedEverywhere

\* The keyboards that join get PhysicalKeyToggleState, and those that leave are
\* in the list only once.
LEMMA ExposedBinding ==
    ASSUME ConInAssumption, ExposedInv, BindingNext
    PROVE  phys'.exposed /\ ExposedEverywhere'
<1>1. /\ TypeOK /\ IsInjective(exList) /\ Held(exList) \subseteq opened
      /\ phys.exposed
      /\ \A d \in Held(exList) : d \in Devices /\ (toggle[d].exposed \/ d \in lapsed)
  BY HeldDevices DEF ExposedInv, ListsInv, ListsSound, Attached, ExposedEverywhere
<1>2. PICK d \in Devices :
         \/ StartNoMemory(d) \/ StartPlain(d) \/ StartExNoMemory(d)
         \/ StartExRefused(d) \/ StartEx(d) \/ Stop(d) \/ Replug(d)
  BY DEF BindingNext
<1>3. CASE StartNoMemory(d) \/ StartPlain(d) \/ StartExNoMemory(d) \/ StartExRefused(d)
  <2>1. UNCHANGED <<exList, phys, toggle, lapsed>>
    BY <1>3 DEF StartNoMemory, StartPlain, StartExNoMemory, StartExRefused, exVars, toggles
  <2> QED BY <1>1, <2>1 DEF ExposedEverywhere
<1>4. CASE StartEx(d)
  <2>1. /\ exList' = Append(exList, d) /\ phys' = phys /\ d \in ExDevices
        /\ \/ toggle' = [toggle EXCEPT ![d] = phys] /\ lapsed' = lapsed \ {d}
           \/ toggle' = toggle /\ lapsed' = lapsed \cup {d}
    BY <1>4 DEF StartEx
  <2>2. Held(exList') = Held(exList) \cup {d}
    BY <2>1, HeldAppended, <1>1 DEF TypeOK
  <2>3. toggle \in [Devices -> Toggles]
    BY <1>1 DEF TypeOK
  <2>4. ASSUME NEW e \in Held(exList')
        PROVE  toggle'[e].exposed \/ e \in lapsed'
    <3>1. CASE e = d
      BY <1>1, <2>1, <2>3, <3>1
    <3>2. CASE e # d
      BY <1>1, <2>1, <2>2, <2>3, <2>4, <3>2
    <3> QED BY <3>1, <3>2
  <2> QED BY <1>1, <2>1, <2>4 DEF ExposedEverywhere
<1>5. CASE Stop(d)
  <2>1. Held(exList') = Held(exList) \ {d}
    BY <1>1, <1>5, StopHeld
  <2>2. UNCHANGED <<phys, toggle>> /\ lapsed' = lapsed \ {d}
    BY <1>5 DEF Stop
  <2> QED BY <1>1, <2>1, <2>2 DEF ExposedEverywhere
<1>6. CASE Replug(d)
  <2>1. /\ UNCHANGED <<exList, phys, lapsed>> /\ d \notin opened
        /\ toggle' = [toggle EXCEPT ![d] = Cleared]
    BY <1>6 DEF Replug
  <2>2. \A e \in Held(exList) : e # d
    BY <1>1, <2>1
  <2>3. \A e \in Held(exList) : toggle'[e] = toggle[e]
    BY <1>1, <2>1, <2>2 DEF TypeOK
  <2> QED BY <1>1, <2>1, <2>3 DEF ExposedEverywhere
<1> QED BY <1>2, <1>3, <1>4, <1>5, <1>6

\* A state passed on exposes partial keys; a keyboard that does not take it, or
\* is reset without, has lapsed.
LEMMA ExposedState ==
    ASSUME ConInAssumption, ExposedInv, StateNext
    PROVE  phys'.exposed /\ ExposedEverywhere'
<1>1. /\ TypeOK /\ phys.exposed /\ toggle \in [Devices -> Toggles]
      /\ \A d \in Held(exList) : d \in Devices /\ (toggle[d].exposed \/ d \in lapsed)
  BY HeldDevices DEF ExposedInv, ListsInv, ExposedEverywhere, TypeOK
<1>2. exList' = exList
  BY ListsUntouched DEF exVars
<1>3. ASSUME NEW t \in Toggles, SetStateCall(t)
      PROVE  phys'.exposed /\ ExposedEverywhere'
  BY <1>1, <1>2, <1>3 DEF SetStateCall, toggles, ExposedEverywhere
<1>4. CASE SetStateDevice
  <2> DEFINE d == exList[setting.index + 1]
  <2>1. /\ phys' = phys
        /\ \/ toggle' = [toggle EXCEPT ![d] = PhysicalState] /\ lapsed' = lapsed \ {d}
           \/ toggle' = toggle /\ lapsed' = lapsed
    BY <1>4, Zenon DEF SetStateDevice
  <2>2. PhysicalState.exposed
    BY <1>1, PhysicalStateOf
  <2> HIDE DEF d
  <2> QED BY <1>1, <1>2, <2>1, <2>2 DEF ExposedEverywhere
<1>5. CASE SetStateReturn
  <2>1. phys' = PhysicalState /\ UNCHANGED <<toggle, lapsed>>
    BY <1>5 DEF SetStateReturn
  <2>2. PhysicalState.exposed
    BY <1>1, PhysicalStateOf
  <2> QED BY <1>1, <1>2, <2>1, <2>2 DEF ExposedEverywhere
<1>6. ASSUME NEW d \in Devices, ToggleStateSyncKeyNotify(d)
      PROVE  phys'.exposed /\ ExposedEverywhere'
  <2>1. PICK t \in due[d] :
           IF t.exposed /\ t # phys
           THEN /\ phys' = t
                /\ \E failing \in SUBSET (Faulty \cap Held(exList)) :
                     toggle' = Takes(t, failing) /\ lapsed' = failing
           ELSE UNCHANGED <<phys, toggle, lapsed>>
    BY <1>6 DEF ToggleStateSyncKeyNotify
  <2>2. CASE t.exposed /\ t # phys
    <3>1. PICK failing \in SUBSET (Faulty \cap Held(exList)) :
             phys' = t /\ toggle' = Takes(t, failing) /\ lapsed' = failing
      BY <2>1, <2>2
    <3>2. \A e \in Held(exList) : e \in failing \/ toggle'[e] = t
      BY <1>1, <3>1 DEF Takes
    <3> QED BY <1>2, <2>2, <3>1, <3>2 DEF ExposedEverywhere
  <2>3. CASE ~(t.exposed /\ t # phys)
    BY <1>1, <1>2, <2>1, <2>3 DEF ExposedEverywhere
  <2> QED BY <2>2, <2>3
<1>7. ASSUME NEW list \in SUBSET Devices, NEW failing, ResetDevices(list, failing)
      PROVE  phys'.exposed /\ ExposedEverywhere'
  <2>1. CASE failing = {}
    <3>1. PICK deaf \in SUBSET (Faulty \cap Held(exList)) :
             /\ toggle' = [d \in Devices |->
                  IF d \in Held(exList) \ deaf THEN Exposed
                  ELSE IF d \in list THEN Cleared ELSE toggle[d]]
             /\ lapsed' = deaf
      BY <1>7, <2>1 DEF ResetDevices
    <3>2. phys' = Exposed
      BY <1>7, <2>1 DEF ResetDevices
    <3>3. \A e \in Held(exList) : e \in deaf \/ toggle'[e] = Exposed
      BY <1>1, <3>1
    <3> QED BY <1>2, <3>1, <3>2, <3>3, ToggleStates DEF ExposedEverywhere
  <2>2. CASE failing # {}
    <3>1. /\ toggle' = [d \in Devices |-> IF d \in list \ failing THEN Cleared ELSE toggle[d]]
          /\ lapsed' = lapsed \cup ((Held(exList) \cap list) \ failing)
          /\ phys' = phys
      BY <1>7, <2>2 DEF ResetDevices
    <3> QED BY <1>1, <1>2, <3>1 DEF ExposedEverywhere
  <2> QED BY <2>1, <2>2
<1>8. Held(exList) \in SUBSET Devices /\ consoles \in SUBSET Devices
  BY <1>1 DEF TypeOK
<1> QED BY <1>3, <1>4, <1>5, <1>6, <1>7, <1>8 DEF StateNext, Reset, ResetEx

\* A step of the driver or its devices keeps the invariant.
LEMMA ExposedStep ==
    ASSUME ConInAssumption, ExposedInv, [Next]_vars
    PROVE  ExposedInv'
<1>1. ListsInv'
  BY ListsStep DEF ExposedInv
<1>2. phys'.exposed /\ ExposedEverywhere'
  <2>1. CASE BindingNext
    BY <2>1, ExposedBinding
  <2>2. CASE StateNext
    BY <2>2, ExposedState
  <2>3. CASE NotifyNext \/ UNCHANGED vars
    <3>1. UNCHANGED <<exList, phys, toggle, lapsed>>
      BY <2>3 DEF NotifyNext, RegisterKeyNotify, RegisterRefused, UnregisterKeyNotify, toggles,
                  vars, exVars
    <3> QED BY <3>1 DEF ExposedInv, ExposedEverywhere
  <2>4. ASSUME NEW d \in ExDevices, PressLock(d)
        PROVE  phys'.exposed /\ ExposedEverywhere'
    <3>1. UNCHANGED <<exList, phys, lapsed>>
      BY <2>4 DEF PressLock, exVars
    <3>2. \A e \in Devices : toggle'[e].exposed = toggle[e].exposed
      <4>1. toggle \in [Devices -> Toggles] /\ d \in Devices
        BY DEF ExposedInv, ListsInv, TypeOK, ConInAssumption
      <4>2. toggle' = [toggle EXCEPT ![d] = [toggle[d] EXCEPT !.caps = ~toggle[d].caps]]
        BY <2>4, <4>1 DEF PressLock
      <4>3. [toggle[d] EXCEPT !.caps = ~toggle[d].caps].exposed = toggle[d].exposed
        BY <4>1 DEF Toggles
      <4> QED BY <4>1, <4>2, <4>3
    <3>3. \A e \in Held(exList) : e \in Devices
      BY HeldDevices DEF ExposedInv, ListsInv
    <3> QED BY <3>1, <3>2, <3>3 DEF ExposedInv, ExposedEverywhere
  <2> QED BY <2>1, <2>2, <2>3, <2>4 DEF Next
<1> QED BY <1>1, <1>2 DEF ExposedInv

\* Every keyboard reports partial keys, which lets ToggleStateSyncKeyNotify hear of a
\* lock key, but for those that failed to take a state or were reset by a Reset that
\* failed on another: for any keyboards, failures and interleavings of SetState with
\* the notification.
THEOREM ConsoleInExposed == Spec => []ExposedEverywhere
<1>1. Init => ExposedInv
  <2> SUFFICES ASSUME Init PROVE ExposedInv
    OBVIOUS
  <2>1. ListsInv
    BY ConInAssumption, ListsInit
  <2>2. phys = Exposed /\ exList = <<>>
    BY DEF Init
  <2> QED BY <2>1, <2>2, ToggleStates DEF ExposedInv, ExposedEverywhere, Held
<1>2. ExposedInv /\ [Next]_vars => ExposedInv'
  BY ConInAssumption, ExposedStep
<1>3. ExposedInv => ExposedEverywhere
  BY DEF ExposedInv
<1> QED BY <1>1, <1>2, <1>3, PTL DEF Spec

(***************************************************************************)
(* Notifications.                                                          *)
(***************************************************************************)

\* With the lists: the handles of an entry are those of its registration, no two
\* entries are for the same one, and every keyboard holds it itself.  With the
\* second, taking one back takes no other with it; with the first, it takes the
\* right one, although a handle list does not move up when a keyboard leaves.
Served(i) == \A d \in Held(exList) : notify[i].reg \in regs[d]
ServedInv ==
    /\ ListsInv
    /\ \A i \in 1 .. Len(notify) : OwnHandles(notify[i]) /\ Served(i)
    /\ \A i, j \in 1 .. Len(notify) : notify[i].reg = notify[j].reg => i = j

\* What the steps need of the lists.
LEMMA ServedLists ==
    ASSUME ConInAssumption, ServedInv
    PROVE  /\ TypeOK /\ BuffersSuffice /\ IsInjective(exList)
           /\ Held(exList) \subseteq opened /\ Held(exList) \subseteq Devices
           /\ notify \in Seq(Notifies) /\ DOMAIN notify = 1 .. Len(notify) /\ Len(notify) \in Nat
           /\ \A i \in 1 .. Len(notify) : notify[i].reg \in Regs
           /\ \A d \in Devices : regs[d] \in SUBSET Regs
<1>1. TypeOK /\ BuffersSuffice /\ Attached
  BY DEF ServedInv, ListsInv, ListsSound
<1>2. notify \in Seq(Notifies) /\ DOMAIN notify = 1 .. Len(notify) /\ Len(notify) \in Nat
  BY <1>1, LenProperties DEF TypeOK
<1>3. \A i \in 1 .. Len(notify) : notify[i].reg \in Regs
  <2>1. \A i \in 1 .. Len(notify) : notify[i] \in Notifies
    BY <1>2, ElementOfSeq
  <2> QED BY <2>1 DEF Notifies
<1> QED BY <1>1, <1>2, <1>3, HeldDevices DEF Attached, TypeOK

\* A keyboard that joined with every registration of the list has them all, in
\* whatever state its own driver left it.
LEMMA RegisteredOnAll ==
    ASSUME PatternsApart, ConInAssumption, ServedInv, NEW d \in Devices,
           NEW i \in 1 .. Len(notify)
    PROVE  notify[i].reg \in RegisteredOn(d, Len(notify))
<1> DEFINE before == regs[d] \cup {notify[h].reg : h \in 1 .. i - 1}
<1>1. /\ Len(notify) \in Nat /\ regs[d] \in SUBSET Regs
      /\ \A h \in 1 .. Len(notify) : notify[h].reg \in Regs
  BY ServedLists
<1>2. CASE \E o \in before : Covers(o, notify[i].reg)
  <2>1. PICK o \in before : Covers(o, notify[i].reg)
    BY <1>2
  <2>2. o \in Regs
    BY <1>1
  <2>3. o = notify[i].reg
    BY <1>1, <2>1, <2>2, CoversApart
  <2>4. ASSUME NEW h \in 1 .. i - 1, o = notify[h].reg
        PROVE  FALSE
    <3>1. h \in 1 .. Len(notify) /\ h # i /\ notify[h].reg = notify[i].reg
      BY <1>1, <2>3, <2>4
    <3> QED BY <3>1 DEF ServedInv
  <2> QED BY <2>1, <2>3, <2>4 DEF RegisteredOn
<1>3. CASE ~\E o \in before : Covers(o, notify[i].reg)
  BY <1>1, <1>3 DEF RegisteredOn
<1> QED BY <1>2, <1>3

\* Devices that join, leave or are lost.
LEMMA ServedBinding ==
    ASSUME PatternsApart, ConInAssumption, ServedInv, BindingNext
    PROVE  ServedInv'
<1>1. /\ TypeOK /\ BuffersSuffice /\ IsInjective(exList)
      /\ Held(exList) \subseteq opened /\ Held(exList) \subseteq Devices
      /\ Len(notify) \in Nat /\ regs \in [Devices -> SUBSET Regs] /\ exList \in Seq(ExDevices)
  BY ServedLists DEF TypeOK
<1>2. ListsInv'
  BY ListsBinding DEF ServedInv
<1>3. /\ \A i \in 1 .. Len(notify) : OwnHandles(notify[i])
      /\ \A i \in 1 .. Len(notify), d \in Held(exList) : notify[i].reg \in regs[d]
      /\ \A i, j \in 1 .. Len(notify) : notify[i].reg = notify[j].reg => i = j
  BY DEF ServedInv, Served
<1>4. PICK d \in Devices :
         \/ StartNoMemory(d) \/ StartPlain(d) \/ StartExNoMemory(d)
         \/ StartExRefused(d) \/ StartEx(d) \/ Stop(d) \/ Replug(d)
  BY DEF BindingNext
<1>5. SUFFICES /\ Len(notify') = Len(notify)
               /\ \A i \in 1 .. Len(notify) :
                    /\ OwnHandles(notify'[i])
                    /\ notify'[i].reg = notify[i].reg
               /\ \A e \in Held(exList') : \A i \in 1 .. Len(notify) : notify[i].reg \in regs'[e]
  BY <1>2, <1>3 DEF ServedInv, Served
<1>6. CASE StartNoMemory(d) \/ StartPlain(d)
  <2>1. UNCHANGED <<exList, notify, regs>>
    BY <1>6 DEF StartNoMemory, StartPlain, exVars
  <2> QED BY <1>3, <2>1
<1>7. CASE Stop(d)
  <2>1. UNCHANGED <<notify, regs>>
    BY <1>7 DEF Stop
  <2>2. Held(exList') \subseteq Held(exList)
    BY <1>1, <1>7, StopHeld
  <2> QED BY <1>3, <2>1, <2>2
<1>8. CASE Replug(d)
  <2>1. UNCHANGED <<exList, notify>> /\ d \notin opened /\ regs' = [regs EXCEPT ![d] = {}]
    BY <1>8 DEF Replug
  <2>2. \A e \in Held(exList) : regs'[e] = regs[e]
    BY <1>1, <2>1
  <2> QED BY <1>3, <2>1, <2>2
<1>9. ASSUME StartExNoMemory(d) \/ StartExRefused(d) \/ StartEx(d)
      PROVE  /\ Len(notify') = Len(notify)
             /\ \A i \in 1 .. Len(notify) :
                  OwnHandles(notify'[i]) /\ notify'[i].reg = notify[i].reg
             /\ d \notin opened
  <2>1. d \notin opened
    BY <1>9 DEF StartExNoMemory, StartExRefused, StartEx
  <2> QED BY <1>1, <1>3, <1>9, <2>1, NotifyKept
<1>10. CASE StartExNoMemory(d)
  <2>1. UNCHANGED <<exList, regs>>
    BY <1>10 DEF StartExNoMemory
  <2> QED BY <1>3, <1>9, <1>10, <2>1
<1>11. CASE StartExRefused(d)
  <2>1. exList' = exList /\ \E v : regs' = [regs EXCEPT ![d] = v]
    BY <1>11 DEF StartExRefused
  <2>2. \A e \in Held(exList) : regs'[e] = regs[e]
    BY <1>1, <1>9, <1>11, <2>1
  <2> QED BY <1>3, <1>9, <1>11, <2>1, <2>2
<1>12. CASE StartEx(d)
  <2>1. /\ exList' = Append(exList, d) /\ d \in ExDevices
        /\ regs' = [regs EXCEPT ![d] = RegisteredOn(d, Len(notify))]
    BY <1>12 DEF StartEx
  <2>2. Held(exList') = Held(exList) \cup {d}
    BY <1>1, <2>1, HeldAppended
  <2>3. \A e \in Held(exList) : regs'[e] = regs[e]
    BY <1>1, <1>9, <1>12, <2>1
  <2>4. regs'[d] = RegisteredOn(d, Len(notify))
    BY <1>1, <2>1
  <2>5. \A i \in 1 .. Len(notify) : notify[i].reg \in regs'[d]
    BY <2>4, RegisteredOnAll
  <2> QED BY <1>3, <1>9, <1>12, <2>2, <2>3, <2>5
<1> QED BY <1>4, <1>6, <1>7, <1>8, <1>10, <1>11, <1>12

\* A registration every keyboard takes, and one that some keyboard refuses: neither
\* is one of the list, so that taking it back takes none of the list with it.
LEMMA ServedRegister ==
    ASSUME PatternsApart, ConInAssumption, ServedInv, NEW r \in Regs,
           RegisterKeyNotify(r) \/ RegisterRefused(r), NotifyNext
    PROVE  ServedInv'
<1>1. /\ TypeOK /\ BuffersSuffice /\ Held(exList) \subseteq Devices
      /\ notify \in Seq(Notifies) /\ DOMAIN notify = 1 .. Len(notify) /\ Len(notify) \in Nat
      /\ \A i \in 1 .. Len(notify) : notify[i].reg \in Regs
      /\ \A d \in Devices : regs[d] \in SUBSET Regs
  BY ServedLists
<1>2. ListsInv'
  BY ListsNotify DEF ServedInv
<1>3. /\ \A i \in 1 .. Len(notify) : OwnHandles(notify[i])
      /\ \A i \in 1 .. Len(notify), d \in Held(exList) : notify[i].reg \in regs[d]
      /\ \A i, j \in 1 .. Len(notify) : notify[i].reg = notify[j].reg => i = j
  BY DEF ServedInv, Served
<1>4. \A i \in 1 .. Len(notify) : notify[i].reg # r
  BY <1>1, CoversSelf DEF RegisterKeyNotify, RegisterRefused, RegisteredAlready
<1>5. \A d \in Devices : Covering(regs[d], r) = r
  BY <1>1, CoveringApart
<1>6. CASE RegisterKeyNotify(r)
  <2> DEFINE e == NewEntry(r, Len(exList))
  <2>1. /\ notify' = Append(notify, e) /\ exList' = exList
        /\ regs' = [d \in Devices |->
                      IF d \in Held(exList) THEN DeviceRegister(d, r) ELSE regs[d]]
    BY <1>6 DEF RegisterKeyNotify
  <2>2. e \in Notifies /\ e.reg = r /\ OwnHandles(e)
    BY <1>1, NewEntryOf, LenProperties DEF TypeOK
  <2> HIDE DEF e
  <2>3. /\ Len(notify') = Len(notify) + 1
        /\ \A i \in 1 .. Len(notify) : notify'[i] = notify[i]
        /\ notify'[Len(notify) + 1] = e
    BY <1>1, <2>1, <2>2, AppendProperties
  <2>4. \A d \in Held(exList) : regs'[d] = regs[d] \cup {r}
    BY <1>1, <1>5, <2>1 DEF DeviceRegister
  <2>5. \A i \in 1 .. Len(notify) + 1 : i \in 1 .. Len(notify) \/ i = Len(notify) + 1
    BY <1>1
  <2>6. ASSUME NEW i \in 1 .. Len(notify')
        PROVE  OwnHandles(notify'[i]) /\ Served(i)'
    <3>1. CASE i \in 1 .. Len(notify)
      <4>1. notify'[i] = notify[i] /\ OwnHandles(notify[i])
        BY <1>3, <2>3, <3>1
      <4>2. \A d \in Held(exList) : notify[i].reg \in regs'[d]
        BY <1>3, <2>4, <3>1
      <4> QED BY <2>1, <4>1, <4>2 DEF Served
    <3>2. CASE i = Len(notify) + 1
      <4>1. notify'[i] = e
        BY <2>3, <3>2
      <4>2. \A d \in Held(exList) : e.reg \in regs'[d]
        BY <2>2, <2>4
      <4> QED BY <2>1, <2>2, <4>1, <4>2 DEF Served
    <3> QED BY <2>3, <2>5, <3>1, <3>2
  <2>7. \A i, j \in 1 .. Len(notify') : notify'[i].reg = notify'[j].reg => i = j
    BY <1>3, <1>4, <2>2, <2>3, <2>5
  <2> QED BY <1>2, <2>6, <2>7 DEF ServedInv
<1>7. CASE RegisterRefused(r)
  <2>1. notify' = notify /\ exList' = exList
    BY <1>7 DEF RegisterRefused
  <2>2. PICK k \in DOMAIN exList :
           regs' = [d \in Devices |->
                      IF d \in Held(SubSeq(exList, 1, k - 1))
                      THEN DeviceRegister(d, r) \ {Covering(regs[d], r)} ELSE regs[d]]
    BY <1>7 DEF RegisterRefused
  <2>3. \A d \in Devices : regs[d] \ {r} \subseteq regs'[d]
    BY <1>5, <2>2 DEF DeviceRegister
  <2>4. \A i \in 1 .. Len(notify) : \A d \in Held(exList) : notify[i].reg \in regs'[d]
    BY <1>1, <1>3, <1>4, <2>3
  <2> QED BY <1>2, <1>3, <2>1, <2>4 DEF ServedInv, Served
<1> QED BY <1>6, <1>7

\* Taking one registration back.
LEMMA ServedUnregister ==
    ASSUME ConInAssumption, ServedInv, NEW k \in DOMAIN notify, UnregisterKeyNotify(k)
    PROVE  ServedInv'
<1>1. /\ TypeOK /\ Held(exList) \subseteq Devices
      /\ notify \in Seq(Notifies) /\ DOMAIN notify = 1 .. Len(notify) /\ Len(notify) \in Nat
  BY ServedLists
<1>2. ListsInv'
  <2>1. NotifyNext
    BY DEF NotifyNext
  <2> QED BY <2>1, ListsNotify DEF ServedInv
<1>3. /\ \A i \in 1 .. Len(notify) : OwnHandles(notify[i])
      /\ \A i \in 1 .. Len(notify), d \in Held(exList) : notify[i].reg \in regs[d]
      /\ \A i, j \in 1 .. Len(notify) : notify[i].reg = notify[j].reg => i = j
  BY SMTT(40) DEF ServedInv, Served
<1>4. /\ exList' = exList /\ notify' = RemoveAt(notify, k)
      /\ regs' = [d \in Devices |->
                    LET at == {j \in DOMAIN exList : exList[j] = d}
                    IN  IF at = {} THEN regs[d]
                        ELSE DeviceUnregister(d, notify[k].handles[CHOOSE j \in at : TRUE])]
  BY DEF UnregisterKeyNotify
<1>5. /\ Len(notify') = Len(notify) - 1
      /\ \A i \in 1 .. Len(notify) - 1 : notify'[i] = IF i < k THEN notify[i] ELSE notify[i + 1]
  BY <1>1, <1>4, Removed
<1>6. ASSUME NEW d \in Held(exList)
      PROVE  regs[d] \ {notify[k].reg} \subseteq regs'[d]
  <2> DEFINE j == CHOOSE j \in {j \in DOMAIN exList : exList[j] = d} : TRUE
             h == notify[k].handles[j]
  <2>1. j \in DOMAIN exList /\ {m \in DOMAIN exList : exList[m] = d} # {}
    BY DEF Held
  <2>2. regs'[d] = DeviceUnregister(d, h)
    BY <1>1, <1>4, <2>1
  <2>3. j \in 1 .. Len(notify[k].handles)
    <3>1. /\ DOMAIN exList = 1 .. Len(exList) /\ Len(exList) \in Nat /\ exCap \in Nat
          /\ Len(exList) <= exCap /\ Len(notify[k].handles) >= exCap
      BY <1>1, ServedLists, LenProperties DEF TypeOK, BuffersSuffice
    <3>2. Len(notify[k].handles) \in Nat
      BY <1>1, ElementOfSeq, LenProperties DEF Notifies
    <3> HIDE DEF j
    <3> QED BY <2>1, <3>1, <3>2
  <2> HIDE DEF j
  <2>4. h # NoHandle => h.reg = notify[k].reg
    BY <1>1, <1>3, <2>3 DEF OwnHandles
  <2> HIDE DEF h
  <2> QED BY <2>2, <2>4 DEF DeviceUnregister
<1>7. ASSUME NEW i \in 1 .. Len(notify')
      PROVE  \E m \in 1 .. Len(notify) :
                m # k /\ notify'[i] = notify[m] /\ m = IF i < k THEN i ELSE i + 1
  <2>1. CASE i < k
    BY <1>1, <1>5, <2>1
  <2>2. CASE ~(i < k)
    BY <1>1, <1>5, <2>2
  <2> QED BY <2>1, <2>2
<1>8. ASSUME NEW i \in 1 .. Len(notify')
      PROVE  OwnHandles(notify'[i]) /\ Served(i)'
  <2>1. PICK m \in 1 .. Len(notify) : m # k /\ notify'[i] = notify[m]
    BY <1>7
  <2>2. notify[m].reg # notify[k].reg
    BY <1>1, <1>3, <2>1
  <2>3. \A d \in Held(exList) : notify[m].reg \in regs'[d]
    BY <1>3, <1>6, <2>2
  <2> QED BY <1>3, <1>4, <2>1, <2>3 DEF Served
<1>9. ASSUME NEW i \in 1 .. Len(notify'), NEW j \in 1 .. Len(notify'),
             notify'[i].reg = notify'[j].reg
      PROVE  i = j
  <2>1. PICK m \in 1 .. Len(notify) :
           notify'[i] = notify[m] /\ m = IF i < k THEN i ELSE i + 1
    BY <1>7
  <2>2. PICK n \in 1 .. Len(notify) :
           notify'[j] = notify[n] /\ n = IF j < k THEN j ELSE j + 1
    BY <1>7
  <2>3. m = n
    BY <1>3, <1>9, <2>1, <2>2
  <2>4. i \in Nat /\ j \in Nat /\ k \in Nat
    BY <1>1, <1>5
  <2> QED BY <2>1, <2>2, <2>3, <2>4
<1> QED BY <1>2, <1>8, <1>9 DEF ServedInv

\* A step of the driver or its devices keeps the invariant.
LEMMA ServedStep ==
    ASSUME PatternsApart, ConInAssumption, ServedInv, [Next]_vars
    PROVE  ServedInv'
<1>1. CASE BindingNext
  BY <1>1, ServedBinding
<1>2. CASE NotifyNext
  BY <1>2, ServedRegister, ServedUnregister, RegisteredTypes DEF NotifyNext
<1>3. CASE UNCHANGED <<binding, exVars, queueCap>>
  <2>1. ListsInv'
    BY ListsStep DEF ServedInv
  <2>2. UNCHANGED <<exList, notify, regs>>
    BY <1>3 DEF exVars
  <2> QED BY <2>1, <2>2 DEF ServedInv, Served
<1>4. CASE UNCHANGED vars
  BY <1>3, <1>4 DEF vars
<1> QED BY <1>1, <1>2, <1>3, <1>4, ListsUntouched DEF Next

\* It holds at the start, when ToggleStateSyncKeyNotify is all there is.
LEMMA ServedInit == ASSUME ConInAssumption, Init PROVE ServedInv
<1>1. ListsInv
  BY ListsInit
<1>2. notify = <<SyncEntry>> /\ exList = <<>>
  BY DEF Init
<1>3. Len(notify) = 1 /\ notify[1] = SyncEntry /\ Held(exList) = {}
  BY <1>2 DEF Held
<1>4. OwnHandles(SyncEntry)
  <2>1. SyncEntry.handles = [i \in 1 .. AllocUnit |-> NoHandle] /\ AllocUnit \in Nat
    BY DEF SyncEntry, ConInAssumption
  <2>2. SyncEntry.handles \in [1 .. AllocUnit -> HandleSlots]
    BY <2>1 DEF HandleSlots
  <2>3. Len(SyncEntry.handles) = AllocUnit
    BY <2>1, <2>2, FunctionIsSeq
  <2> QED BY <2>1, <2>3 DEF OwnHandles
<1> QED BY <1>1, <1>3, <1>4 DEF ServedInv, Served

\* When no client's pattern covers another's, every notification of the list is
\* registered on every keyboard, itself and not one that merely covers it: for any
\* keyboards, any clients and any order of joining, leaving, registering and refusing.
THEOREM ConsoleInNotified == PatternsApart => (Spec => []NotifyEverywhere)
<1>1. Init => ServedInv
  BY ConInAssumption, ServedInit
<1>2. PatternsApart /\ ServedInv /\ [Next]_vars => ServedInv'
  BY ConInAssumption, ServedStep
<1>3. ServedInv => NotifyEverywhere
  <2> SUFFICES ASSUME ServedInv, NEW i \in DOMAIN notify, NEW d \in Held(exList)
               PROVE  \E r \in regs[d] : Covers(r, notify[i].reg)
    BY DEF NotifyEverywhere
  <2>1. i \in 1 .. Len(notify)
    BY ConInAssumption, ServedLists
  <2>2. notify[i].reg \in regs[d]
    BY <2>1 DEF ServedInv, Served
  <2> QED BY <2>2, CoversSelf
<1> QED
  <2> SUFFICES ASSUME PatternsApart PROVE Spec => []NotifyEverywhere
    OBVIOUS
  <2>1. ServedInv /\ [Next]_vars => ServedInv'
    BY <1>2
  <2> QED BY <1>1, <1>3, <2>1, PTL DEF Spec
=============================================================================
