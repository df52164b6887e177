---------------------------- MODULE Keypad_proofs ----------------------------
(* Theorems about Keypad, for every ring size and every set of keys,        *)
(* registrations and notification functions.                                *)
EXTENDS Keypad, SequenceTheorems, FiniteSetTheorems, TLAPS

-----------------------------------------------------------------------------
(* The ring of KeyRing as a sequence: what each operation does to Contents, *)
(* for every ring size.                                                     *)

\* Succ is the step to the next slot, back to slot 0 after the last.
LEMMA SuccStep ==
    ASSUME NEW i \in Slots
    PROVE  Succ(i) = (IF i + 1 = RingSize THEN 0 ELSE i + 1)
<1> USE RingAssumption DEF Slots, Succ
<1>1. CASE i + 1 = RingSize
  <2>1. RingSize % RingSize = 0
    BY RingAssumption
  <2> QED BY <1>1, <2>1
<1>2. CASE i + 1 # RingSize
  <2>1. i + 1 \in 0 .. RingSize - 1
    BY <1>2
  <2>2. (i + 1) % RingSize = i + 1
    BY <2>1
  <2> QED BY <1>2, <2>2
<1> QED BY <1>1, <1>2

LEMMA SuccType == ASSUME NEW i \in Slots PROVE Succ(i) \in Slots
  BY SuccStep, RingAssumption DEF Slots

\* The contents of a ring: at most RingSize - 1 keys, none when it is empty.
LEMMA ContentsSeq ==
  ASSUME NEW S, NEW q \in Rings(S)
  PROVE  /\ Count(q) \in 0 .. RingSize - 1
         /\ \A i \in 0 .. RingSize - 1 : SlotOf(q, i) \in Slots
         /\ Contents(q) \in Seq(S \cup {NoStroke})
         /\ Len(Contents(q)) = Count(q)
         /\ Count(q) = 0 <=> IsEfikeyBufEmpty(q)
<1>1. Count(q) \in 0 .. RingSize - 1
  BY RingAssumption DEF Count, Rings, Slots
<1>2. \A i \in 0 .. RingSize - 1 : SlotOf(q, i) \in Slots
  BY RingAssumption DEF SlotOf, Rings, Slots
<1>3. \A i \in 1 .. Count(q) : q.buf[SlotOf(q, i - 1)] \in S \cup {NoStroke}
  BY SMTT(40), <1>1, <1>2, RingAssumption DEF Rings, Slots
<1>4. Contents(q) \in [1 .. Count(q) -> S \cup {NoStroke}]
  BY <1>3 DEF Contents
<1>5. Count(q) = 0 <=> IsEfikeyBufEmpty(q)
  BY RingAssumption DEF Count, Rings, Slots, IsEfikeyBufEmpty
<1> QED
  BY <1>1, <1>2, <1>4, <1>5

\* Popping takes the oldest key.
LEMMA PopRing ==
  ASSUME NEW S, NEW q \in Rings(S), ~IsEfikeyBufEmpty(q)
  PROVE  /\ PopEfikeyBufHead(q) \in Rings(S)
         /\ Contents(q) # <<>>
         /\ HeadKey(q) = Head(Contents(q))
         /\ Contents(PopEfikeyBufHead(q)) = Tail(Contents(q))
<1> DEFINE p == PopEfikeyBufHead(q)
<1>0. q.head \in Slots /\ q.tail \in Slots /\ q.head # q.tail
  BY DEF Rings, IsEfikeyBufEmpty
<1>1. p = [q EXCEPT !.head = Succ(q.head)] /\ Succ(q.head) \in Slots
  BY <1>0, SuccType DEF PopEfikeyBufHead
<1>2. p \in Rings(S) /\ p.head = Succ(q.head) /\ p.tail = q.tail /\ p.buf = q.buf
  BY <1>1 DEF Rings
<1>3. /\ Count(q) > 0 /\ Count(q) \in 0 .. RingSize - 1
      /\ Contents(q) \in Seq(S \cup {NoStroke}) /\ Len(Contents(q)) = Count(q)
  <2>1. Count(q) \in 0 .. RingSize - 1 /\ Count(q) # 0
    BY ContentsSeq
  <2> QED BY <2>1, ContentsSeq, RingAssumption
<1>4. Count(p) = Count(q) - 1
  BY <1>0, <1>2, SuccStep, RingAssumption DEF Count, Slots
<1>5. \A i \in 0 .. RingSize - 2 : SlotOf(p, i) = SlotOf(q, i + 1)
  BY <1>0, <1>2, SuccStep, RingAssumption DEF SlotOf, Slots
<1>6. Contents(q) # <<>> /\ Contents(q)[1] = q.buf[q.head]
  BY <1>0, <1>3, RingAssumption DEF Contents, SlotOf, Slots
<1>7. Contents(p) = Tail(Contents(q))
  <2>1. /\ Tail(Contents(q)) \in Seq(S \cup {NoStroke})
        /\ Len(Tail(Contents(q))) = Count(q) - 1
        /\ \A i \in 1 .. Count(q) - 1 : Tail(Contents(q))[i] = Contents(q)[i + 1]
    BY <1>3, <1>6, HeadTailProperties
  <2>2. \A i \in 1 .. Count(q) - 1 : Contents(q)[i + 1] = q.buf[SlotOf(q, i)]
    BY <1>3 DEF Contents
  <2>3. \A i \in 1 .. Count(q) - 1 : p.buf[SlotOf(p, i - 1)] = q.buf[SlotOf(q, i)]
    <3>1. \A i \in 1 .. Count(q) - 1 : i - 1 \in 0 .. RingSize - 2
      BY <1>3, RingAssumption
    <3> HIDE DEF p
    <3> QED BY <1>2, <1>5, <3>1
  <2>4. \A i \in 1 .. Count(q) - 1 : Contents(p)[i] = p.buf[SlotOf(p, i - 1)]
    BY <1>4 DEF Contents
  <2>5. Contents(p) \in Seq(S \cup {NoStroke}) /\ Len(Contents(p)) = Count(q) - 1
    BY <1>2, <1>4, ContentsSeq
  <2> HIDE DEF p
  <2> QED
    BY SMTT(40), <2>1, <2>2, <2>3, <2>4, <2>5, SeqEqual
<1> QED
  BY <1>2, <1>6, <1>7 DEF HeadKey

\* What PushEfikeyBufTail does once there is room.
Filled(q, k) == [q EXCEPT !.buf[q.tail] = k, !.tail = Succ(@)]

\* Pushing appends when there is room.
LEMMA PushRoom ==
  ASSUME NEW S, NEW q \in Rings(S), NEW k \in S, Succ(q.tail) # q.head
  PROVE  /\ Filled(q, k) \in Rings(S)
         /\ Len(Contents(q)) < RingSize - 1
         /\ Contents(Filled(q, k)) = Append(Contents(q), k)
<1> DEFINE p == [q EXCEPT !.buf[q.tail] = k, !.tail = Succ(@)]
<1>0. q.head \in Slots /\ q.tail \in Slots /\ Succ(q.tail) \in Slots
  BY SuccType DEF Rings
<1>1. /\ p \in Rings(S) /\ p.head = q.head /\ p.tail = Succ(q.tail)
      /\ p.buf = [q.buf EXCEPT ![q.tail] = k]
  BY <1>0 DEF Rings
<1>2. Count(q) \in 0 .. RingSize - 2 /\ Count(p) = Count(q) + 1
  BY <1>0, <1>1, SuccStep, RingAssumption DEF Count, Slots
<1>3. SlotOf(q, Count(q)) = q.tail
  BY <1>0, RingAssumption DEF SlotOf, Count, Slots
<1>4. \A i \in 0 .. Count(q) - 1 : SlotOf(q, i) # q.tail
  BY <1>0, <1>2, RingAssumption DEF SlotOf, Count, Slots
<1>5. \A i \in 0 .. RingSize - 1 : SlotOf(p, i) = SlotOf(q, i)
  BY <1>1 DEF SlotOf
<1>6. \A i \in 0 .. RingSize - 1 : SlotOf(q, i) \in Slots
  BY ContentsSeq
<1>7. \A i \in 1 .. Count(q) : p.buf[SlotOf(p, i - 1)] = q.buf[SlotOf(q, i - 1)]
  <2> HIDE DEF p
  <2> SUFFICES ASSUME NEW i \in 1 .. Count(q)
               PROVE  p.buf[SlotOf(p, i - 1)] = q.buf[SlotOf(q, i - 1)]
    OBVIOUS
  <2>1. i - 1 \in 0 .. Count(q) - 1 /\ i - 1 \in 0 .. RingSize - 1
    BY <1>2, RingAssumption
  <2> QED BY <1>1, <1>4, <1>5, <1>6, <2>1 DEF Rings
<1>8. p.buf[SlotOf(p, Count(q))] = k
  <2> HIDE DEF p
  <2>1. Count(q) \in 0 .. RingSize - 1
    BY <1>2, RingAssumption
  <2> QED BY <1>0, <1>1, <1>3, <1>5, <2>1 DEF Rings
<1>9. Contents(p) = Append(Contents(q), k)
  <2> HIDE DEF p
  <2>1. Contents(p) = [i \in 1 .. Count(q) + 1 |-> p.buf[SlotOf(p, i - 1)]]
    BY <1>2 DEF Contents
  <2>2. \A i \in 1 .. Count(q) : Contents(q)[i] = q.buf[SlotOf(q, i - 1)]
    BY DEF Contents
  <2>3. Len(Contents(q)) = Count(q) /\ Contents(q) \in Seq(S \cup {NoStroke})
    BY ContentsSeq
  <2>4. /\ Append(Contents(q), k) \in Seq(S \cup {NoStroke})
        /\ Len(Append(Contents(q), k)) = Count(q) + 1
        /\ \A i \in 1 .. Count(q) + 1 : Append(Contents(q), k)[i]
              = IF i = Count(q) + 1 THEN k ELSE Contents(q)[i]
    BY <1>2, <2>3, RingAssumption
  <2>5. \A i \in 1 .. Count(q) + 1 :
           p.buf[SlotOf(p, i - 1)] = IF i = Count(q) + 1 THEN k ELSE Contents(q)[i]
    BY <1>2, <1>7, <1>8, <2>2, RingAssumption
  <2>6. Contents(p) \in Seq(S \cup {NoStroke}) /\ Len(Contents(p)) = Count(q) + 1
    BY <1>1, <1>2, ContentsSeq
  <2>7. \A i \in 1 .. Count(q) + 1 : Contents(p)[i] = Append(Contents(q), k)[i]
    BY <2>1, <2>4, <2>5
  <2> QED BY <2>4, <2>6, <2>7, SeqEqual
<1>10. Len(Contents(q)) = Count(q)
  BY ContentsSeq
<1>11. Filled(q, k) = p
  BY DEF Filled
<1> HIDE DEF p
<1> QED
  BY <1>1, <1>2, <1>9, <1>10, <1>11, RingAssumption

\* Pushing into a full ring drops the oldest key and no other.
LEMMA PushRing ==
  ASSUME NEW S, NEW q \in Rings(S), NEW k \in S
  PROVE  /\ PushEfikeyBufTail(q, k) \in Rings(S)
         /\ ~IsEfikeyBufEmpty(PushEfikeyBufTail(q, k))
         /\ Contents(PushEfikeyBufTail(q, k))
              = Append(IF Len(Contents(q)) < RingSize - 1 THEN Contents(q)
                       ELSE Tail(Contents(q)), k)
<1>0. q.head \in Slots /\ q.tail \in Slots /\ Succ(q.tail) \in Slots
  BY SuccType DEF Rings
<1>1. CASE Succ(q.tail) # q.head
  <2>1. PushEfikeyBufTail(q, k) = Filled(q, k)
    BY <1>1 DEF PushEfikeyBufTail, Filled
  <2>2. ~IsEfikeyBufEmpty(PushEfikeyBufTail(q, k))
    BY <1>0, <1>1, <2>1 DEF IsEfikeyBufEmpty, Rings, Filled
  <2> QED BY <1>1, <2>1, <2>2, PushRoom
<1>2. CASE Succ(q.tail) = q.head
  <2> DEFINE r == PopEfikeyBufHead(q)
  <2>1. q.head # q.tail
    BY <1>0, <1>2, SuccStep, RingAssumption DEF Slots
  <2>2. r \in Rings(S) /\ Contents(r) = Tail(Contents(q))
    BY <2>1, PopRing DEF IsEfikeyBufEmpty
  <2>3. r.head = Succ(q.head) /\ r.tail = q.tail
    BY <2>1 DEF PopEfikeyBufHead, IsEfikeyBufEmpty, Rings
  <2>4. Succ(r.tail) # r.head
    BY <1>0, <1>2, <2>3, SuccStep, RingAssumption DEF Slots
  <2>5. Len(Contents(q)) = RingSize - 1
    <3>1. Count(q) = RingSize - 1
      BY <1>0, <1>2, SuccStep, RingAssumption DEF Count, Slots
    <3> QED BY <3>1, ContentsSeq
  <2>6. PushEfikeyBufTail(q, k) = Filled(r, k)
    BY <1>2 DEF PushEfikeyBufTail, Filled
  <2>7. ~IsEfikeyBufEmpty(PushEfikeyBufTail(q, k))
    BY <2>2, <2>4, <2>6 DEF IsEfikeyBufEmpty, Rings, Filled
  <2>8. RingSize - 1 \in Nat /\ ~(RingSize - 1 < RingSize - 1)
    BY RingAssumption
  <2> HIDE DEF r
  <2>9. PushEfikeyBufTail(q, k) \in Rings(S)
        /\ Contents(PushEfikeyBufTail(q, k)) = Append(Contents(r), k)
    BY <2>2, <2>4, <2>6, PushRoom
  <2>10. Contents(PushEfikeyBufTail(q, k)) = Append(Tail(Contents(q)), k)
    BY <2>2, <2>9
  <2>11. (IF Len(Contents(q)) < RingSize - 1 THEN Contents(q)
         ELSE Tail(Contents(q))) = Tail(Contents(q))
    BY <2>5, <2>8
  <2> QED BY <2>7, <2>9, <2>10, <2>11
<1> QED BY <1>1, <1>2

LEMMA ClearedRing ==
  ASSUME NEW S
  PROVE  /\ EmptyRing \in Rings(S) /\ Contents(EmptyRing) = <<>>
         /\ IsEfikeyBufEmpty(EmptyRing)
         /\ \A q \in Rings(S) : /\ ClearRing(q) \in Rings(S)
                                /\ Contents(ClearRing(q)) = <<>>
                                /\ IsEfikeyBufEmpty(ClearRing(q))
<1>1. EmptyRing \in Rings(S) /\ IsEfikeyBufEmpty(EmptyRing)
  BY RingAssumption DEF EmptyRing, Rings, Slots, IsEfikeyBufEmpty
<1>2. \A q \in Rings(S) : ClearRing(q) \in Rings(S) /\ IsEfikeyBufEmpty(ClearRing(q))
  <2>1. 0 \in Slots
    BY RingAssumption DEF Slots
  <2> QED BY <2>1 DEF ClearRing, Rings, IsEfikeyBufEmpty
<1>3. ASSUME NEW q \in Rings(S), IsEfikeyBufEmpty(q) PROVE Contents(q) = <<>>
  <2>1. Contents(q) \in Seq(S \cup {NoStroke}) /\ Len(Contents(q)) = 0
    BY <1>3, ContentsSeq
  <2> QED BY <2>1
<1> QED BY <1>1, <1>2, <1>3

-----------------------------------------------------------------------------
(* The driver.                                                             *)

\* The inductive invariant.  Only a driver that is ready has registrations,
\* so only then can a stroke be due to one or the handler be at work, but
\* for a handler under whose function the driver was stopped.  The handler is
\* at the end of the list unless it walks or calls, and it walks on the list.
Shape ==
    /\ handler.pc \in {"idle", "pop"} => handler.link = End
    /\ handler.pc = "call" => handler.link # End
    /\ handler.pc = "walk" => OnNode
    /\ phase # "ready" => /\ list = <<>> /\ holder.copies = 0
                          /\ handler.pc \in {"idle", "call", "lost"}
                          /\ handler.pc = "idle" => ~signalled
    /\ phase = "starting" => handler.pc = "idle"

IInv == TypeOK /\ Shape /\ NotifyWakeup

USE KeypadAssumption

-----------------------------------------------------------------------------
(* The notification list.                                                   *)

LEMMA NodeFacts ==
  ASSUME list \in Seq(Entries), NEW h \in Registered
  PROVE  /\ GetNextNode(h) \in Registered \cup {End}
         /\ h \in Handles
<1> DEFINE i == CHOOSE j \in DOMAIN list : list[j].handle = h
<1>1. i \in DOMAIN list /\ list[i].handle = h
  BY DEF Registered
<1>2. DOMAIN list = 1 .. Len(list) /\ Len(list) \in Nat
  OBVIOUS
<1>5. h \in Handles
  <2>1. list[i] \in Entries
    BY <1>1
  <2> QED BY <1>1, <2>1 DEF Entries
<1>6. GetNextNode(h) = IF i = Len(list) THEN End ELSE list[i + 1].handle
  BY DEF GetNextNode
<1> HIDE DEF i
<1>3. CASE i = Len(list)
  BY <1>5, <1>6, <1>3
<1>4. CASE i # Len(list)
  <2>1. i + 1 \in DOMAIN list
    BY <1>1, <1>2, <1>4
  <2> QED BY <1>4, <1>5, <1>6, <2>1 DEF Registered
<1> QED BY <1>3, <1>4

LEMMA FirstNode ==
  ASSUME list \in Seq(Entries)
  PROVE  GetFirstNode \in Registered \cup {End}
  BY DEF GetFirstNode, Registered

LEMMA RegisteredHandles ==
  ASSUME list \in Seq(Entries) PROVE Registered \subseteq Handles
<1> SUFFICES ASSUME NEW i \in DOMAIN list PROVE list[i].handle \in Handles
  BY DEF Registered
<1>1. list[i] \in Entries
  OBVIOUS
<1> QED BY <1>1 DEF Entries

LEMMA AppendEntry ==
  ASSUME list \in Seq(Entries), NEW e \in Entries, list' = Append(list, e)
  PROVE  list' \in Seq(Entries) /\ Registered \subseteq Registered'
<1>1. list' \in Seq(Entries) /\ Len(list') = Len(list) + 1 /\ Len(list) \in Nat
  OBVIOUS
<1>2. \A i \in DOMAIN list : i \in DOMAIN list' /\ list'[i] = list[i]
  OBVIOUS
<1> QED BY <1>1, <1>2 DEF Registered

LEMMA WithoutEntry ==
  ASSUME list \in Seq(Entries), NEW h \in Registered, list' = Without(h)
  PROVE  list' \in Seq(Entries) /\ Registered \ {h} \subseteq Registered'
<1> DEFINE i == CHOOSE j \in DOMAIN list : list[j].handle = h
           a == SubSeq(list, 1, i - 1)
           b == SubSeq(list, i + 1, Len(list))
<1>1. i \in 1 .. Len(list) /\ list[i].handle = h /\ Len(list) \in Nat
  BY DEF Registered
<1> HIDE DEF i
<1>2. /\ a \in Seq(Entries) /\ Len(a) = i - 1
      /\ \A j \in 1 .. i - 1 : a[j] = list[j]
  <2>1. \A j \in 1 .. i - 1 : list[j] \in Entries
    BY <1>1
  <2> QED BY <1>1, <2>1, SubSeqProperties
<1>3. /\ b \in Seq(Entries) /\ Len(b) = Len(list) - i
      /\ \A j \in 1 .. Len(list) - i : b[j] = list[i + j]
  <2>1. \A j \in i + 1 .. Len(list) : list[j] \in Entries
    BY <1>1
  <2>2. Len(b) = IF i + 1 <= Len(list) THEN Len(list) - (i + 1) + 1 ELSE 0
    BY <1>1, <2>1, SubSeqProperties
  <2>3. b \in Seq(Entries)
        /\ \A j \in 1 .. Len(list) - (i + 1) + 1 : b[j] = list[(i + 1) + j - 1]
    BY <1>1, <2>1, SubSeqProperties
  <2>4. \A j \in 1 .. Len(list) - i : b[j] = list[i + j]
    <3> HIDE DEF b
    <3> TAKE j \in 1 .. Len(list) - i
    <3>1. j \in 1 .. Len(list) - (i + 1) + 1 /\ (i + 1) + j - 1 = i + j
      BY <1>1
    <3> QED BY <2>3, <3>1
  <2> QED BY <1>1, <2>2, <2>3, <2>4
<1>4. list' = a \o b
  BY DEF Without, i
<1> HIDE DEF a, b
<1>5. /\ list' \in Seq(Entries) /\ Len(list') = Len(list) - 1
      /\ \A j \in 1 .. Len(list) - 1 :
           list'[j] = IF j <= i - 1 THEN a[j] ELSE b[j - (i - 1)]
  <2>1. /\ a \o b \in Seq(Entries) /\ Len(a \o b) = Len(a) + Len(b)
        /\ \A j \in 1 .. Len(a) + Len(b) : (a \o b)[j] =
               IF j <= Len(a) THEN a[j] ELSE b[j - Len(a)]
    BY ZenonT(60), <1>2, <1>3, ConcatProperties
  <2>2. Len(a) + Len(b) = Len(list) - 1
    BY <1>1, <1>2, <1>3
  <2> QED BY <1>2, <1>4, <2>1, <2>2
<1>6. ASSUME NEW k \in 1 .. Len(list), list[k].handle # h
      PROVE  \E j \in 1 .. Len(list) - 1 : list'[j] = list[k]
  <2>1. CASE k < i
    <3>1. k \in 1 .. i - 1 /\ k \in 1 .. Len(list) - 1 /\ k <= i - 1
      BY <1>1, <2>1
    <3>2. list'[k] = a[k] /\ a[k] = list[k]
      BY <1>2, <1>5, <3>1
    <3> QED BY <3>1, <3>2
  <2>2. CASE k > i
    <3>1. k - 1 \in 1 .. Len(list) - 1 /\ ~(k - 1 <= i - 1)
      BY <1>1, <2>2
    <3>2. (k - 1) - (i - 1) = k - i /\ k - i \in 1 .. Len(list) - i /\ i + (k - i) = k
      BY <1>1, <2>2
    <3>3. list'[k - 1] = b[k - i] /\ b[k - i] = list[k]
      BY <1>3, <1>5, <3>1, <3>2
    <3> QED BY <3>1, <3>3
  <2>3. k # i
    BY <1>1, <1>6
  <2> QED BY <1>1, <2>1, <2>2, <2>3
<1> QED
  <2>1. DOMAIN list = 1 .. Len(list) /\ DOMAIN list' = 1 .. Len(list) - 1
    BY <1>1, <1>5
  <2>2. ASSUME NEW g \in Registered \ {h} PROVE g \in Registered'
    <3>1. PICK k \in 1 .. Len(list) : list[k].handle = g
      BY <2>1 DEF Registered
    <3>2. PICK j \in 1 .. Len(list) - 1 : list'[j] = list[k]
      BY <1>6, <3>1
    <3> QED BY <2>1, <3>1, <3>2 DEF Registered
  <2> QED BY <1>5, <2>2

LEMMA WantingCard ==
  ASSUME list \in Seq(Entries), NEW k
  PROVE  /\ Cardinality(Wanting(k)) \in Nat
         /\ list = <<>> => Cardinality(Wanting(k)) = 0
<1>1. DOMAIN list = 1 .. Len(list) /\ Len(list) \in Nat
  OBVIOUS
<1>2. IsFiniteSet(1 .. Len(list))
  BY <1>1, FS_Interval
<1>3. Wanting(k) \subseteq 1 .. Len(list)
  BY <1>1 DEF Wanting
<1>4. Cardinality(Wanting(k)) \in Nat
  BY <1>2, <1>3, FS_Subset, FS_CardinalityType
<1>5. list = <<>> => Wanting(k) = {}
  BY DEF Wanting
<1> QED BY <1>4, <1>5, FS_EmptySet

-----------------------------------------------------------------------------
(* Every action keeps the invariant.                                        *)

LEMMA StrokeNumber == \A s \in Strokes : s # NoStroke
  BY DEF Strokes

LEMMA InitInv == Init => IInv
<1> SUFFICES ASSUME Init PROVE IInv
  OBVIOUS
<1>1. ring \in Rings(Strokes) /\ nring \in Rings(Strokes) /\ IsEfikeyBufEmpty(nring)
  BY ClearedRing DEF Init
<1>2. Free \in Holders /\ Free.copies = 0
  BY DEF Free, Holders
<1>3. list \in Seq(Entries)
  BY DEF Init
<1>4. handler = [pc |-> "idle", stroke |-> NoStroke, link |-> End]
  BY DEF Init, AtRest
<1>5. Shape /\ NotifyWakeup
  BY <1>1, <1>2, <1>4 DEF Init, Shape, OnNode, NotifyWakeup
<1>6. strokes \in 0 .. MaxStrokes
  BY DEF Init
<1>7. /\ phase \in {"absent", "starting", "ready"} /\ holder \in Holders
      /\ events \subseteq Events /\ orphans \subseteq Events
      /\ exposed \in BOOLEAN /\ signalled \in BOOLEAN /\ reading \subseteq Clients
  BY <1>2 DEF Init
<1>8. TypeOK
  BY <1>1, <1>3, <1>4, <1>6, <1>7 DEF TypeOK
<1> QED
  BY <1>5, <1>8 DEF IInv

\* The actions that start and end a poll, and the dispatch.
LEMMA PollInv ==
  ASSUME IInv,
         \/ TimerTick
         \/ \E c \in Clients, op \in {"read", "readEx", "wait"} : EnterPoll(c, op)
         \/ PollDone \/ WaitDone \/ Dispatch
  PROVE  IInv'
<1> USE DEF IInv, TypeOK, Shape, OnNode, NotifyWakeup, IsEfikeyBufEmpty,
            Registered, Holders, Free, Clients
<1>1. CASE TimerTick
  BY <1>1 DEF TimerTick
<1>2. CASE \E c \in Clients, op \in {"read", "readEx", "wait"} : EnterPoll(c, op)
  <2>1. PICK c \in Clients, op \in {"read", "readEx", "wait"} : EnterPoll(c, op)
    BY <1>2
  <2>2. holder' = [by |-> c, op |-> op, stroke |-> NoStroke, copies |-> 0]
    BY <2>1 DEF EnterPoll
  <2>3. holder' \in Holders /\ reading' \subseteq Clients
    BY <2>1, <2>2 DEF EnterPoll
  <2> QED BY <2>1, <2>2, <2>3 DEF EnterPoll
<1>3. CASE PollDone
  BY <1>3 DEF PollDone
<1>4. CASE WaitDone
  BY <1>4 DEF WaitDone
<1>5. CASE Dispatch
  BY <1>5 DEF Dispatch
<1> QED BY <1>1, <1>2, <1>3, <1>4, <1>5

\* Popping, from an empty ring too.
LEMMA PopType ==
  ASSUME NEW S, NEW q \in Rings(S) PROVE PopEfikeyBufHead(q) \in Rings(S)
<1>1. CASE IsEfikeyBufEmpty(q)
  BY <1>1 DEF PopEfikeyBufHead
<1>2. CASE ~IsEfikeyBufEmpty(q)
  BY <1>2, PopRing
<1> QED BY <1>1, <1>2

\* The device hands over a stroke; it is queued for the notifications and
\* the readers.
LEMMA PushInv ==
  ASSUME IInv,
         \/ \E k \in Keys : KeypadReturnApiPushEfikeyBufTail(k)
         \/ QueueForNotify \/ QueueForReaders
  PROVE  IInv'
<1> USE DEF IInv, TypeOK, Shape, OnNode, NotifyWakeup, Registered
<1>1. ASSUME NEW k \in Keys, KeypadReturnApiPushEfikeyBufTail(k) PROVE IInv'
  <2>1. [key |-> k, n |-> strokes + 1] \in Strokes /\ strokes + 1 \in 0 .. MaxStrokes
    <3>1. strokes \in 0 .. MaxStrokes /\ strokes < MaxStrokes /\ MaxStrokes \in Nat
      BY <1>1 DEF KeypadReturnApiPushEfikeyBufTail
    <3>2. strokes + 1 \in 1 .. MaxStrokes /\ strokes + 1 \in 0 .. MaxStrokes
      BY <3>1
    <3> QED BY <3>2 DEF Strokes
  <2>2. /\ Cardinality(Wanting(k)) \in Nat
        /\ phase # "ready" => Cardinality(Wanting(k)) = 0
    BY WantingCard
  <2>3. holder' \in Holders /\ holder'.copies = Cardinality(Wanting(k))
    BY <1>1, <2>1, <2>2 DEF KeypadReturnApiPushEfikeyBufTail, Holders
  <2> QED BY <1>1, <2>1, <2>2, <2>3
          DEF KeypadReturnApiPushEfikeyBufTail, IsEfikeyBufEmpty
<1>2. CASE QueueForNotify
  <2>1. /\ holder.stroke \in Strokes /\ holder.copies > 0
        /\ nring' = PushEfikeyBufTail(nring, holder.stroke) /\ signalled'
    BY <1>2 DEF QueueForNotify, Holders
  <2>2. nring' \in Rings(Strokes)
    BY <2>1, PushRing
  <2>3. holder' \in Holders
    BY <1>2, <2>1 DEF QueueForNotify, Holders
  <2>4. phase = "ready"
    BY <2>1
  <2> QED BY <1>2, <2>1, <2>2, <2>3, <2>4 DEF QueueForNotify
<1>3. CASE QueueForReaders
  <2>1. holder.stroke \in Strokes /\ ring' = PushEfikeyBufTail(ring, holder.stroke)
    BY <1>3 DEF QueueForReaders, Holders
  <2>2. ring' \in Rings(Strokes)
    BY <2>1, PushRing
  <2>3. holder' \in Holders /\ holder'.copies = holder.copies
    BY <1>3 DEF QueueForReaders, Holders
  <2> QED BY <1>3, <2>2, <2>3 DEF QueueForReaders, IsEfikeyBufEmpty
<1> QED BY <1>1, <1>2, <1>3

LEMMA PopInv ==
  ASSUME IInv, ReadDone \/ WaitSkip
  PROVE  IInv'
<1> USE DEF IInv, TypeOK, Shape, OnNode, NotifyWakeup, IsEfikeyBufEmpty,
            Registered
<1>1. PopEfikeyBufHead(ring) \in Rings(Strokes)
  BY PopType
<1>2. CASE ReadDone
  BY <1>1, <1>2 DEF ReadDone, Holders, Free, Clients
<1>3. CASE WaitSkip
  BY <1>1, <1>3 DEF WaitSkip, Holders
<1> QED BY <1>2, <1>3

\* Reset and SetState.
LEMMA ResetInv ==
  ASSUME IInv, NEW c \in Clients,
         \/ KeypadEfiReset(c)
         \/ \E locks, expose \in BOOLEAN : KeypadSetState(c, locks, expose)
  PROVE  IInv'
<1> USE DEF IInv, TypeOK, Shape, OnNode, NotifyWakeup, Registered
<1>1. CASE KeypadEfiReset(c)
  BY <1>1, ClearedRing DEF KeypadEfiReset, InitKeypad, MayCall
<1>2. CASE \E locks, expose \in BOOLEAN : KeypadSetState(c, locks, expose)
  BY <1>2 DEF KeypadSetState, IsEfikeyBufEmpty
<1> QED BY <1>1, <1>2

\* Registrations change under the handler only from the function it calls.
LEMMA ListInv ==
  ASSUME IInv, NEW c \in Clients,
         \/ \E p \in Patterns, f \in Functions : KeypadRegisterKeyNotify(c, p, f)
         \/ \E h \in Handles : KeypadUnregisterKeyNotify(c, h)
  PROVE  IInv'
<1> USE DEF IInv, TypeOK, Shape
<1>1. ASSUME NEW p \in Patterns, NEW f \in Functions,
             KeypadRegisterKeyNotify(c, p, f)
      PROVE  IInv'
  <2>1. PICK h \in Handles : list' = Append(list, [handle |-> h, pattern |-> p, fn |-> f])
    BY <1>1 DEF KeypadRegisterKeyNotify
  <2>2. list' \in Seq(Entries) /\ Registered \subseteq Registered'
    BY <2>1, AppendEntry DEF Entries
  <2> QED BY <1>1, <2>2
          DEF KeypadRegisterKeyNotify, MayCall, OnNode, NotifyWakeup,
              IsEfikeyBufEmpty
<1>2. ASSUME NEW h \in Handles, KeypadUnregisterKeyNotify(c, h)
      PROVE  IInv'
  <2>1. list' \in Seq(Entries) /\ Registered \ {h} \subseteq Registered'
    BY <1>2, WithoutEntry DEF KeypadUnregisterKeyNotify
  <2>2. handler.pc # "walk"
    BY <1>2 DEF KeypadUnregisterKeyNotify, MayCall, Runs, AppRuns, Clients
  <2> QED BY <1>2, <2>1, <2>2
          DEF KeypadUnregisterKeyNotify, MayCall, OnNode, NotifyWakeup,
              IsEfikeyBufEmpty
<1> QED BY <1>1, <1>2

LEMMA HandlerInv ==
  ASSUME IInv, HandlerPop \/ HandlerWalk \/ FunctionReturns
  PROVE  IInv'
<1> USE DEF IInv, TypeOK, Shape, OnNode
<1>0. HandlerPop \/ HandlerWalk => phase = "ready"
  BY DEF HandlerPop, HandlerWalk
<1>1. CASE HandlerPop
  <2>1. nring' = PopEfikeyBufHead(nring) /\ nring' \in Rings(Strokes)
    BY <1>1, PopType DEF HandlerPop
  <2>2. GetFirstNode \in Registered \cup {End} /\ Registered \subseteq Handles
    BY FirstNode, RegisteredHandles
  <2>3. HeadKey(nring) \in Strokes \cup {NoStroke}
    BY DEF HeadKey, Rings
  <2>4. CASE IsEfikeyBufEmpty(nring)
    <3>1. nring' = nring /\ handler' = AtRest
      BY <1>1, <2>1, <2>4 DEF HandlerPop, PopEfikeyBufHead
    <3> QED BY <1>0, <1>1, <2>4, <3>1
            DEF HandlerPop, AtRest, NotifyWakeup, IsEfikeyBufEmpty, Registered
  <2>5. CASE ~IsEfikeyBufEmpty(nring)
    <3>1. handler' = [pc |-> "walk", stroke |-> HeadKey(nring), link |-> GetFirstNode]
      BY <1>1, <2>5 DEF HandlerPop
    <3>2. Registered' = Registered
      BY <1>1 DEF HandlerPop, Registered
    <3> QED BY <1>0, <1>1, <2>1, <2>2, <2>3, <3>1, <3>2 DEF HandlerPop, NotifyWakeup
  <2> QED BY <2>4, <2>5
<1>2. CASE HandlerWalk
  <2>1. Registered' = Registered /\ Registered \subseteq Handles
    BY <1>2, RegisteredHandles DEF HandlerWalk, Registered
  <2>2. handler.link # End =>
           GetNextNode(handler.link) \in Registered \cup {End}
    BY <1>2, NodeFacts DEF HandlerWalk
  <2>3. /\ handler' \in [pc : {"walk", "call", "pop"},
                         stroke : Strokes \cup {NoStroke}, link : Handles \cup {End}]
        /\ handler'.pc = "pop" => handler'.link = End
        /\ handler'.pc = "call" => handler'.link # End
        /\ handler'.link # End => handler'.link \in Registered
    BY <1>2, <2>1, <2>2 DEF HandlerWalk, AtRest
  <2> QED BY <1>0, <1>2, <2>1, <2>3
          DEF HandlerWalk, NotifyWakeup, IsEfikeyBufEmpty
<1>3. CASE FunctionReturns
  <2>1. Registered' = Registered /\ Registered \subseteq Handles
    BY <1>3, RegisteredHandles DEF FunctionReturns, Registered
  <2>2. handler.link \in Registered =>
           GetNextNode(handler.link) \in Registered \cup {End}
    BY NodeFacts
  <2>3. phase # "ready" => Registered = {}
    BY DEF Registered
  <2>4. \/ \E l \in Registered \cup {End} :
              phase = "ready" /\ handler' = [handler EXCEPT !.pc = "walk", !.link = l]
        \/ handler' = [handler EXCEPT !.pc = "lost"]
    <3>1. CASE OnNode
      <4>1. handler.link \in Registered
        BY <1>3, <3>1 DEF FunctionReturns
      <4> QED BY <1>3, <2>2, <2>3, <3>1, <4>1 DEF FunctionReturns
    <3>2. CASE ~OnNode
      BY <1>3, <3>2 DEF FunctionReturns, FreedNext
    <3> QED BY <3>1, <3>2
  <2> QED BY <1>3, <2>1, <2>4 DEF FunctionReturns, NotifyWakeup, IsEfikeyBufEmpty
<1> QED BY <1>1, <1>2, <1>3

\* Giving the private data up: no handler is at work, or the one whose
\* function does it.
GivesUp == /\ holder = Free /\ handler.pc \in {"idle", "call", "lost"}
           /\ handler.pc = "idle" => ~signalled
           /\ UNCHANGED <<signalled, handler, holder, reading>>

LEMMA GiveUpInv ==
  ASSUME IInv, NEW evs \in SUBSET Events, GiveUp(evs), GivesUp
  PROVE  IInv'
<1>1. /\ ring' \in Rings(Strokes) /\ nring' \in Rings(Strokes)
      /\ IsEfikeyBufEmpty(nring)'
  BY ClearedRing DEF GiveUp
<1>2. list' = <<>> /\ list' \in Seq(Entries)
  BY DEF GiveUp
<1>3. holder.copies = 0
  BY DEF GivesUp, Free
<1>4. strokes' \in 0 .. MaxStrokes
  BY DEF GiveUp
<1>5. TypeOK'
  BY <1>1, <1>2, <1>4 DEF IInv, TypeOK, GiveUp, GivesUp
<1> QED
  BY <1>1, <1>2, <1>3, <1>5
     DEF IInv, Shape, OnNode, NotifyWakeup, GiveUp, GivesUp

LEMMA BindingInv ==
  ASSUME IInv, StartEvents \/ StartInstall \/ \E c \in Clients : Stop(c)
  PROVE  IInv'
<1>1. GivesUp
  BY DEF StartEvents, StartInstall, Stop, MayCall, Runs, AppRuns, IInv, Shape, TypeOK,
         GivesUp, Clients
<1>2. \A evs, chain : evs \subseteq Events => CloseFirst(evs, chain) \subseteq Events
  BY DEF CloseFirst
<1>3. CASE \E evs \in SUBSET Events : GiveUp(evs)
  BY <1>1, <1>3, GiveUpInv
<1>4. CASE StartEvents
  <2>1. CASE phase' = "starting" /\ UNCHANGED <<ring, nring, exposed, list, strokes>>
             /\ events' = {"WaitForKey", "WaitForKeyEx", "Timer"} /\ orphans' = {}
    <3>1. list = <<>> /\ holder.copies = 0 /\ handler.pc = "idle" /\ ~signalled
      BY <1>1, <1>4 DEF StartEvents, AppRuns, IInv, Shape
    <3> QED BY <1>1, <2>1, <3>1
            DEF IInv, TypeOK, Shape, OnNode, NotifyWakeup, Events, Registered,
                IsEfikeyBufEmpty, GivesUp
  <2>2. CASE \E created \in {{}, {"WaitForKey"}, {"WaitForKey", "WaitForKeyEx"},
                             {"WaitForKey", "WaitForKeyEx", "Timer"}} :
                GiveUp(CloseFirst(created, StartChain))
    <3>1. PICK created \in SUBSET Events : GiveUp(CloseFirst(created, StartChain))
      BY <2>2 DEF Events
    <3> QED BY <1>2, <1>3, <3>1
  <2> QED BY <1>4, <2>1, <2>2 DEF StartEvents
<1>5. CASE StartInstall
  <2>1. CASE phase' = "ready" /\ events' = events \cup {"KeyNotify"} /\ InitKeypad
             /\ UNCHANGED <<orphans, strokes>>
    BY <1>1, <2>1, ClearedRing
       DEF InitKeypad, IInv, TypeOK, Shape, OnNode, NotifyWakeup, Events, GivesUp,
           Registered
  <2>2. events \subseteq Events /\ events \cup {"KeyNotify"} \subseteq Events
    BY DEF IInv, TypeOK, Events
  <2> QED BY <1>2, <1>3, <1>5, <2>1, <2>2 DEF StartInstall
<1>6. ASSUME NEW c \in Clients, Stop(c) PROVE IInv'
  <2>1. CASE events' = events \ {"Timer"}
             /\ UNCHANGED <<phase, orphans, ring, nring, exposed, list, strokes>>
    BY <1>1, <2>1 DEF IInv, TypeOK, Shape, OnNode, NotifyWakeup,
                      IsEfikeyBufEmpty, Registered, GivesUp
  <2>2. events \ {"Timer"} \subseteq Events
    BY DEF IInv, TypeOK
  <2> QED BY <1>2, <1>3, <1>6, <2>1, <2>2 DEF Stop
<1> QED BY <1>4, <1>5, <1>6

LEMMA StepInv == IInv /\ [Next]_vars => IInv'
<1> SUFFICES ASSUME IInv, [Next]_vars PROVE IInv'
  OBVIOUS
<1>1. CASE UNCHANGED vars
  BY <1>1 DEF vars, IInv, TypeOK, Shape, OnNode, NotifyWakeup,
              IsEfikeyBufEmpty, Registered
<1>2. CASE TimerTick \/ Dispatch
  BY <1>2, PollInv
<1>3. CASE DeviceStep
  BY <1>3, PushInv DEF DeviceStep
<1>4. CASE PollStep
  BY <1>4, PushInv, PollInv, PopInv DEF PollStep
<1>5. CASE \E c \in Clients : ClientStep(c)
  <2>1. PICK c \in Clients : ClientStep(c)
    BY <1>5
  <2> QED BY <2>1, PollInv, ResetInv, ListInv DEF ClientStep
<1>6. CASE HandlerStep \/ FunctionReturns
  BY <1>6, HandlerInv DEF HandlerStep
<1>7. CASE StartEvents \/ StartInstall \/ \E c \in Clients : Stop(c)
  BY <1>7, BindingInv
<1> QED
  BY <1>1, <1>2, <1>3, <1>4, <1>5, <1>6, <1>7 DEF Next, DeadLoop

-----------------------------------------------------------------------------
(* The theorems.                                                            *)

\* The inductive invariant holds in every reachable state.
THEOREM Inductive == Spec => []IInv
  BY InitInv, StepInv, PTL DEF Spec

\* KeyRing and the driver keep the types of the state: the ring positions
\* stay in the ring, the handler holds a node or the end of the list.
THEOREM TypeCorrect == Spec => []TypeOK
  BY Inductive, PTL DEF IInv

\* A queued stroke always has somebody to look at it (KeyNotifyProcessEvent
\* of Keypad.c and KeyNotifyProcessHandler of KeypadTextIn.c).
THEOREM NoLostWakeup == Spec => []NotifyWakeup
  BY Inductive, PTL DEF IInv

\* One step never takes the handler off the list, but for the two calls.
LEMMA WalkerStep ==
  ASSUME IInv, OnNode, [Next]_vars
  PROVE  OnNode' \/ KeypadUnregisterKeyNotify("fn", handler.link) \/ Stop("fn")
<1> USE DEF OnNode
<1>1. ASSUME handler'.link = handler.link, Registered \subseteq Registered'
      PROVE  OnNode'
  BY <1>1
<1>2. ASSUME UNCHANGED <<handler, list>> PROVE OnNode'
  BY <1>2 DEF Registered
<1>3. ASSUME NEW c \in Clients, ClientStep(c)
      PROVE  OnNode' \/ KeypadUnregisterKeyNotify("fn", handler.link)
  <2>1. CASE \E p \in Patterns, f \in Functions : KeypadRegisterKeyNotify(c, p, f)
    <3>1. PICK p \in Patterns, f \in Functions : KeypadRegisterKeyNotify(c, p, f)
      BY <2>1
    <3>2. PICK h \in Handles : list' = Append(list, [handle |-> h, pattern |-> p, fn |-> f])
      BY <3>1 DEF KeypadRegisterKeyNotify
    <3>3. Registered \subseteq Registered'
      BY <3>2, AppendEntry DEF Entries, IInv, TypeOK
    <3> QED BY <1>1, <3>1, <3>3 DEF KeypadRegisterKeyNotify
  <2>2. ASSUME NEW h \in Handles, KeypadUnregisterKeyNotify(c, h)
        PROVE  OnNode' \/ KeypadUnregisterKeyNotify("fn", handler.link)
    <3>1. Registered \ {h} \subseteq Registered' /\ handler' = handler
      BY <2>2, WithoutEntry DEF KeypadUnregisterKeyNotify, IInv, TypeOK
    <3>2. CASE handler.link = h /\ h # End
      <4>1. handler.pc # "idle"
        BY <3>2 DEF IInv, Shape
      <4>2. c = "fn"
        BY <2>2, <4>1 DEF KeypadUnregisterKeyNotify, MayCall, Runs, AppRuns, Clients
      <4> QED BY <2>2, <3>2, <4>2
    <3>3. CASE handler.link # h \/ h = End
      BY <3>1, <3>3
    <3> QED BY <3>2, <3>3
  <2>3. CASE \/ \E op \in {"read", "readEx", "wait"} : EnterPoll(c, op)
             \/ KeypadEfiReset(c)
             \/ \E locks, expose \in BOOLEAN : KeypadSetState(c, locks, expose)
    <3>1. ASSUME NEW op, EnterPoll(c, op) PROVE UNCHANGED <<handler, list>>
      BY <3>1 DEF EnterPoll
    <3>2. KeypadEfiReset(c) => UNCHANGED <<handler, list>>
      BY DEF KeypadEfiReset, InitKeypad
    <3>3. ASSUME NEW l, NEW e, KeypadSetState(c, l, e) PROVE UNCHANGED <<handler, list>>
      BY <3>3 DEF KeypadSetState
    <3>4. UNCHANGED <<handler, list>>
      BY <2>3, <3>1, <3>2, <3>3
    <3> QED BY <1>2, <3>4
  <2>4. CASE \E h \in Handles : KeypadUnregisterKeyNotify(c, h)
    BY <2>2, <2>4
  <2> HIDE DEF OnNode
  <2> QED BY <1>3, <2>1, <2>3, <2>4 DEF ClientStep
<1>4. CASE HandlerStep \/ FunctionReturns
  <2>1. Registered' = Registered
    BY <1>4 DEF HandlerStep, HandlerPop, HandlerWalk, FunctionReturns, Registered
  <2>2. list \in Seq(Entries)
    BY DEF IInv, TypeOK
  <2>3. CASE HandlerPop
    BY <2>1, <2>2, <2>3, FirstNode DEF HandlerPop, AtRest
  <2>4. CASE HandlerWalk \/ FunctionReturns
    <3>1. handler.link # End => GetNextNode(handler.link) \in Registered \cup {End}
      BY <2>2, NodeFacts
    <3>2. HandlerWalk => handler'.link \in {handler.link, End}
                         \/ (handler.link # End
                             /\ handler'.link = GetNextNode(handler.link))
      BY DEF HandlerWalk, AtRest, IInv, TypeOK
    <3>3. FunctionReturns => handler.link # End
                             /\ handler'.link = GetNextNode(handler.link)
      BY DEF FunctionReturns, IInv, TypeOK, Shape
    <3> QED BY <2>1, <2>4, <3>1, <3>2, <3>3
  <2> QED BY <1>4, <2>3, <2>4 DEF HandlerStep
<1>5. CASE StartEvents \/ StartInstall \/ Stop("app")
  <2>1. handler' = handler
    BY <1>5 DEF StartEvents, StartInstall, Stop
  <2>2. handler.pc = "idle" \/ list = <<>>
    BY <1>5 DEF StartEvents, StartInstall, Stop, MayCall, Runs, AppRuns, IInv, Shape
  <2>3. handler.link = End
    BY <2>2 DEF IInv, Shape, Registered
  <2> QED BY <2>1, <2>3
<1>6. CASE TimerTick \/ DeviceStep \/ PollStep \/ Dispatch \/ DeadLoop \/ UNCHANGED vars
  <2>1. Dispatch => handler'.link = handler.link /\ list' = list
    BY DEF Dispatch, IInv, TypeOK
  <2>2. CASE TimerTick \/ DeviceStep \/ PollStep \/ DeadLoop \/ UNCHANGED vars
    BY <1>2, <2>2 DEF TimerTick, DeviceStep, KeypadReturnApiPushEfikeyBufTail, PollStep,
       QueueForNotify, QueueForReaders, PollDone, ReadDone, WaitSkip, WaitDone, DeadLoop, vars
  <2> QED BY <1>1, <1>6, <2>1, <2>2 DEF Registered
<1> QED
  BY <1>3, <1>4, <1>5, <1>6 DEF Next, Clients

\* In KeyNotifyProcessHandler the node under the walk is freed by nothing but
\* the called function's own unregistration and a Stop it calls, whatever
\* the registrations, for every list and ring.
THEOREM WalkerSafe == Spec => WalkerAlive
<1>1. IInv /\ [Next]_vars
        => [OnNode => \/ OnNode'
                      \/ KeypadUnregisterKeyNotify("fn", handler.link)
                      \/ Stop("fn")]_vars
  BY WalkerStep
<1> QED
  BY <1>1, Inductive, PTL DEF Spec, WalkerAlive

-----------------------------------------------------------------------------
(* The readers' ring implements KeyFifo.                                    *)

\* Steps of the ring as steps of the abstract queue.
LEMMA PushRefines ==
  ASSUME IInv, QueueForReaders
  PROVE  ReadersFifo!Push
<1>1. /\ ring' = PushEfikeyBufTail(ring, holder.stroke) /\ holder.stroke # NoStroke
      /\ holder' = [holder EXCEPT !.stroke = NoStroke]
  BY DEF QueueForReaders
<1>2. holder.stroke \in Strokes /\ holder'.stroke = NoStroke
  BY <1>1 DEF IInv, TypeOK, Holders
<1>3. Contents(ring')
        = Append(IF Len(Contents(ring)) < RingSize - 1 THEN Contents(ring)
                 ELSE Tail(Contents(ring)), holder.stroke)
  <2>1. ring \in Rings(Strokes)
    BY DEF IInv, TypeOK
  <2> QED BY <1>1, <1>2, <2>1, PushRing
<1> QED
  BY <1>1, <1>2, <1>3 DEF ReadersFifo!Push

LEMMA PopRefines ==
  ASSUME IInv, ReadDone \/ WaitSkip
  PROVE  [ReadersFifo!Next]_(ReadersFifo!vars)
<1>1. holder.stroke = NoStroke /\ ring' = PopEfikeyBufHead(ring)
  BY DEF ReadDone, WaitSkip
<1>2. holder'.stroke = NoStroke
  <2>1. CASE ReadDone
    BY <2>1 DEF ReadDone, Free
  <2>2. CASE WaitSkip
    BY <1>1, <2>2 DEF WaitSkip, IInv, TypeOK, Holders
  <2> QED BY <2>1, <2>2
<1>3. CASE IsEfikeyBufEmpty(ring)
  <2>1. ring' = ring
    BY <1>1, <1>3 DEF PopEfikeyBufHead
  <2> QED BY <1>1, <1>2, <2>1 DEF ReadersFifo!vars
<1>4. CASE ~IsEfikeyBufEmpty(ring)
  <2>1. Contents(ring) # <<>> /\ Contents(ring') = Tail(Contents(ring))
    BY <1>1, <1>4, PopRing DEF IInv, TypeOK
  <2> QED BY <1>1, <1>2, <2>1 DEF ReadersFifo!Next, ReadersFifo!Pop
<1> QED BY <1>3, <1>4

LEMMA ClearRefines ==
  ASSUME IInv, holder = Free, UNCHANGED holder,
         ring' = ClearRing(ring) \/ ring' = EmptyRing
  PROVE  ReadersFifo!Clear
<1>1. Contents(ring') = <<>>
  BY ClearedRing DEF IInv, TypeOK
<1> QED
  BY <1>1 DEF ReadersFifo!Clear, Free

LEMMA ArriveRefines ==
  ASSUME IInv, NEW k \in Keys, KeypadReturnApiPushEfikeyBufTail(k)
  PROVE  \E s \in Strokes : ReadersFifo!Arrive(s)
<1> DEFINE s == [key |-> k, n |-> strokes + 1]
<1>1. s \in Strokes
  <2>1. strokes \in 0 .. MaxStrokes /\ strokes < MaxStrokes
    BY DEF KeypadReturnApiPushEfikeyBufTail, IInv, TypeOK
  <2>2. strokes + 1 \in 1 .. MaxStrokes
    BY <2>1
  <2> QED BY <2>2 DEF Strokes
<1>2. holder.stroke = NoStroke /\ holder'.stroke = s /\ ring' = ring
  BY DEF KeypadReturnApiPushEfikeyBufTail, IInv, TypeOK, Holders
<1> QED
  BY <1>1, <1>2 DEF ReadersFifo!Arrive

LEMMA StepRefines == IInv /\ [Next]_vars => [ReadersFifo!Next]_(ReadersFifo!vars)
<1> SUFFICES ASSUME IInv, [Next]_vars
             PROVE  [ReadersFifo!Next]_(ReadersFifo!vars)
  OBVIOUS
<1>1. CASE ring' = ring /\ holder'.stroke = holder.stroke
  BY <1>1 DEF ReadersFifo!vars
<1>2. CASE ring' \in {ClearRing(ring), EmptyRing} /\ holder = Free /\ UNCHANGED holder
  BY <1>2, ClearRefines DEF ReadersFifo!Next
<1>3. CASE DeviceStep
  BY <1>3, ArriveRefines DEF DeviceStep, ReadersFifo!Next
<1>4. CASE QueueForReaders
  BY <1>4, PushRefines DEF ReadersFifo!Next
<1>5. CASE ReadDone \/ WaitSkip
  BY <1>5, PopRefines
<1>6. CASE UNCHANGED vars
  BY <1>1, <1>6 DEF vars
<1>7. CASE TimerTick
  BY <1>1, <1>7 DEF TimerTick, Free
<1>8. CASE QueueForNotify
  BY <1>1, <1>8 DEF QueueForNotify, IInv, TypeOK, Holders
<1>9. CASE PollDone \/ WaitDone
  BY <1>1, <1>9 DEF PollDone, WaitDone, Free
<1>10. ASSUME NEW c \in Clients, ClientStep(c)
       PROVE  [ReadersFifo!Next]_(ReadersFifo!vars)
  <2>1. CASE \E op \in {"read", "readEx", "wait"} : EnterPoll(c, op)
    BY <1>1, <2>1 DEF EnterPoll, Free
  <2>2. CASE KeypadEfiReset(c)
    BY <1>2, <2>2 DEF KeypadEfiReset, InitKeypad, MayCall
  <2>3. CASE \/ \E locks, expose \in BOOLEAN : KeypadSetState(c, locks, expose)
             \/ \E p \in Patterns, f \in Functions : KeypadRegisterKeyNotify(c, p, f)
             \/ \E h \in Handles : KeypadUnregisterKeyNotify(c, h)
    BY <1>1, <2>3 DEF KeypadSetState, KeypadRegisterKeyNotify, KeypadUnregisterKeyNotify
  <2> QED BY <1>10, <2>1, <2>2, <2>3 DEF ClientStep
<1>11. CASE Dispatch \/ HandlerStep \/ FunctionReturns \/ DeadLoop
  BY <1>1, <1>11 DEF Dispatch, HandlerStep, HandlerPop, HandlerWalk, FunctionReturns,
                     DeadLoop, vars
<1>12. CASE StartEvents \/ StartInstall \/ \E c \in Clients : Stop(c)
  <2>1. holder = Free /\ UNCHANGED holder
    BY <1>12 DEF StartEvents, StartInstall, Stop, MayCall
  <2>2. ring' = ring \/ ring' = ClearRing(ring) \/ ring' = EmptyRing
    BY <1>12 DEF StartEvents, StartInstall, Stop, GiveUp, InitKeypad
  <2> QED BY <1>1, <1>2, <2>1, <2>2
<1> QED
  BY <1>3, <1>4, <1>5, <1>6, <1>7, <1>8, <1>9, <1>10, <1>11, <1>12
     DEF Next, PollStep

\* Every behaviour of the driver shows its readers a KeyFifo: each stroke
\* that gets past the partial-key test is queued, in order, once, and only
\* the oldest is dropped, when RingSize - 1 are waiting.
THEOREM ImplementsKeyFifo == Spec => ReadersSpec
<1>1. Init => ReadersFifo!Init
  BY ClearedRing DEF Init, ReadersFifo!Init, Free
<1>2. IInv /\ [Next]_vars => [ReadersFifo!Next]_(ReadersFifo!vars)
  BY StepRefines
<1> QED
  BY <1>1, <1>2, Inductive, PTL DEF Spec, ReadersSpec, ReadersFifo!Spec

-----------------------------------------------------------------------------
(* The order of the notifications.                                          *)

\* Sequence c is in order, not before stroke h and not after number m.
InOrder(c, h, m) ==
    /\ h.n <= m
    /\ \A i \in 1 .. Len(c) : h.n <= c[i].n /\ c[i].n <= m
    /\ \A i, j \in 1 .. Len(c) : i < j => c[i].n <= c[j].n

\* The queue of notifications is in order behind the handler's stroke, and
\* the stroke being pushed is the newest.
OrderInv ==
    /\ phase # "ready" => Contents(nring) = <<>>
    /\ phase = "ready" => InOrder(Contents(nring), handler.stroke, strokes)
    /\ holder.stroke # NoStroke => holder.stroke.n = strokes
    /\ handler.pc \in {"idle", "pop"} => handler.stroke = NoStroke

AnyStroke == Strokes \cup {NoStroke}

LEMMA NumberType == \A s \in AnyStroke : s.n \in Nat
  BY DEF AnyStroke, Strokes

LEMMA EmptyInOrder ==
  ASSUME NEW h \in AnyStroke, NEW m \in Nat, h.n <= m
  PROVE  InOrder(<<>>, h, m)
  BY DEF InOrder

LEMMA AppendInOrder ==
  ASSUME NEW c \in Seq(AnyStroke), NEW s \in AnyStroke, NEW h \in AnyStroke,
         InOrder(c, h, s.n)
  PROVE  /\ InOrder(Append(c, s), h, s.n)
         /\ c # <<>> => InOrder(Append(Tail(c), s), h, s.n)
<1>1. ASSUME NEW d \in Seq(AnyStroke), InOrder(d, h, s.n)
      PROVE  InOrder(Append(d, s), h, s.n)
  <2>1. /\ Len(Append(d, s)) = Len(d) + 1 /\ Len(d) \in Nat
        /\ \A i \in 1 .. Len(d) + 1 :
              Append(d, s)[i] = IF i = Len(d) + 1 THEN s ELSE d[i]
    OBVIOUS
  <2>2. \A i \in 1 .. Len(d) : d[i].n \in Nat
    BY NumberType
  <2>3. s.n \in Nat /\ h.n \in Nat
    BY NumberType
  <2> QED BY <1>1, <2>1, <2>2, <2>3 DEF InOrder
<1>2. ASSUME c # <<>> PROVE Tail(c) \in Seq(AnyStroke) /\ InOrder(Tail(c), h, s.n)
  <2>1. /\ Tail(c) \in Seq(AnyStroke) /\ Len(Tail(c)) = Len(c) - 1
        /\ \A i \in 1 .. Len(Tail(c)) : Tail(c)[i] = c[i + 1]
        /\ Len(c) \in Nat
    BY <1>2, HeadTailProperties
  <2>2. \A i \in 1 .. Len(Tail(c)) : i + 1 \in 1 .. Len(c)
    BY <2>1
  <2> QED BY <2>1, <2>2 DEF InOrder
<1> QED BY <1>1, <1>2

LEMMA HeadInOrder ==
  ASSUME NEW c \in Seq(AnyStroke), NEW h, NEW m, c # <<>>, InOrder(c, h, m)
  PROVE  InOrder(Tail(c), Head(c), m)
<1>1. /\ Len(Tail(c)) = Len(c) - 1
      /\ \A i \in 1 .. Len(Tail(c)) : Tail(c)[i] = c[i + 1]
      /\ Len(c) \in Nat \ {0} /\ Head(c) = c[1]
  BY HeadTailProperties
<1>2. \A i \in 1 .. Len(Tail(c)) : i + 1 \in 1 .. Len(c) /\ 1 < i + 1
  BY <1>1
<1>3. 1 \in 1 .. Len(c)
  BY <1>1
<1> QED BY <1>1, <1>2, <1>3 DEF InOrder

GiveUpRings == nring' = EmptyRing /\ strokes' = 0 /\ phase' = "absent"

LEMMA OrderStep == IInv /\ OrderInv /\ [Next]_vars => OrderInv'
<1> SUFFICES ASSUME IInv, OrderInv, [Next]_vars PROVE OrderInv'
  OBVIOUS
<1> DEFINE c == Contents(nring)
<1>0. /\ nring \in Rings(Strokes) /\ c \in Seq(AnyStroke)
      /\ handler.stroke \in AnyStroke /\ holder.stroke \in AnyStroke
      /\ strokes \in Nat /\ NoStroke \in AnyStroke /\ NoStroke.n = 0
  BY ContentsSeq DEF IInv, TypeOK, Holders, AnyStroke
<1>1. CASE UNCHANGED <<nring, handler, phase>> /\ strokes' = strokes
           /\ holder'.stroke \in {holder.stroke, NoStroke}
  BY <1>1 DEF OrderInv
<1>2. CASE DeviceStep
  <2>1. /\ UNCHANGED <<nring, handler, phase>> /\ strokes' = strokes + 1
        /\ holder'.stroke.n = strokes + 1
    BY <1>2 DEF DeviceStep, KeypadReturnApiPushEfikeyBufTail, IInv, TypeOK, Holders
  <2>2. \A i \in 1 .. Len(c) : c[i].n \in Nat
    BY <1>0, NumberType
  <2>3. handler.stroke.n \in Nat
    BY <1>0, NumberType
  <2>4. phase = "ready" => InOrder(c, handler.stroke, strokes + 1)
    BY <1>0, <2>2, <2>3 DEF OrderInv, InOrder
  <2> QED BY <2>1, <2>4 DEF OrderInv
<1>3. CASE QueueForNotify
  <2>1. /\ nring' = PushEfikeyBufTail(nring, holder.stroke) /\ holder.stroke # NoStroke
        /\ UNCHANGED <<handler, strokes, phase>> /\ holder'.stroke = holder.stroke
        /\ phase = "ready"
    BY <1>3 DEF QueueForNotify, IInv, TypeOK, Shape, Holders
  <2>2. holder.stroke \in Strokes /\ holder.stroke.n = strokes
    BY <1>0, <2>1 DEF AnyStroke, OrderInv
  <2>3. Contents(nring') = Append(IF Len(c) < RingSize - 1 THEN c ELSE Tail(c),
                                  holder.stroke)
    BY <1>0, <2>1, <2>2, PushRing
  <2>4. Len(c) >= RingSize - 1 => c # <<>>
    BY RingAssumption
  <2>5. InOrder(Contents(nring'), handler.stroke, strokes)
    <3>1. InOrder(c, handler.stroke, holder.stroke.n)
      BY <2>1, <2>2 DEF OrderInv
    <3>2. /\ InOrder(Append(c, holder.stroke), handler.stroke, strokes)
          /\ c # <<>> => InOrder(Append(Tail(c), holder.stroke), handler.stroke, strokes)
      BY <1>0, <2>2, <3>1, AppendInOrder
    <3>3. Len(c) \in Nat
      BY <1>0
    <3> QED BY <2>3, <2>4, <3>2, <3>3, RingAssumption
  <2> QED BY <2>1, <2>2, <2>5 DEF OrderInv
<1>4. CASE HandlerPop
  <2>1. /\ UNCHANGED <<holder, strokes, phase>> /\ nring' = PopEfikeyBufHead(nring)
        /\ phase = "ready"
    BY <1>4 DEF HandlerPop, IInv, Shape
  <2>2. CASE IsEfikeyBufEmpty(nring)
    <3>1. nring' = nring /\ handler'.stroke = NoStroke
      BY <1>4, <2>1, <2>2 DEF HandlerPop, PopEfikeyBufHead, AtRest
    <3>2. handler.stroke = NoStroke
      BY <1>4 DEF HandlerPop, OrderInv
    <3> QED BY <2>1, <3>1, <3>2 DEF OrderInv
  <2>3. CASE ~IsEfikeyBufEmpty(nring)
    <3>1. /\ c # <<>> /\ Contents(nring') = Tail(c) /\ HeadKey(nring) = Head(c)
      BY <1>0, <2>1, <2>3, PopRing
    <3>2. handler' = [pc |-> "walk", stroke |-> Head(c), link |-> GetFirstNode]
      BY <1>4, <2>3, <3>1 DEF HandlerPop
    <3>3. InOrder(Tail(c), Head(c), strokes)
      BY <1>0, <2>1, <3>1, HeadInOrder DEF OrderInv
    <3> QED BY <2>1, <3>1, <3>2, <3>3 DEF OrderInv
  <2> QED BY <2>2, <2>3
<1>5. CASE HandlerWalk \/ FunctionReturns
  <2>1. /\ UNCHANGED <<nring, holder, strokes, phase>>
        /\ \/ handler'.stroke = handler.stroke /\ handler'.pc \in {"walk", "call", "lost"}
           \/ handler'.stroke = NoStroke
    BY <1>5 DEF HandlerWalk, FunctionReturns, FreedNext, AtRest, IInv, TypeOK
  <2>2. \A i \in 1 .. Len(c) : c[i].n \in Nat
    BY <1>0, NumberType
  <2>3. phase = "ready" => InOrder(c, NoStroke, strokes)
    BY <1>0, <2>2 DEF OrderInv, InOrder
  <2> QED BY <2>1, <2>3 DEF OrderInv
<1>6. CASE Dispatch
  BY <1>6 DEF Dispatch, OrderInv, IInv, TypeOK
<1>7. CASE /\ nring' \in {ClearRing(nring), EmptyRing} /\ holder = Free
           /\ UNCHANGED <<handler, holder>> /\ strokes' \in Nat
           /\ phase' = "ready" => /\ strokes' = strokes
                                  /\ phase = "ready" \/ handler.pc = "idle"
  <2>1. Contents(nring') = <<>>
    BY <1>0, <1>7, ClearedRing
  <2>2. phase' = "ready" => handler.stroke.n <= strokes'
    BY <1>0, <1>7, NumberType DEF OrderInv, InOrder
  <2>3. phase' = "ready" => InOrder(<<>>, handler.stroke, strokes')
    BY <1>0, <1>7, <2>2, EmptyInOrder
  <2> QED BY <1>7, <2>1, <2>3 DEF OrderInv, Free
<1>8. CASE TimerTick \/ QueueForReaders \/ PollDone \/ ReadDone \/ WaitSkip \/ WaitDone
  <2>1. UNCHANGED <<nring, handler, phase>> /\ strokes' = strokes
    BY <1>8 DEF TimerTick, QueueForReaders, PollDone, ReadDone, WaitSkip, WaitDone
  <2>2. QueueForReaders \/ WaitSkip => holder'.stroke \in {holder.stroke, NoStroke}
    BY DEF QueueForReaders, WaitSkip, IInv, TypeOK, Holders
  <2>3. TimerTick \/ PollDone \/ ReadDone \/ WaitDone => holder'.stroke = NoStroke
    <3>1. TimerTick => holder'.stroke = NoStroke
      BY DEF TimerTick, Free
    <3>2. PollDone \/ ReadDone \/ WaitDone => holder' = Free
      BY DEF PollDone, ReadDone, WaitDone
    <3> QED BY <3>1, <3>2 DEF Free
  <2>4. holder'.stroke \in {holder.stroke, NoStroke}
    BY <1>8, <2>2, <2>3
  <2> QED BY <1>1, <2>1, <2>4
<1>9. ASSUME NEW cl \in Clients, ClientStep(cl) PROVE OrderInv'
  <2>1. CASE KeypadEfiReset(cl)
    BY <1>0, <1>7, <2>1 DEF KeypadEfiReset, InitKeypad, MayCall
  <2>2. CASE \/ \E op \in {"read", "readEx", "wait"} : EnterPoll(cl, op)
             \/ \E locks, expose \in BOOLEAN : KeypadSetState(cl, locks, expose)
             \/ \E p \in Patterns, f \in Functions : KeypadRegisterKeyNotify(cl, p, f)
             \/ \E h \in Handles : KeypadUnregisterKeyNotify(cl, h)
    BY <1>1, <2>2 DEF EnterPoll, Free, KeypadSetState, KeypadRegisterKeyNotify,
                      KeypadUnregisterKeyNotify
  <2> QED BY <1>9, <2>1, <2>2 DEF ClientStep
<1>10. CASE StartEvents \/ StartInstall \/ \E cl \in Clients : Stop(cl)
  <2>1. /\ holder = Free /\ UNCHANGED <<handler, holder>>
        /\ StartEvents \/ StartInstall => handler.pc = "idle" /\ phase # "ready"
    BY <1>10 DEF StartEvents, StartInstall, Stop, MayCall, AppRuns, IInv, Shape
  <2>2. CASE UNCHANGED <<nring, strokes, phase>>
    BY <1>1, <2>1, <2>2
  <2>3. CASE nring' = nring /\ strokes' = strokes /\ phase' = "starting" /\ phase # "ready"
    BY <2>1, <2>3 DEF OrderInv
  <2>4. CASE GiveUpRings
    BY <1>7, <2>1, <2>4 DEF GiveUpRings
  <2>5. CASE StartInstall /\ nring' = ClearRing(nring) /\ strokes' = strokes
    BY <1>0, <1>7, <2>1, <2>5
  <2>6. GiveUpRings \/ UNCHANGED <<nring, strokes, phase>>
        \/ (nring' = nring /\ strokes' = strokes /\ phase' = "starting" /\ phase # "ready")
        \/ (StartInstall /\ nring' = ClearRing(nring) /\ strokes' = strokes)
    BY <1>10, <2>1 DEF StartEvents, StartInstall, Stop, GiveUp, GiveUpRings, InitKeypad
  <2> QED BY <2>2, <2>3, <2>4, <2>5, <2>6
<1>11. CASE UNCHANGED vars
  BY <1>1, <1>11 DEF vars
<1>12. CASE DeadLoop
  BY <1>11, <1>12 DEF DeadLoop
<1> QED
  BY <1>12, <1>2, <1>3, <1>4, <1>5, <1>6, <1>8, <1>9, <1>10, <1>11
     DEF Next, PollStep, HandlerStep

LEMMA OrderInit == Init => OrderInv
  BY ClearedRing DEF Init, OrderInv, InOrder, AtRest, Free

LEMMA OrderMeans == IInv /\ OrderInv => NotifyInOrder
<1> SUFFICES ASSUME IInv, OrderInv PROVE NotifyInOrder
  OBVIOUS
<1> DEFINE c == Contents(nring)
           q == <<handler.stroke>> \o c
<1>1. c \in Seq(AnyStroke) /\ <<handler.stroke>> \in Seq(AnyStroke)
  BY ContentsSeq DEF IInv, TypeOK, AnyStroke
<1>2. /\ q \in Seq(AnyStroke) /\ Len(q) = 1 + Len(c) /\ Len(c) \in Nat
      /\ \A i \in 1 .. 1 + Len(c) :
            q[i] = IF i <= 1 THEN handler.stroke ELSE c[i - 1]
  BY <1>1, ConcatProperties
<1>3. \A i \in 1 .. Len(q) : q[i].n \in Nat
  BY <1>2, NumberType
<1>4. ASSUME NEW i \in 1 .. Len(q), NEW j \in 1 .. Len(q), i < j
      PROVE  q[i].n <= q[j].n
  <2>0. phase = "ready"
    BY <1>2, <1>4 DEF OrderInv
  <2>1. q[j] = c[j - 1] /\ j - 1 \in 1 .. Len(c)
    BY <1>2, <1>4
  <2>2. CASE i = 1
    BY <1>2, <2>0, <2>1, <2>2 DEF OrderInv, InOrder
  <2>3. CASE i # 1
    <3>1. q[i] = c[i - 1] /\ i - 1 \in 1 .. Len(c) /\ i - 1 < j - 1
      BY <1>2, <1>4, <2>3
    <3> QED BY <2>0, <2>1, <3>1 DEF OrderInv, InOrder
  <2> QED BY <2>2, <2>3
<1> HIDE DEF q
<1>5. DOMAIN q = 1 .. Len(q)
  BY <1>2
<1>6. \A i, j \in DOMAIN q : i < j => q[i].n <= q[j].n
  BY <1>4, <1>5
<1> QED
  BY <1>6 DEF NotifyInOrder, q

\* KeyNotifyProcessHandler delivers strokes in the order the device reported
\* them, also when one stroke was queued several times or a Reset or an
\* overflow came between.
THEOREM NotifyOrdered == Spec => []NotifyInOrder
  BY OrderInit, OrderStep, OrderMeans, Inductive, PTL DEF Spec
=============================================================================
