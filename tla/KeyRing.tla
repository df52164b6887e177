------------------------------ MODULE KeyRing ------------------------------
(***************************************************************************)
(* EFI_KEY_QUEUE of Drivers/KeypadDxe/Keypad.h and its operations in       *)
(* KeypadTextIn.c: a ring that is full with one slot left free, and drops  *)
(* its oldest key rather than the new one.                                 *)
(***************************************************************************)
EXTENDS Integers, Sequences

CONSTANTS
    RingSize,   \* KEYPAD_EFI_KEY_MAX_COUNT
    NoStroke    \* what AllocateZeroPool leaves in a slot

ASSUME RingAssumption == RingSize \in Nat \ {0, 1}

Slots == 0 .. RingSize - 1
Rings(S) == [buf : [Slots -> S \cup {NoStroke}], head : Slots, tail : Slots]

EmptyRing == [buf |-> [i \in Slots |-> NoStroke], head |-> 0, tail |-> 0]

\* The next slot round the ring.
Succ(i) == (i + 1) % RingSize

\* The keys in the ring, oldest first.
Count(q) == IF q.tail >= q.head THEN q.tail - q.head
                                ELSE q.tail - q.head + RingSize
SlotOf(q, i) == IF q.head + i < RingSize THEN q.head + i
                                         ELSE q.head + i - RingSize
Contents(q) == [i \in 1 .. Count(q) |-> q.buf[SlotOf(q, i - 1)]]

IsEfikeyBufEmpty(q) == q.head = q.tail

HeadKey(q) == q.buf[q.head]

PopEfikeyBufHead(q) ==
    IF IsEfikeyBufEmpty(q) THEN q ELSE [q EXCEPT !.head = Succ(@)]

\* Mutant of PushEfikeyBufTail: overwrites without dropping the oldest key.
PushOverrun(q, k) ==
    [q EXCEPT !.buf[q.tail] = k, !.tail = Succ(@)]

\* Mutant of PushEfikeyBufTail: does not wrap round.
PushUnwrapped(q, k) ==
    LET r == IF Succ(q.tail) = q.head THEN PopEfikeyBufHead(q) ELSE q
    IN  [r EXCEPT !.buf[r.tail] = k, !.tail = @ + 1]

PushEfikeyBufTail(q, k) ==
    LET r == IF Succ(q.tail) = q.head THEN PopEfikeyBufHead(q) ELSE q
    IN  [r EXCEPT !.buf[r.tail] = k, !.tail = Succ(@)]

\* InitKeypad sets Head and Tail to 0; the slots keep what they held.
ClearRing(q) == [q EXCEPT !.head = 0, !.tail = 0]
=============================================================================
