------------------------------ MODULE KeyFifo ------------------------------
(***************************************************************************)
(* What the readers of a key buffer may assume: every stroke that arrives  *)
(* goes in, strokes come out in the order they went in, each once; only    *)
(* the oldest is lost, and only to make room for a new one.                *)
(***************************************************************************)
EXTENDS Naturals, Sequences

CONSTANTS
    Strokes,    \* what the buffer holds
    NoStroke,   \* no stroke
    Capacity    \* how many it holds

VARIABLES
    arriving,   \* the stroke the device is handing over
    pending     \* the strokes not yet read, oldest first

vars == <<arriving, pending>>

Init == arriving = NoStroke /\ pending = <<>>

Arrive(k) == arriving = NoStroke /\ arriving' = k /\ UNCHANGED pending

Push ==
    /\ arriving # NoStroke
    /\ pending' = Append(IF Len(pending) < Capacity THEN pending ELSE Tail(pending),
                         arriving)
    /\ arriving' = NoStroke

Pop == /\ arriving = NoStroke /\ pending # <<>>
       /\ pending' = Tail(pending)
       /\ UNCHANGED arriving

Clear == arriving = NoStroke /\ pending' = <<>> /\ UNCHANGED arriving

Next == (\E k \in Strokes : Arrive(k)) \/ Push \/ Pop \/ Clear

Spec == Init /\ [][Next]_vars
=============================================================================
