---------------------------- MODULE MCConsoleIn ----------------------------
(***************************************************************************)
(* Console input for TLC.  The lists of keyboards, the keys read from them, *)
(* the pointers and the buttons share no state, so the run checks them side *)
(* by side: part says which of them moves, and the others keep their        *)
(* initial state.  The lists move twice, all keyboards with the Ex protocol *)
(* and one that may fail, or one with it and one without; mice and panels   *)
(* take turns, because their product is large and they meet nowhere.        *)
(***************************************************************************)
EXTENDS ConSplitterIn, InputDevices, TLC

CONSTANTS k1, k2, k3, f1, sync, none, m1, m2, p1, p2

VARIABLE part

MCPatterns == {[code |-> "a", shift |-> 0]}
MouseWidth == m1 :> 2 @@ m2 :> 1
PanelRange == p1 :> [min |-> 0, max |-> 2] @@ p2 :> [min |-> 1, max |-> 2]

keyboards == vars
Mixed == INSTANCE ConSplitterIn WITH Devices <- {k1, k3}, ExDevices <- {k1}, Faulty <- {k3}

ASSUME MixedAssumption == Mixed!ConInAssumption

MCInit ==
    /\ part \in {"keyboards", "mixed", "keys", "mice", "panels", "buttons"}
    /\ IF part = "mixed" THEN Mixed!Init ELSE Init
    /\ Keys!Init /\ Pointer!Init
    /\ Buttons!Init /\ (part # "buttons" => held = {})

MCNext ==
    \/ part = "keyboards" /\ Next /\ UNCHANGED <<part, keys, points, button>>
    \/ part = "mixed" /\ Mixed!Next /\ UNCHANGED <<part, keys, points, button>>
    \/ part = "keys" /\ Keys!Next /\ UNCHANGED <<part, keyboards, points, button>>
    \/ /\ part = "mice" /\ Pointer!Next /\ pointers'["absolute"] = <<>>
       /\ UNCHANGED <<part, keyboards, keys, button>>
    \/ /\ part = "panels" /\ Pointer!Next /\ pointers'["simple"] = <<>>
       /\ UNCHANGED <<part, keyboards, keys, button>>
    \/ part = "buttons" /\ Buttons!Next /\ UNCHANGED <<part, keyboards, keys, points>>

MCSpec == MCInit /\ [][MCNext]_<<part, keyboards, keys, points, button>>
=============================================================================
