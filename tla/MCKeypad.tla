----------------------------- MODULE MCKeypad -----------------------------
EXTENDS Keypad

CONSTANTS h1, h2, f1, f2

\* Two strokes of one character with and without a shift key, and a partial
\* key; registrations that name the shift key and one that does not care.
Plain   == [code |-> "a", shift |-> 0, toggle |-> 0]
Shifted == [code |-> "a", shift |-> 1, toggle |-> 0]
Partial == [code |-> NullKey, shift |-> 1, toggle |-> 0]

MCKeys     == {Shifted, Partial}
MCPatterns == {Plain, Shifted}
MCNoStroke == [key |-> Partial, n |-> 0]
=============================================================================
