---------------------------- MODULE MCBindings -----------------------------
(* Bindings with two or three connections of the device.                    *)
EXTENDS Bindings, TLC

CONSTANTS c1, c2, c3

TwoConns == {c1, c2}
ThreeConns == {c1, c2, c3}

\* No action tells connections apart.
Symmetry == Permutations(Conns)
=============================================================================
