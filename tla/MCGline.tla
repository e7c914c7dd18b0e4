------------------------------ MODULE MCGline -------------------------------
(* Instances of Gline for TLC. *)
EXTENDS Gline

CONSTANTS a, b, c

(* The chain a - b - c; b closes and reopens its link to a. *)
Chain == {a, b, c}
ChainVia == [s \in Chain |-> [x \in Chain |-> IF b \in {s, x} \/ s = x THEN x ELSE b]]

Uplink == {<<b, a>>}
=============================================================================
