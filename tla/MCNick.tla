------------------------------- MODULE MCNick -------------------------------
(* Instances of Nick for TLC. *)
EXTENDS Nick, TLC

CONSTANTS a, b, c, n1, n2, h1, h2

(* The chain a - b - c, and the pair a - b. *)
Chain == {a, b, c}
ChainVia == [s \in Chain |-> [x \in Chain |-> IF b \in {s, x} \/ s = x THEN x ELSE b]]
Pair == {a, b}
PairVia == [s \in Pair |-> [x \in Pair |-> x]]

Symmetric == Permutations({n1, n2}) \cup Permutations({h1, h2})
=============================================================================
