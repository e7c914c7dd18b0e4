------------------------------- MODULE MCDdb -------------------------------
(* Instances of Ddb for TLC. *)
EXTENDS Ddb

CONSTANTS h, a, l

(* A chain: the services' hub h, the hub a below it, the leaf l below a. *)
ChainServers == {h, a, l}
ChainTopology == {{h, a}, {a, l}}
PairServers == {h, a}
PairTopology == {{h, a}}
AllServers == {Servers}
TwoMasks == {Servers, {h}}
=============================================================================
