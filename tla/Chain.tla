-------------------------------- MODULE Chain -------------------------------
(***************************************************************************)
(* The chains of the hash tables of hash.c: of clients, of channels and of *)
(* MONITOR nicks.  A chain is a sequence of keys, a table a function from  *)
(* buckets to chains.                                                      *)
(***************************************************************************)
EXTENDS Naturals, Sequences, SequencesExt

(* hAddClient, hAddChannel, hAddMonitor: at the head of the bucket. *)
hAdd(t, b, x) == [t EXCEPT ![b] = <<x>> \o @]
(* hRemClient, hRemChannel, hRemMonitor: if it is in that bucket. *)
hRem(t, b, x) == [t EXCEPT ![b] = SelectSeq(@, LAMBDA y : y # x)]

(* hSeekClient, hSeekChannel, hSeekMonitor: the first of the bucket that   *)
(* matches, which then moves to the head.                                  *)
Found(t, b, P(_)) == {k \in DOMAIN t[b] : P(t[b][k])}
First(t, b, P(_)) == CHOOSE k \in Found(t, b, P) : \A j \in Found(t, b, P) : k <= j
hSeek(t, b, P(_)) ==
  IF Found(t, b, P) = {} THEN t
  ELSE LET x == t[b][First(t, b, P)] IN hAdd([t EXCEPT ![b] = RemoveAt(@, First(t, b, P))], b, x)
=============================================================================
