------------------------------ MODULE Listing -------------------------------
(***************************************************************************)
(* LIST: a walk over the table of channels (list_next_channels of hash.c,  *)
(* m_list.c) that stops when the client's queue is half full and goes on   *)
(* when the socket takes data, while channels come and go and lookups      *)
(* reorder the chains.                                                     *)
(***************************************************************************)
EXTENDS Chain, FiniteSets, Folds

CONSTANTS
  Chans, HashOf, HASHSIZE,   \* channels, strhash, buckets 1 .. HASHSIZE
  Filters,                   \* what the parameters of LIST select: sets of channels
  HalfQueue, Resume,         \* half of the maximal queue; it goes on below Resume
  MaxQueue                   \* bound: replies in the queue

VARIABLES tab,     \* channelTable
          args,    \* cli_listing: <<>>, or <<[bucket, want]>>
          queue,   \* replies that are queued
          listed,  \* the channels of the replies since LIST
          stay,    \* the channels that have existed since LIST
          ended    \* the filter of the last LIST that came to its end

wvars == <<tab, args, queue, listed, stay, ended>>
-----------------------------------------------------------------------------
Exists(t) == UNION {Range(t[b]) : b \in DOMAIN t}
find_channel(t, x) == hSeek(t, HashOf[x], LAMBDA y : y = x)

(* get_channel, and destruct_channel. *)
Create(x) ==
  /\ x \notin Exists(tab)
  /\ tab' = hAdd(tab, HashOf[x], x)
  /\ UNCHANGED <<args, queue, listed, stay, ended>>
Destruct(x) ==
  /\ x \in Exists(tab)
  /\ tab' = hRem(tab, HashOf[x], x) /\ stay' = stay \ {x}
  /\ UNCHANGED <<args, queue, listed, ended>>
FindChannel(x) == tab' = find_channel(tab, x) /\ UNCHANGED <<args, queue, listed, stay, ended>>

(* Mutant: the walk stops inside a bucket and goes on with the next. *)
BucketHalf(w, b) ==
  LET hits == SelectSeq(tab[b], LAMBDA x : x \in w.want)
      n == IF Len(hits) > 1 /\ w.q + 1 > HalfQueue THEN 1 ELSE Len(hits)
  IN  [w EXCEPT !.q = @ + n, !.got = @ \cup {hits[k] : k \in 1..n}, !.bucket = b + 1, !.stop = w.q + n > HalfQueue]
(* A bucket is sent whole; where the walk stops after it, it will start    *)
(* with the same bucket again.                                             *)
OneBucket(w, b) ==
  LET hits == SelectSeq(tab[b], LAMBDA x : x \in w.want)
      q == w.q + Len(hits)
  IN  [w EXCEPT !.q = q, !.got = @ \cup Range(hits), !.stop = q > HalfQueue,
                !.bucket = IF q > HalfQueue THEN b ELSE b + 1]
list_next_channels(bucket, want, q, got) ==
  FoldLeft(LAMBDA w, b : IF w.stop THEN w ELSE OneBucket(w, b),
           [bucket |-> bucket, want |-> want, q |-> q, got |-> got, stop |-> FALSE],
           [k \in 1..(HASHSIZE + 1 - bucket) |-> bucket + k - 1])
Listed(w) ==
  LET done == w.bucket > HASHSIZE
  IN  /\ args' = IF done THEN <<>> ELSE <<[bucket |-> w.bucket, want |-> w.want]>>
      /\ queue' = IF done THEN w.q + 1 ELSE w.q
      /\ listed' = w.got /\ ended' = IF done THEN <<w.want>> ELSE <<>>

(* LIST with a filter; a LIST that is under way ends. *)
m_list(want) ==
  /\ queue < MaxQueue
  /\ Listed(list_next_channels(1, want, queue + 1 + Len(args), {}))
  /\ stay' = Exists(tab) /\ UNCHANGED tab
(* LIST STOP, or LIST alone. *)
ListStop == args # <<>> /\ args' = <<>> /\ queue' = queue + 1 /\ UNCHANGED <<tab, listed, stay, ended>>
(* LIST of a channel: a lookup. *)
ListOne(x) ==
  /\ queue < MaxQueue
  /\ tab' = find_channel(tab, x)
  /\ args' = <<>> /\ queue' = queue + 2 + Len(args) + (IF x \in Exists(tab) THEN 1 ELSE 0)
  /\ ended' = <<>> /\ UNCHANGED <<listed, stay>>

(* The socket takes n replies (ET_WRITE); the walk goes on first. *)
Write(n) ==
  LET a == args[1] IN
  IF args # <<>> /\ queue < Resume
  THEN LET w == list_next_channels(a.bucket, a.want, queue, listed)
       IN  /\ Listed([w EXCEPT !.q = IF @ < n THEN 0 ELSE @ - n])
           /\ UNCHANGED <<tab, stay>>
  ELSE n <= queue /\ queue' = queue - n /\ UNCHANGED <<tab, args, listed, stay, ended>>
(* The client exits, and another takes its place. *)
exit_one_client == args # <<>> /\ args' = <<>> /\ queue' = 0 /\ ended' = <<>> /\ UNCHANGED <<tab, listed, stay>>
-----------------------------------------------------------------------------
LiInit ==
  /\ tab = [b \in 1..HASHSIZE |-> <<>>] /\ args = <<>> /\ queue = 0
  /\ listed = {} /\ stay = {} /\ ended = <<>>

LiNext ==
  \/ \E x \in Chans : Create(x) \/ Destruct(x) \/ FindChannel(x) \/ ListOne(x)
  \/ \E F \in Filters : m_list(F)
  \/ ListStop \/ exit_one_client
  \/ \E n \in 1..MaxQueue : Write(n)
-----------------------------------------------------------------------------
(* A LIST that comes to its end has listed every channel that its          *)
(* parameters select and that was there all the time, however often the    *)
(* walk stopped and whatever was created, destroyed or looked up meanwhile *)
(* (list_next_channels).                                                   *)
ListIsWhole == ended # <<>> => ended[1] \cap stay \subseteq listed
=============================================================================
