------------------------------- MODULE SendQ -------------------------------
(***************************************************************************)
(* Output: msgq.c, the queueing half of send.c, deliver_it, update_write   *)
(* and close_connection of s_bsd.c, and the list of send queues of         *)
(* client.c.  A message is formatted once into a buffer of full size,      *)
(* copied to a smaller one when it is first queued, and shared by all the  *)
(* queues it goes to; buffers are counted and come from a pool of limited  *)
(* size.  Each connection has a normal and a priority queue.  The kernel   *)
(* takes any number of bytes of a write.                                   *)
(***************************************************************************)
EXTENDS Naturals, Sequences, FiniteSets, SequencesExt, FiniteSetsExt

CONSTANTS
  Conns,       \* local connections
  ServerConns, \* those of them that are servers
  MsgLens,     \* lengths of messages, at most 2; a small buffer holds 1
  Pool,        \* FEAT_BUFFERPOOL
  FergusonFlusher, \* FEAT_HAS_FERGUSON_FLUSHER
  MaxSendQ,    \* get_sendq
  Chunk,       \* what may be queued before it is written at once (1024)
  MaxMsgs,     \* bound: messages, with the closes before them
  MaxCloses    \* bound: connections closed

VARIABLES
  sq,     \* per connection: queue and prio of [b, sent], blocked, dead,
          \* want, lastsq
  buf,    \* the message buffers: size, ref, real, msg and its length
  list,   \* send_queues
  out,    \* per connection, the bytes written: <<msg, byte>>
  said,   \* per connection, the messages queued: <<number, prio>>
  msgs, closes,
  did     \* flush_connections(0) was called, the server stops

svars == <<sq, buf, list, out, said, msgs, closes, did>>
-----------------------------------------------------------------------------
Bufs == 1..(2 * MaxMsgs)
NoBuf == [size |-> 0, ref |-> 0, real |-> 0, msg |-> <<0, FALSE>>, len |-> 0]
NewConn == [queue |-> <<>>, prio |-> <<>>, blocked |-> FALSE, dead |-> FALSE, want |-> FALSE,
            lastsq |-> 0]
Now == [sq |-> sq, buf |-> buf, list |-> list, out |-> out, said |-> said]
Set(s) == sq' = s.sq /\ buf' = s.buf /\ list' = s.list /\ out' = s.out /\ said' = s.said

tot_bufsize(s) == MapThenSumSet(LAMBDA b : s.buf[b].size, Bufs)
Left(s, e) == s.buf[e.b].len - e.sent
MsgQLength(s, c) ==
  LET Sum(l) == FoldLeft(LAMBDA n, e : n + Left(s, e), 0, l) IN Sum(s.sq[c].queue) + Sum(s.sq[c].prio)

(* msgq_alloc: a free buffer of the size, or a new one within the pool.    *)
FreeBufs(s, size) == {b \in Bufs : s.buf[b].size = size /\ s.buf[b].ref = 0}
CanAlloc(s, size) == FreeBufs(s, size) # {} \/ tot_bufsize(s) < Pool
PickBuf(s, size) ==
  IF FreeBufs(s, size) # {} THEN Min(FreeBufs(s, size)) ELSE Min({b \in Bufs : s.buf[b].size = 0})
msgq_alloc(s, b, size) == [s EXCEPT !.buf[b] = [NoBuf EXCEPT !.size = size, !.ref = 1]]

msgq_clean(s, b) ==
  LET r == s.buf[b].real
      t == [s EXCEPT !.buf[b].ref = @ - 1]
  IN  IF s.buf[b].ref = 1 /\ r \notin {0, b} THEN [t EXCEPT !.buf[r].ref = @ - 1] ELSE t

(* The first time it is queued, a message moves to a buffer of its size.   *)
Real(s, b) ==
  IF s.buf[b].real # 0 THEN s
  ELSE IF s.buf[b].len = s.buf[b].size \/ ~CanAlloc(s, s.buf[b].len) THEN [s EXCEPT !.buf[b].real = b]
  ELSE LET t == PickBuf(s, s.buf[b].len)
       IN  [msgq_alloc(s, t, s.buf[b].len) EXCEPT !.buf[b].real = t, !.buf[t].msg = s.buf[b].msg, !.buf[t].len = s.buf[b].len]
msgq_add(s, c, b, prio) ==
  LET t == Real(s, b)
      r == t.buf[b].real
      e == [b |-> r, sent |-> 0]
      u == [t EXCEPT !.buf[r].ref = @ + 1]
  IN  IF prio THEN [u EXCEPT !.sq[c].prio = Append(@, e)] ELSE [u EXCEPT !.sq[c].queue = Append(@, e)]

(* msgq_mapiov: the bytes of a queue in the order they are written. *)
msgq_mapiov(s, c) ==
  LET Part(e) == [i \in 1..Left(s, e) |-> <<s.buf[e.b].msg, e.sent + i>>]
      Parts(l) == FlattenSeq([k \in DOMAIN l |-> Part(l[k])])
      q == s.sq[c].queue
  IN  IF q # <<>> /\ q[1].sent > 0 THEN Part(q[1]) \o Parts(s.sq[c].prio) \o Parts(Tail(q))
      ELSE Parts(s.sq[c].prio) \o Parts(q)

(* Mutant: priority messages are always the first to go. *)
PrioFirst(s, c) == s.sq[c].prio = <<>>
(* msgq_delete takes from the normal queue if its first message was begun. *)
FromQueue(s, c) == s.sq[c].prio = <<>> \/ (s.sq[c].queue # <<>> /\ s.sq[c].queue[1].sent > 0)
(* One byte of msgq_delete. *)
msgq_delmsg(s, c) ==
  LET l == IF FromQueue(s, c) THEN s.sq[c].queue ELSE s.sq[c].prio
      m == IF Left(s, l[1]) = 1 THEN Tail(l) ELSE [l EXCEPT ![1].sent = @ + 1]
      t == IF FromQueue(s, c) THEN [s EXCEPT !.sq[c].queue = m] ELSE [s EXCEPT !.sq[c].prio = m]
  IN  IF Left(s, l[1]) = 1 THEN msgq_clean(t, l[1].b) ELSE t
msgq_delete(s, c, n) == FoldLeft(LAMBDA t, i : msgq_delmsg(t, c), s, [i \in 1..n |-> i])
MsgQClear(s, c) == msgq_delete(s, c, MsgQLength(s, c))

msgq_clear_freembs(s) == [s EXCEPT !.buf = [b \in Bufs |-> IF s.buf[b].ref = 0 THEN NoBuf ELSE s.buf[b]]]
-----------------------------------------------------------------------------
client_add_sendq(s, c) == [s EXCEPT !.list = IF Contains(@, c) THEN @ ELSE <<c>> \o @]
client_drop_sendq(s, c) == [s EXCEPT !.list = SelectSeq(@, LAMBDA d : d # c)]
update_write(s, c) == [s EXCEPT !.sq[c].want = MsgQLength(s, c) > 0]

(* What a dead link was told is of no interest any more. *)
Forget(s, c) == [s EXCEPT !.out[c] = <<>>, !.said[c] = <<>>]
dead_link(s, c) == Forget(client_drop_sendq(MsgQClear([s EXCEPT !.sq[c].dead = TRUE], c), c), c)

(* send_queued with the kernel taking n bytes in all, or failing after     *)
(* them.                                                                   *)
Outcomes(c) == {o \in (0..MsgQLength(Now, c)) \X BOOLEAN : o[2] => o[1] < MsgQLength(Now, c)}
(* While a loop over connections flushes, each takes all or nothing. *)
Flushes == {<<0, FALSE>>, <<2 * MaxMsgs, FALSE>>}
(* A write of send_buffer is whole, cut short or fails.  Of the writes of  *)
(* one message every kernel takes the same.                                *)
Writes == {[c \in Conns |-> o] : o \in {<<2 * MaxMsgs, FALSE>>, <<1, FALSE>>, <<0, TRUE>>}}
Written(s, c, n) == [msgq_delete(s, c, n) EXCEPT !.out[c] = @ \o SubSeq(msgq_mapiov(s, c), 1, n)]
Counted(t, c, n) == IF n = 0 THEN t ELSE [t EXCEPT !.sq[c].lastsq = MsgQLength(t, c) \div Chunk]
AfterWrite(t, c, all, fails) ==
  IF all THEN update_write(client_drop_sendq(t, c), c)
  ELSE IF fails THEN dead_link(t, c)
  ELSE [t EXCEPT !.sq[c].blocked = TRUE]
WriteUpTo(s, c, o, len) ==
  LET n == Min({o[1], len}) IN AfterWrite(Counted(Written(s, c, n), c, n), c, n = len, o[2])
send_queued(s, c, o) ==
  IF s.sq[c].blocked \/ s.sq[c].dead THEN s ELSE WriteUpTo(s, c, o, MsgQLength(s, c))

(* send_buffer: what has grown by a chunk since the last write is written  *)
(* at once; o is what the kernel takes then.                               *)
Grown(s, c, o) == IF MsgQLength(s, c) \div Chunk > s.sq[c].lastsq THEN send_queued(s, c, o) ELSE s
send_buffer(s, c, b, prio, o) ==
  IF s.sq[c].dead THEN s
  ELSE IF MsgQLength(s, c) > MaxSendQ THEN dead_link(s, c)
  ELSE LET t == [msgq_add(s, c, b, prio) EXCEPT !.said[c] = Append(@, s.buf[b].msg)]
       IN  Grown(update_write(client_add_sendq(t, c), c), c, o)

(* flush_connections(0): the next connection is read from one that has     *)
(* just left the list when its queue went out, and is none then.           *)
flush_connections(s, f) ==
  LET After(t, c) == [s |-> t, stop |-> ~Contains(t.list, c)]
      Visit(a, c) == IF a.stop THEN a ELSE After(send_queued(a.s, c, f[c]), c)
  IN  FoldLeft(Visit, [s |-> s, stop |-> FALSE], s.list).s

kill_highest_sendq(s, servers_too) ==
  LET C == {c \in Conns : MsgQLength(s, c) > 0 /\ (servers_too \/ c \notin ServerConns)}
  IN  IF C = {} THEN s
      ELSE LET h == Max({MsgQLength(s, c) : c \in C}) IN dead_link(s, Max({c \in C : MsgQLength(s, c) = h}))

(* What msgq_vmake does when there is no buffer, until there is one. *)
KillServers(s) == IF CanAlloc(s, 2) THEN s ELSE msgq_clear_freembs(kill_highest_sendq(s, TRUE))
KillOthers(s) == IF CanAlloc(s, 2) THEN s ELSE KillServers(msgq_clear_freembs(kill_highest_sendq(s, FALSE)))
ClearFree(s) == IF CanAlloc(s, 2) THEN s ELSE KillOthers(msgq_clear_freembs(s))
MakeRoom(s, f) == IF CanAlloc(s, 2) THEN s ELSE ClearFree(IF FergusonFlusher THEN flush_connections(s, f) ELSE s)
-----------------------------------------------------------------------------
(* The callers of msgq_make: a message is made, queued to the connections  *)
(* D and released.  Without a buffer the server panics.                    *)
Queue(D, prio, len, r, b, f) ==
  LET m == [msgq_alloc(r, b, 2) EXCEPT !.buf[b].msg = <<msgs + 1, prio>>, !.buf[b].len = len]
      s == FoldLeft(LAMBDA t, c : send_buffer(t, c, b, prio, f[c]), m, SetToSeq(D))
  IN  CanAlloc(r, 2) /\ Set(msgq_clean(s, b))
sendcmdto(D, prio, len, f) ==
  LET Made(r) == Queue(D, prio, len, r, PickBuf(r, 2), f)
  IN  /\ msgs + closes < MaxMsgs /\ msgs' = msgs + 1
      /\ Made(MakeRoom(Now, f))
      /\ UNCHANGED <<closes, did>>

(* The socket can be written to. *)
writable(c, o) ==
  /\ sq[c].want /\ ~sq[c].dead
  /\ Set(send_queued([Now EXCEPT !.sq[c].blocked = FALSE], c, o))
  /\ UNCHANGED <<msgs, closes, did>>

(* The server is about to stop: server_die, server_restart. *)
flush_all(f) == list # <<>> /\ Set(flush_connections(Now, f)) /\ did' = TRUE /\ UNCHANGED <<msgs, closes>>

(* The connection is closed: what the kernel takes in a last write does    *)
(* not matter, the rest goes; another connection may take its place.       *)
close_connection(c) ==
  /\ closes < MaxCloses /\ closes' = closes + 1
  /\ LET s == client_drop_sendq(MsgQClear(Now, c), c)
     IN  Set(Forget([s EXCEPT !.sq[c] = NewConn], c))
  /\ UNCHANGED <<msgs, did>>
-----------------------------------------------------------------------------
SqInit ==
  /\ sq = [c \in Conns |-> NewConn] /\ buf = [b \in Bufs |-> NoBuf] /\ list = <<>>
  /\ out = [c \in Conns |-> <<>>] /\ said = [c \in Conns |-> <<>>] /\ msgs = 0 /\ closes = 0 /\ did = FALSE

SqNext ==
  /\ ~did
  /\ \/ \E D \in (SUBSET Conns) \ {{}}, prio \in BOOLEAN, len \in MsgLens :
          \E f \in IF CanAlloc(Now, 2) THEN Writes ELSE [Conns -> Flushes] : sendcmdto(D, prio, len, f)
     \/ \E c \in Conns : close_connection(c) \/ \E o \in Outcomes(c) : writable(c, o)
     \/ \E f \in [Conns -> Flushes] : flush_all(f)
-----------------------------------------------------------------------------
(* What a peer has read and will read is whole messages: the bytes of one *)
(* are never broken by those of another, whatever priority messages arrive *)
(* while one is half written (msgq_mapiov and msgq_delete agree), and the  *)
(* messages of either priority are the ones that were queued, each once    *)
(* and in their order, until the link is dead.                             *)
Stream(c) == out[c] \o msgq_mapiov(Now, c)
WholeMessages ==
  \A c \in Conns :
    LET s == Stream(c)
        firsts == SelectSeq(s, LAMBDA x : x[2] = 1)
        began == [k \in DOMAIN firsts |-> firsts[k][1]]
        Of(l, prio) == SelectSeq(l, LAMBDA m : m[2] = prio)
    IN  /\ \A k \in DOMAIN s : s[k][2] # 1 => k > 1 /\ s[k - 1] = <<s[k][1], s[k][2] - 1>>
        /\ \A prio \in BOOLEAN : Of(began, prio) = Of(said[c], prio)

(* A buffer is referenced as often as it is on a queue, so none is reused  *)
(* while a queue holds it and none is lost to the pool (msgq_add,          *)
(* msgq_clean, and a pool that runs out in between).                       *)
BuffersCounted ==
  \A b \in Bufs :
    buf[b].ref = Cardinality({<<c, k>> \in Conns \X (1..MaxMsgs) : k \in DOMAIN sq[c].queue /\ sq[c].queue[k].b = b})
                 + Cardinality({<<c, k>> \in Conns \X (1..MaxMsgs) : k \in DOMAIN sq[c].prio /\ sq[c].prio[k].b = b})

(* A connection with something to send is on the list of send queues and   *)
(* waits for its socket, so that no message is stuck (update_write,        *)
(* client_add_sendq).                                                      *)
QueuedIsWatched ==
  \A c \in Conns : MsgQLength(Now, c) > 0 <=> (sq[c].want /\ Contains(list, c) /\ ~sq[c].dead)

(* "Flush data queued for one or all connections ... (if NULL, do all)":   *)
(* afterwards only a socket that is blocked has data left.  Does not hold: *)
(* the loop ends with the first connection it empties, which is off the    *)
(* list when it asks for the next (send.c, line 152).                      *)
FlushReachesAll == did => \A c \in Conns : MsgQLength(Now, c) > 0 => sq[c].blocked
=============================================================================
