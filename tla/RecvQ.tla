------------------------------- MODULE RecvQ -------------------------------
(***************************************************************************)
(* Input of one connection: dbuf.c, packet.c, and read_packet with its two *)
(* callers of s_bsd.c.  Bytes come in pieces of any size.  Those of a user *)
(* or of an unknown connection go to a chain of blocks, from which whole   *)
(* lines are taken, no faster than the flood control allows; a timer takes *)
(* the rest later.  A server's are parsed as they come.  A connection may  *)
(* become a server's, or be closed, by the line that is being parsed.      *)
(***************************************************************************)
EXTENDS Naturals, Sequences, FiniteSets, SequencesExt, FiniteSetsExt

CONSTANTS
  BlockSize,    \* DBUF_SIZE
  LineSize,     \* BUFSIZE; a line longer than LineSize - 1 is too long
  LineMax,      \* 510, the most that may wait without a line
  Flood,        \* FEAT_CLIENT_FLOOD
  DbufPool,     \* blocks within FEAT_BUFFERPOOL
  Burst,        \* lines that may be parsed before the client has to wait
  MaxBytes      \* bound: bytes received

VARIABLES
  rq,       \* cli_recvQ: blocks of [data, used], and length
  status,   \* UNKNOWN, HANDSHAKE (we connected), USER, SERVER or GONE
  nonl,     \* FLAG_NONL
  line,     \* cli_buffer, of a server
  lag,      \* lines that the client is ahead of the flood control
  proc,     \* cli_proc is on the queue
  parsed,   \* the lines parsed
  stream,   \* the bytes received that were not thrown away
  drops,    \* the contents of the buffer that were thrown away
  bytes

qvars == <<rq, status, nonl, line, lag, proc, parsed, stream, drops, bytes>>
-----------------------------------------------------------------------------
Chars == {"x", "EOL"}
Empty == [blocks |-> <<>>, length |-> 0]
Text(r) == FlattenSeq([k \in DOMAIN r.blocks |-> r.blocks[k].data])

(* One byte of dbuf_put: into the last block, or a new one. *)
PutByte(r, ch) ==
  LET n == Len(r.blocks)
  IN  IF n > 0 /\ r.blocks[n].used < BlockSize
      THEN [r EXCEPT !.blocks[n] = [data |-> Append(@.data, ch), used |-> @.used + 1]]
      ELSE [r EXCEPT !.blocks = Append(@, [data |-> <<ch>>, used |-> 1])]
dbuf_put(r, piece) == FoldLeft(PutByte, [r EXCEPT !.length = @ + Len(piece)], piece)
PutFails(r, piece) == Len(dbuf_put(r, piece).blocks) > DbufPool

(* Bytes leave the first block; an empty one is freed. *)
DropByte(b) == IF Len(b[1].data) = 1 THEN Tail(b) ELSE [b EXCEPT ![1].data = Tail(@)]
Dropped(b, n) == FoldLeft(LAMBDA c, i : DropByte(c), b, [i \in 1..n |-> i])
dbuf_delete(r, n) == [blocks |-> Dropped(r.blocks, n), length |-> r.length - n]

Leading(t) == IF \E k \in DOMAIN t : t[k] # "EOL" THEN Min({k \in DOMAIN t : t[k] # "EOL"}) - 1 ELSE Len(t)
(* Ends of lines at the beginning are skipped. *)
dbuf_flush(r) ==
  LET j == Leading(Text(r))
      b == Dropped(r.blocks, j)
  IN  [blocks |-> b, length |-> IF b = <<>> THEN 0 ELSE r.length - j]

(* dbuf_getmsg: block by block up to an end of line, at most n bytes; the  *)
(* length of the line, 0 if there is none.                                 *)
ScanBlock(a, b) ==
  IF a.found \/ a.left = 0 THEN a
  ELSE LET n == IF Len(b.data) < a.left THEN Len(b.data) ELSE a.left
           E == {k \in 1..n : b.data[k] = "EOL"}
       IN  IF E # {} THEN [a EXCEPT !.found = TRUE, !.copied = @ + Min(E) - 1]
           ELSE [a EXCEPT !.copied = @ + n, !.left = @ - n]
dbuf_getmsg(r) ==
  LET n == IF LineSize < r.length THEN LineSize ELSE r.length
      a == FoldLeft(ScanBlock, [left |-> n, copied |-> 0, found |-> FALSE], r.blocks)
  IN  IF a.found THEN a.copied ELSE 0
-----------------------------------------------------------------------------
(* The whole state, and the functions of packet.c on it. *)
Conn == [rq |-> rq, status |-> status, nonl |-> nonl, line |-> line, lag |-> lag, parsed |-> parsed,
         stream |-> stream, drops |-> drops]
(* DBufClear: the contents of the buffer are the last bytes that came. *)
DBufClear(s) ==
  [s EXCEPT !.rq = Empty, !.stream = SubSeq(@, 1, Len(@) - Len(Text(s.rq))), !.drops = @ \cup {Text(s.rq)}]
exit_client(s) ==
  [s EXCEPT !.rq = Empty, !.line = <<>>, !.parsed = <<>>, !.stream = <<>>, !.drops = {}, !.status = "GONE"]

(* A server's input, and that of a connection we opened, is parsed as it   *)
(* comes.                                                                  *)
Direct(s) == s.status \in {"SERVER", "HANDSHAKE"}

(* What parsing a line does to the connection: turns[i] says of the i-th   *)
(* line parsed in this call that it makes it a server's or closes it.      *)
Turn(s, t) == CASE t = "none" -> s [] t = "gone" -> exit_client(s)
                [] t = "user" -> IF s.status = "UNKNOWN" THEN [s EXCEPT !.status = "USER"] ELSE s
                [] t = "server" -> IF Direct(s) \/ s.status = "UNKNOWN" THEN [s EXCEPT !.status = "SERVER"] ELSE s

(* One byte of server_dopacket and connect_dopacket; a line that is too long loses its end. *)
ServerByte(s, ch, t) ==
  IF s.status = "GONE" THEN s
  ELSE IF ch = "EOL" THEN IF s.line = <<>> THEN s ELSE Turn([s EXCEPT !.parsed = Append(@, s.line), !.line = <<>>], t)
  ELSE [s EXCEPT !.line = IF Len(@) < LineSize THEN Append(@, ch) ELSE @]
server_dopacket(s, piece, t) == FoldLeft(LAMBDA u, ch : ServerByte(u, ch, t), s, piece)

client_dopacket(s, n, t) ==
  Turn([s EXCEPT !.parsed = Append(@, SubSeq(Text(s.rq), 1, n)), !.rq = dbuf_flush(dbuf_delete(@, n)), !.lag = @ + 1], t)

(* One round of the loop of read_packet, for a line of n bytes; when it    *)
(* was a server's, the rest of the buffer is read as a server's input.     *)
TakeLine(s, n, t) ==
  IF n > 0 THEN client_dopacket(s, n, t)
  ELSE IF s.rq.length < LineMax THEN [s EXCEPT !.nonl = TRUE]
  ELSE DBufClear(s)
TakeRest(s) ==
  IF s.status = "SERVER" THEN server_dopacket([s EXCEPT !.rq = Empty], Text(s.rq), "none") ELSE s
Flushed(s, t) == TakeRest(TakeLine(s, dbuf_getmsg(s.rq), t))
Round(s, t) == Flushed([s EXCEPT !.rq = dbuf_flush(@)], t)
MayParse(s) == s.status \in {"UNKNOWN", "USER"} /\ s.rq.length > 0 /\ ~s.nonl /\ s.lag < Burst
Rounds(s, turns) == FoldLeft(LAMBDA u, t : IF MayParse(u) THEN Round(u, t) ELSE u, s, turns)

(* read_packet with the bytes that were read. *)
Buffered(s, turns) == IF s.rq.length > Flood THEN exit_client(s) ELSE Rounds(s, turns)
Arrived(s, piece, turns) ==
  IF piece # <<>> /\ Direct(s) THEN server_dopacket(s, piece, Head(turns))
  ELSE IF piece # <<>> /\ PutFails(s.rq, piece) THEN exit_client(s)
  ELSE Buffered([s EXCEPT !.rq = dbuf_put(@, piece)], turns)
Received(s, piece, turns) ==
  Arrived([s EXCEPT !.stream = @ \o piece, !.nonl = @ /\ piece = <<>>], piece, turns)

(* Mutant: the timer is started only when nothing could be parsed. *)
TimerOnlyIfIdle(s, onqueue) == onqueue \/ (~Direct(s) /\ s.rq.length > 0 /\ ~s.nonl /\ s.parsed = parsed)
(* Whether the timer of the connection runs at the end of read_packet. *)
Rearm(s, onqueue) == onqueue \/ (~Direct(s) /\ s.rq.length > 0 /\ ~s.nonl)

Becomes(s, onqueue) ==
  /\ rq' = s.rq /\ status' = s.status /\ nonl' = s.nonl /\ line' = s.line
  /\ parsed' = s.parsed /\ stream' = s.stream /\ drops' = s.drops /\ lag' = s.lag
  /\ proc' = (s.status # "GONE" /\ Rearm(s, onqueue))
read_packet(piece, turns, onqueue) == Becomes(Received(Conn, piece, turns), onqueue)

(* The lines of one call are turned alike from the k-th on. *)
Turns == {[i \in 1..(MaxBytes + 1) |-> IF i < k THEN "none" ELSE t] : k \in 1..2, t \in {"none", "user", "server", "gone"}}

(* Bytes are there; a user who has more than enough waiting is not read.   *)
ReadEvent(piece, turns) ==
  /\ status # "GONE" /\ Len(piece) <= MaxBytes - bytes /\ bytes' = bytes + Len(piece)
  /\ read_packet(piece, turns, proc)
(* The timer: a second or two have passed. *)
client_timer_callback(turns) ==
  /\ proc /\ bytes' = bytes
  /\ read_packet(<<>>, turns, FALSE)
(* Time goes by. *)
Wait == lag > 0 /\ lag' = lag - 1 /\ UNCHANGED <<rq, status, nonl, line, proc, parsed, stream, drops, bytes>>
-----------------------------------------------------------------------------
RqInit ==
  /\ rq = Empty /\ status \in {"UNKNOWN", "HANDSHAKE"} /\ nonl = FALSE /\ line = <<>> /\ lag = 0 /\ proc = FALSE
  /\ parsed = <<>> /\ stream = <<>> /\ drops = {} /\ bytes = 0

RqNext ==
  \/ \E n \in 1..3 : \E piece \in [1..n -> Chars], turns \in Turns : ReadEvent(piece, turns)
  \/ \E turns \in Turns : client_timer_callback(turns)
  \/ Wait
-----------------------------------------------------------------------------
(* The lines of a text: what lies between ends of lines, if anything. *)
LinesOf(t) ==
  LET E == {0} \cup {k \in DOMAIN t : t[k] = "EOL"}
      Next(k) == Min({j \in E : j > k})
      S == {k \in E : (\E j \in E : j > k) /\ Next(k) > k + 1}
      q == SetToSortSeq(S, LAMBDA a, b : a < b)
  IN  [i \in DOMAIN q |-> SubSeq(t, q[i] + 1, Next(q[i]) - 1)]

(* The lines parsed and those that wait are the lines of what was sent, in *)
(* order, however it was cut into pieces and blocks, and across the change *)
(* of a client's connection into a server's; nothing is seen twice, and    *)
(* nothing is lost but the end of a line of a server that is too long and  *)
(* what a client's buffer held when it began with a line that is too long  *)
(* (dbuf_getmsg, server_dopacket, read_packet).  Lines behind such a line  *)
(* are lost with it, and what comes of its end later is a line of its own. *)
LinesAreSent ==
  LET Upto(t, n) == SubSeq(t, 1, IF Len(t) < n THEN Len(t) ELSE n)
      Lines(q) == [i \in DOMAIN q |-> Upto(q[i], LineSize)]
  IN  /\ Lines(LinesOf(stream)) = parsed \o Lines(LinesOf(Text(rq)))
      /\ \A d \in drops : Len(d) >= LineMax /\ ~Contains(Upto(d, LineSize), "EOL")
      /\ rq.length = Len(Text(rq))

(* A line that waits in the buffer has a timer that will take it: a client *)
(* that is held back by the flood control is not forgotten (read_packet).  *)
WaitingIsTimed ==
  (status \in {"UNKNOWN", "USER"} /\ \E k \in DOMAIN Text(rq) : Text(rq)[k] = "EOL") => proc
=============================================================================
