------------------------------- MODULE Links -------------------------------
(***************************************************************************)
(* Server links and the tree they form: connect_server and                 *)
(* completed_connection of s_bsd.c, m_server.c, server_estab,              *)
(* exit_new_server and a_kills_b_too of s_serv.c, m_squit.c and            *)
(* exit_client of s_misc.c.                                                *)
(*                                                                         *)
(* Any two servers may link at any time, also by two connections at once,  *)
(* and several links may be made at the same time in different places: the *)
(* SERVER messages that then cross close a loop, and check_loop_and_lh has *)
(* every server choose by timestamps which link to give up.  Connections   *)
(* break.  All clocks agree (a clock is never set back by the lag of a     *)
(* message), and no two links are made in one second; all servers are hubs *)
(* that may introduce any other, and servers are named by numbers.         *)
(***************************************************************************)
EXTENDS Naturals, Sequences, FiniteSets, SequencesExt, FiniteSetsExt

CONSTANTS
  Servers,      \* names, compared as strcmp does: numbers from 1
  MayConnect,   \* pairs <<a, b>>: a has a Connect block for b
  ReliableClock,  \* FEAT_RELIABLE_CLOCK
  Started,      \* server -> when it started, compared only with each other
  MaxEvents     \* bound: connections made, SQUITs by operators and links that break

VARIABLES
  tab,      \* per server, what it knows of servers: its clients but itself
  conns,    \* connections made so far: [a, b, open], open the ends not closed
  pipe,     \* per connection and end, the messages on their way to that end
  since,    \* per server, the earliest start it has heard of from its links
  now, squits, breaks   \* the clock; what has happened so far

lvars == <<tab, conns, pipe, since, now, squits, breaks>>
More == Len(conns) + squits + breaks < MaxEvents
-----------------------------------------------------------------------------
(* A server that s knows: k is the connection it is behind (cli_from), up  *)
(* the server it is linked to, s itself for those at the other end of k.   *)
Entry(name, k, up, ts, st) == [name |-> name, k |-> k, up |-> up, ts |-> ts, st |-> st, ghost |-> FALSE]
NoEntry == [name |-> 0]
Hello(s, start, ts) == [t |-> "HELLO", name |-> s, start |-> start, ts |-> ts]
Server(pfx, name, ts) == [t |-> "SERVER", pfx |-> pfx, name |-> name, ts |-> ts]
Squit(pfx, name, ts) == [t |-> "SQUIT", pfx |-> pfx, name |-> name, ts |-> ts]
Eof == [t |-> "EOF"]
Other(k, s) == IF conns[k].a = s THEN conns[k].b ELSE conns[k].a

(* What a handler at s has done so far: tables, what it sends, what it     *)
(* closes, and how check_loop_and_lh is to end.                            *)
Start(s) == [tab |-> tab[s], out |-> [k \in DOMAIN conns |-> <<>>], close |-> {}, ret |-> "loop", ghost |-> FALSE]
Send(w, k, m) == [w EXCEPT !.out[k] = Append(@, m)]

(* LocalOf: the entry of connection k itself, of a server or a handshake.  *)
Find(T, P(_)) == IF \E e \in T : P(e) THEN CHOOSE e \in T : P(e) ELSE NoEntry
LocalOf(T, s, k) == Find(T, LAMBDA e : e.k = k /\ e.up = s)
Named(T, name) == {e \in T : e.name = name}
FindServer(T, name) == Find(T, LAMBDA e : e.name = name /\ e.st = "server")
Down(T, s) == {e \in T : e.up = s /\ e.st = "server"}

(* The entries from e up to s. *)
UpOf(T, e) == Find(T, LAMBDA f : f.name = e.up /\ f.k = e.k /\ f.st = "server")
Path(T, s, e) ==
  LET Longer(p, u) == IF u = NoEntry THEN p ELSE Append(p, u)
      Step(p, i) == IF Last(p).up = s THEN p ELSE Longer(p, UpOf(T, Last(p)))
  IN  FoldLeft(Step, <<e>>, [i \in 1..Cardinality(Servers) |-> i])
(* Mutant: exit_downlinks leaves the servers behind. *)
BelowStays(T, s, v) == {}
Below(T, s, v) == {e \in T : e.k = v.k /\ v \in Range(Path(T, s, e))}

(* exit_client of an entry; kf is the connection of the killer, 0 for s.   *)
exit_client(w, s, v, killer, kf) ==
  LET w1 == IF v.up = s /\ v.k # kf /\ v.st \in {"server", "handshake"} THEN Send(w, v.k, Squit(s, s, 0)) ELSE w
      w2 == IF v.up = s THEN [w1 EXCEPT !.close = @ \cup {v.k}] ELSE w1
      w3 == IF v.st # "server" THEN w2
            ELSE FoldLeft(LAMBDA x, d : Send(x, d.k, Squit(killer, v.name, v.ts)), w2,
                          SetToSeq({d \in Down(w.tab, s) : d.k # kf /\ d # v}))
  IN  [w3 EXCEPT !.tab = @ \ (IF v.st = "server" THEN Below(w.tab, s, v) \cup {v} ELSE {v})]
(* exit_client of the connection k itself, known or not. *)
exit_conn(w, s, k) ==
  LET v == LocalOf(w.tab, s, k)
  IN  [(IF v = NoEntry THEN [w EXCEPT !.close = @ \cup {k}] ELSE exit_client(w, s, v, s, 0)) EXCEPT !.ret = "stop"]

exit_new_server(w, s, k, sp, host, ts) ==
  IF sp = NoEntry THEN exit_conn(w, s, k)
  ELSE [Send(w, k, Squit(s, host, ts)) EXCEPT !.ret = "stop"]
-----------------------------------------------------------------------------
(* The youngest link of a loop and the one before it, c3 and c2; NoEntry   *)
(* stands for the new link, of time ts.                                    *)
Younger(c, e) == IF e.ts > c.ts THEN e ELSE c
Youngest(p, x) == FoldLeft(Younger, x, p)
TsOf(c, ts) == IF c = NoEntry THEN ts ELSE c.ts
SecondOf(p, c3, c, ts) ==
  FoldLeft(LAMBDA b, e : IF e # c3 /\ e.ts > TsOf(b, ts) THEN e ELSE b, c, p)
(* p = the links of the loop, y = the youngest of them. *)
Weakest(s, sp, x, host, ts, p, y) ==
  LET c3 == IF ts > y.ts THEN NoEntry ELSE y
      d == SecondOf(p, c3, IF ts > y.ts THEN x ELSE NoEntry, ts)
      c2 == IF c3 # NoEntry /\ ts > TsOf(d, ts) THEN NoEntry ELSE d
      \* of two links of one time, the one whose lesser end is greater goes
      Lesser(c) == IF c = NoEntry THEN Min({host, IF sp = NoEntry THEN s ELSE sp.name}) ELSE Min({c.name, c.up})
  IN  IF TsOf(c2, ts) = TsOf(c3, ts) /\ Lesser(c3) > Lesser(c2) THEN c3 ELSE c2
LoopOf(T, s, sp, x) == Path(T, s, x) \o (IF sp = NoEntry THEN <<>> ELSE Path(T, s, sp))
Choose2(s, T, sp, x, host, ts) ==
  LET Of(p) == Weakest(s, sp, x, host, ts, p, Youngest(p, x)) IN Of(LoopOf(T, s, sp, x))

(* One round of the loop of check_loop_and_lh for the entry x of the name. *)
CutLink(w, s, k, sp, x, host, ts, c2, me) ==
  LET v == IF me # NoEntry /\ me.ghost THEN x ELSE c2
  IN  IF c2 = NoEntry THEN exit_new_server(w, s, k, sp, host, ts)
      ELSE IF c2.k = k \/ sp # NoEntry
      THEN [exit_client(w, s, v, s, 0) EXCEPT !.ret = IF v.k = k THEN "stop" ELSE "loop"]
      ELSE [exit_client(w, s, x, s, 0) EXCEPT !.ret = "ok", !.ghost = TRUE]
CheckEntry(w, s, k, sp, x, host, ts) ==
  IF x.st = "connecting" THEN [exit_client(w, s, x, s, 0) EXCEPT !.ret = "ok"]
  ELSE IF x.st = "handshake" /\ x.k = k THEN [w EXCEPT !.ret = "ok"]
  ELSE CutLink(w, s, k, sp, x, host, ts, Choose2(s, w.tab, sp, x, host, ts), LocalOf(w.tab, s, k))

(* Of several clients of one name the one most recently found or added     *)
(* comes first: any.                                                       *)
Orders(s, host) == IF Cardinality(Named(tab[s], host)) > 1 THEN BOOLEAN ELSE {TRUE}
check_loop_and_lh(s, k, sp, host, ts, newest) ==
  LET Found(N) == CHOOSE e \in N : \A f \in N : IF newest THEN e.k >= f.k ELSE e.k <= f.k
      Round(w, i) ==
        IF w.ret # "loop" THEN w
        ELSE IF host = s THEN exit_conn(w, s, k)
        ELSE IF Named(w.tab, host) = {} THEN [w EXCEPT !.ret = "ok"]
        ELSE CheckEntry(w, s, k, sp, Found(Named(w.tab, host)), host, ts)
      Ended(w) == IF w.ret = "loop" THEN [w EXCEPT !.ret = "ok"] ELSE w
  IN  Ended(FoldLeft(Round, Start(s), [i \in 1..3 |-> i]))
-----------------------------------------------------------------------------
(* s has handled the first message of connection k, or acted by itself     *)
(* (k = 0): what is sent goes to ends that are open; an end that is closed *)
(* reads nothing more and the other reads to the end.                      *)
Commit(s, k, w) ==
  /\ tab' = [tab EXCEPT ![s] = w.tab]
  /\ conns' = [i \in DOMAIN conns |-> IF i \in w.close THEN [conns[i] EXCEPT !.open = @ \ {s}] ELSE conns[i]]
  /\ pipe' = [i \in DOMAIN conns |-> [e \in Servers |->
       IF e = s THEN IF i \in w.close THEN <<>> ELSE IF i = k THEN Tail(pipe[i][e]) ELSE pipe[i][e]
       ELSE IF e = Other(i, s) /\ s \in conns[i].open /\ e \in conns[i].open
            THEN pipe[i][e] \o w.out[i] \o (IF i \in w.close THEN <<Eof>> ELSE <<>>)
            ELSE pipe[i][e]]]

(* server_estab: the new server is told to the others, and they to it, in  *)
(* the order of the client list: a server after the one it is linked to.   *)
server_estab(w, s, k, e) ==
  LET T == w.tab \cup {e}
      w1 == FoldLeft(LAMBDA x, d : Send(x, d.k, Server(s, e.name, e.ts)), [w EXCEPT !.tab = T],
                     SetToSeq({d \in Down(T, s) : d.k # k}))
      known == SetToSortSeq({d \in T : d.k # k /\ d.st = "server"}, LAMBDA a, b : Len(Path(T, s, a)) < Len(Path(T, s, b)))
  IN  FoldLeft(LAMBDA x, d : Send(x, k, Server(d.up, d.name, d.ts)), w1, known)

(* The time of a link that came in: with the older network decides its own *)
(* time, otherwise ours counts.                                            *)
check_start_timestamp(s, m) == IF ~ReliableClock /\ m.start < since[s] THEN m.ts ELSE now
Earliest(s, m) == Min({since[s], m.start})

(* mr_server, of the connection we opened or of one that came in.          *)
Accepted(s, k, m, w, e) ==
  LET New(ts) == [Entry(m.name, k, s, ts, "server") EXCEPT !.ghost = w.ghost]
      ts == check_start_timestamp(s, m)
  IN  /\ since' = IF w.ret = "ok" THEN [since EXCEPT ![s] = Earliest(s, m)] ELSE since
      /\ IF w.ret # "ok" THEN Commit(s, k, w)
         ELSE IF e # NoEntry THEN Commit(s, k, server_estab([w EXCEPT !.tab = @ \ {e}], s, k, New(m.ts)))
         ELSE Commit(s, k, server_estab(Send(w, k, Hello(s, Earliest(s, m), ts)), s, k, New(ts)))
mr_server(s, k, m, order) ==
  LET Checked(w) == Accepted(s, k, m, w, LocalOf(w.tab, s, k))
  IN  Checked(check_loop_and_lh(s, k, NoEntry, m.name, m.ts, order))

(* ms_server, and the check of the prefix by parse_server. *)
Introduced(s, k, m, w) ==
  LET e == Entry(m.name, k, m.pfx, m.ts, "server")
      others == SetToSeq({d \in Down(w.tab, s) : d.k # k})
  IN  IF w.ret # "ok" THEN Commit(s, k, w)
      ELSE Commit(s, k, FoldLeft(LAMBDA x, d : Send(x, d.k, Server(m.pfx, m.name, m.ts)), [w EXCEPT !.tab = @ \cup {e}], others))
ms_server(s, k, m, order) ==
  LET sp == FindServer(tab[s], m.pfx)
  IN  IF sp = NoEntry \/ sp.k # k THEN Commit(s, k, Start(s))
      ELSE Introduced(s, k, m, check_loop_and_lh(s, k, sp, m.name, m.ts, order))

(* ms_squit: a server of another time than the one given is left alone; a  *)
(* prefix that is not known stands for the sender.                         *)
ms_squit(s, k, m) ==
  LET pfx == FindServer(tab[s], m.pfx)
      me == LocalOf(tab[s], s, k)
      v == IF m.name = s THEN me ELSE FindServer(tab[s], m.name)
  IN  IF (pfx # NoEntry /\ pfx.k # k) \/ m.pfx = s \/ v = NoEntry \/ me = NoEntry THEN Commit(s, k, Start(s))
      ELSE IF m.ts # 0 /\ m.ts # v.ts THEN Commit(s, k, Start(s))
      ELSE Commit(s, k, exit_client(Start(s), s, v, IF pfx = NoEntry THEN me.name ELSE m.pfx, k))

Receive(s, k) ==
  /\ pipe[k][s] # <<>>
  /\ LET m == Head(pipe[k][s])
     IN  \/ m.t = "HELLO" /\ \E order \in Orders(s, m.name) : mr_server(s, k, m, order)
         \/ m.t = "SERVER" /\ \E order \in Orders(s, m.name) : ms_server(s, k, m, order) /\ UNCHANGED since
         \/ m.t = "SQUIT" /\ ms_squit(s, k, m) /\ UNCHANGED since
         \/ m.t = "EOF" /\ Commit(s, k, exit_conn(Start(s), s, k)) /\ UNCHANGED since
  /\ now' = IF Head(pipe[k][s]).t = "HELLO" THEN now + 1 ELSE now
  /\ UNCHANGED <<squits, breaks>>
-----------------------------------------------------------------------------
connect_server(a, b) ==
  /\ <<a, b>> \in MayConnect /\ More
  /\ Named(tab[a], b) = {}
  /\ conns' = Append(conns, [a |-> a, b |-> b, open |-> {a, b}])
  /\ pipe' = Append(pipe, [e \in Servers |-> <<>>])
  /\ tab' = [tab EXCEPT ![a] = @ \cup {Entry(b, Len(conns) + 1, a, 0, "connecting")}]
  /\ UNCHANGED <<since, now, squits, breaks>>

(* The time of the link is later than that of any we have. *)
completed_connection(s, e) ==
  /\ e \in tab[s] /\ e.st = "connecting"
  /\ LET ts == Max({now} \cup {d.ts + 1 : d \in {f \in tab[s] : f.up = s /\ f.st # "connecting"}})
     IN  Commit(s, 0, Send([Start(s) EXCEPT !.tab = (@ \ {e}) \cup {[e EXCEPT !.st = "handshake", !.ts = ts]}], e.k, Hello(s, since[s], ts)))
  /\ now' = now + 1
  /\ UNCHANGED <<since, squits, breaks>>

mo_squit(s, v) ==
  /\ More /\ squits' = squits + 1
  /\ v \in tab[s] /\ v.st = "server"
  /\ Commit(s, 0, exit_client(Start(s), s, v, s, 0))
  /\ UNCHANGED <<since, now, breaks>>

(* A connection breaks: what is on its way is lost in part. *)
Break(k) ==
  /\ More /\ breaks' = breaks + 1
  /\ conns[k].open = {conns[k].a, conns[k].b}
  /\ \E na \in 0..Len(pipe[k][conns[k].a]), nb \in 0..Len(pipe[k][conns[k].b]) :
       pipe' = [pipe EXCEPT ![k][conns[k].a] = Append(SubSeq(@, 1, na), Eof),
                            ![k][conns[k].b] = Append(SubSeq(@, 1, nb), Eof)]
  /\ UNCHANGED <<tab, conns, since, now, squits>>
-----------------------------------------------------------------------------
LkInit ==
  /\ tab = [s \in Servers |-> {}] /\ conns = <<>> /\ pipe = <<>>
  /\ since = Started /\ now = 1 /\ squits = 0 /\ breaks = 0

LkNext ==
  \/ \E a, b \in Servers : connect_server(a, b)
  \/ \E s \in Servers :
       \/ \E e \in tab[s] : completed_connection(s, e) \/ mo_squit(s, e)
       \/ \E k \in DOMAIN conns : Receive(s, k)
  \/ \E k \in DOMAIN conns : Break(k)
-----------------------------------------------------------------------------
(* Each server sees a tree: a name once among the servers, and each linked *)
(* to a server that is known behind the same connection (ms_server,        *)
(* exit_downlinks).                                                        *)
ViewIsTree ==
  \A s \in Servers :
    \A e \in tab[s] : e.st = "server" =>
      /\ e.name # s /\ \A f \in tab[s] : f.st = "server" /\ f.name = e.name => f = e
      /\ e.up = s \/ UpOf(tab[s], e) # NoEntry

Quiet ==
  /\ \A k \in DOMAIN conns : \A s \in Servers : pipe[k][s] = <<>>
  /\ \A s \in Servers : \A e \in tab[s] : e.st = "server"
(* When every message is read, the links form a tree whatever loops there  *)
(* were: the two ends of a link agree that it is up, and a server knows    *)
(* behind it exactly what the other end knows elsewhere                    *)
(* (check_loop_and_lh, ms_squit).                                          *)
Linked == {k \in DOMAIN conns : conns[k].open = {conns[k].a, conns[k].b}}
QuietMeansTree ==
  Quiet => \A s \in Servers :
    /\ \A k \in Linked : s \in conns[k].open => LocalOf(tab[s], s, k) # NoEntry
    /\ \A e \in tab[s] :
         /\ e.k \in Linked
         /\ LET t == Other(e.k, s)
            IN  {f.name : f \in {g \in tab[s] : g.k = e.k}} = {t} \cup {f.name : f \in {g \in tab[t] : g.k # e.k}}
=============================================================================
