------------------------------ MODULE Presence ------------------------------
(***************************************************************************)
(* Who is here and who was: the MONITOR lists (monitor.c, m_monitor.c) and *)
(* the nick history (whowas.c), fed by the changes of nick of s_user.c and *)
(* by the exits of s_misc.c.  Client structures and history records are    *)
(* reused, so that a pointer left behind would point to another client.    *)
(* A nick stands for all the spellings that differ in case only.           *)
(***************************************************************************)
EXTENDS Naturals, Sequences, FiniteSets, SequencesExt

CONSTANTS
  Clients,      \* client structures
  Locals,       \* those of our own connections
  Nicks,
  MaxMonitor,   \* FEAT_MAXMONITOR
  HistLens,     \* values of FEAT_NICKNAMEHISTORYLENGTH, all positive
  MaxLives      \* bound: clients made

VARIABLES
  clients,   \* [st, nick, life]: status, name, and which client this was
  watch,     \* mo_monitor: the clients that watch a nick
  mine,      \* cli_user(c)->monitor: the nicks that c watches
  told,      \* the last numeric that c got about a nick it watches
  hist,      \* the history: hash, the records by nick, newest first (whowashash);
             \* list and tail of wwList; stray: a freed record was written to
  rec,       \* the records: [name, online, life, wnext, wprev]
  chain,     \* cli_whowas: the records that are linked from a client
  histlen,   \* FEAT_NICKNAMEHISTORYLENGTH now
  lives      \* clients made so far

pvars == <<clients, watch, mine, told, hist, rec, chain, histlen, lives>>
-----------------------------------------------------------------------------
NoNick == "none"
Free == [st |-> "free", nick |-> NoNick, life |-> 0]
IsUser(c) == clients[c].st = "user"
FindClient(n) == {c \in Clients : clients[c].nick = n}
FindUser(n) == {c \in FindClient(n) : IsUser(c)}
FindMonitor(n) == watch[n] # {}

(* The replies: every watcher of a nick is told. *)
monitor_notify(n, raw, w, t) == [c \in Clients |-> IF c \in w[n] THEN [t[c] EXCEPT ![n] = raw] ELSE t[c]]
Status(n) == IF FindUser(n) # {} THEN "ONLINE" ELSE "OFFLINE"
-----------------------------------------------------------------------------
(* The history as one value. *)
H == [hist |-> hist, rec |-> rec, chain |-> chain]
Records == 1..(CHOOSE n \in HistLens : \A m \in HistLens : m <= n)
Blank == [name |-> NoNick, online |-> 0, life |-> 0, wnext |-> 0, wprev |-> 0]
SetNext(f, r, v) == IF r = 0 THEN f ELSE [f EXCEPT ![r].wnext = v]
SetPrev(f, r, v) == IF r = 0 THEN f ELSE [f EXCEPT ![r].wprev = v]
InUse(h, r) == r = 0 \/ Contains(h.hist.hash, r)

(* A record leaves the lists by nick and by time, and its client's list if *)
(* it is linked; the head of the list by time is left as it is.            *)
whowas_clean(h, r) ==
  LET x == h.rec[r]
  IN  [hist |-> [h.hist EXCEPT !.hash = SelectSeq(@, LAMBDA q : q # r), !.tail = IF @ = r THEN x.wprev ELSE @,
                               !.stray = @ \/ ~InUse(h, x.wnext) \/ ~InUse(h, x.wprev)],
       rec |-> [SetNext(SetPrev(h.rec, x.wnext, x.wprev), x.wprev, x.wnext) EXCEPT ![r] = Blank],
       chain |-> IF x.online = 0 THEN h.chain ELSE [h.chain EXCEPT ![x.online] = SelectSeq(@, LAMBDA q : q # r)]]
(* A new record, or the one at the tail. *)
Reclaims(h) == Len(h.hist.hash) >= histlen
Reclaimed(h) == IF Reclaims(h) THEN whowas_clean(h, h.hist.tail) ELSE h
whowas_alloc(h) ==
  IF Reclaims(h) THEN h.hist.tail ELSE CHOOSE r \in Records : ~InUse(h, r)
add_history(h, c, still_on) ==
  LET r == whowas_alloc(h)
      g == Reclaimed(h)
      new == [Blank EXCEPT !.name = clients[c].nick, !.online = IF still_on THEN c ELSE 0, !.life = clients[c].life,
                           !.wnext = g.hist.list]
  IN  [hist |-> [hash |-> <<r>> \o g.hist.hash, list |-> r, tail |-> IF g.hist.tail = 0 THEN r ELSE g.hist.tail,
                 stray |-> g.hist.stray \/ ~(g.hist.list = r \/ InUse(g, g.hist.list))],
       rec |-> SetPrev([g.rec EXCEPT ![r] = new], g.hist.list, r),
       chain |-> IF still_on THEN [g.chain EXCEPT ![c] = <<r>> \o @] ELSE g.chain]
(* Mutant: the records are looked up by the nick of the client. *)
OffByNick(h, c) ==
  [h EXCEPT !.rec = [r \in Records |-> IF @[r].name = clients[c].nick THEN [@[r] EXCEPT !.online = 0] ELSE @[r]]]
(* The records of a client that leaves no longer point to it. *)
off_history(h, c) ==
  [h EXCEPT !.rec = [r \in Records |-> IF \E i \in DOMAIN h.chain[c] : h.chain[c][i] = r THEN [@[r] EXCEPT !.online = 0] ELSE @[r]]]
SetHistory(h) == hist' = h.hist /\ rec' = h.rec /\ chain' = h.chain

(* The client that used the nick last, if it is still here. *)
get_history(n) ==
  LET S == SelectSeq(hist.hash, LAMBDA r : rec[r].name = n) IN IF S = <<>> THEN 0 ELSE rec[S[1]].online
-----------------------------------------------------------------------------
(* A connection of our own, without a nick yet. *)
make_client(c) ==
  /\ c \in Locals /\ clients[c].st = "free" /\ lives < MaxLives
  /\ clients' = [clients EXCEPT ![c] = [st |-> "unknown", nick |-> NoNick, life |-> lives + 1]]
  /\ lives' = lives + 1
  /\ UNCHANGED <<watch, mine, told, hist, rec, chain, histlen>>

(* m_nick exits a connection that holds the nick and is not registered.    *)
Taken(n, c) == FindUser(n) \ {c} # {}
Overridden(n, c) ==
  [d \in Clients |-> IF d # c /\ clients[d].nick = n /\ clients[d].st = "unknown" THEN Free ELSE clients[d]]

(* set_nick_name: a server introduces a user; register_user tells of it. *)
IntroduceRemote(c, n) ==
  /\ c \in Clients \ Locals /\ clients[c].st = "free" /\ lives < MaxLives /\ ~Taken(n, c)
  /\ clients' = [Overridden(n, c) EXCEPT ![c] = [st |-> "user", nick |-> n, life |-> lives + 1]]
  /\ told' = monitor_notify(n, "ONLINE", watch, told)
  /\ lives' = lives + 1
  /\ UNCHANGED <<watch, mine, hist, rec, chain, histlen>>
(* set_nick_name: the first nick of a connection. *)
FirstNick(c, n) ==
  /\ clients[c].st = "unknown" /\ clients[c].nick = NoNick /\ ~Taken(n, c)
  /\ clients' = [Overridden(n, c) EXCEPT ![c].nick = n]
  /\ UNCHANGED <<watch, mine, told, hist, rec, chain, histlen, lives>>
register_user(c) ==
  /\ clients[c].st = "unknown" /\ clients[c].nick # NoNick
  /\ clients' = [clients EXCEPT ![c].st = "user"]
  /\ told' = monitor_notify(clients[c].nick, "ONLINE", watch, told)
  /\ UNCHANGED <<watch, mine, hist, rec, chain, histlen, lives>>

(* set_nick_name: another nick, or the same in another case; a change of a *)
(* connection that is not registered is told of as well: a RPL_MONONLINE   *)
(* like the others, written EARLY here.                                    *)
ChangeNick(c, n) ==
  /\ clients[c].st \in {"user", "unknown"} /\ clients[c].nick # NoNick /\ ~Taken(n, c)
  /\ clients' = [Overridden(n, c) EXCEPT ![c].nick = n]
  /\ LET old == clients[c].nick
         off == IF IsUser(c) /\ old # n THEN monitor_notify(old, "OFFLINE", watch, told) ELSE told
     IN  told' = monitor_notify(n, IF IsUser(c) THEN "ONLINE" ELSE "EARLY", watch, off)
  /\ IF IsUser(c) THEN SetHistory(add_history(H, c, TRUE)) ELSE UNCHANGED <<hist, rec, chain>>
  /\ UNCHANGED <<watch, mine, histlen, lives>>

(* Nothing is left of c's list. *)
monitor_list_clean(c, w) == [n \in Nicks |-> w[n] \ {c}]
NoneTold == [n \in Nicks |-> "none"]
(* exit_one_client and remove_client_from_list; the structure is free. *)
exit_one_client(c) ==
  LET w == monitor_list_clean(c, watch)
      gone == add_history(H, c, FALSE)
  IN  /\ clients[c].st # "free"
      /\ clients' = [clients EXCEPT ![c] = Free]
      /\ watch' = w /\ mine' = [mine EXCEPT ![c] = {}]
      /\ told' = [(IF IsUser(c) THEN monitor_notify(clients[c].nick, "OFFLINE", w, told) ELSE told) EXCEPT ![c] = NoneTold]
      /\ IF IsUser(c)
         THEN SetHistory([off_history(gone, c) EXCEPT !.chain[c] = <<>>])
         ELSE UNCHANGED <<hist, rec, chain>>
      /\ UNCHANGED <<histlen, lives>>
-----------------------------------------------------------------------------
(* MONITOR +: nothing is added for a user whose own nick is watched.       *)
Refused(c) == Cardinality(mine[c]) >= MaxMonitor \/ FindMonitor(clients[c].nick)
monitor_add_nick(c, n) ==
  /\ watch' = [watch EXCEPT ![n] = @ \cup {c}] /\ mine' = [mine EXCEPT ![c] = @ \cup {n}]
add_monitor(c, n) ==
  /\ c \in Locals /\ IsUser(c) /\ ~Refused(c)
  /\ monitor_add_nick(c, n)
  /\ told' = [told EXCEPT ![c][n] = Status(n)]
  /\ UNCHANGED <<clients, hist, rec, chain, histlen, lives>>
(* MONITOR -: a watched nick is no longer told of. *)
del_monitor(c, n) ==
  /\ c \in Locals /\ IsUser(c) /\ c \in watch[n]
  /\ watch' = [watch EXCEPT ![n] = @ \ {c}] /\ mine' = [mine EXCEPT ![c] = @ \ {n}]
  /\ told' = [told EXCEPT ![c][n] = "none"]
  /\ UNCHANGED <<clients, hist, rec, chain, histlen, lives>>
(* MONITOR C *)
ClearMonitor(c) ==
  /\ c \in Locals /\ IsUser(c) /\ mine[c] # {}
  /\ watch' = monitor_list_clean(c, watch) /\ mine' = [mine EXCEPT ![c] = {}]
  /\ told' = [told EXCEPT ![c] = NoneTold]
  /\ UNCHANGED <<clients, hist, rec, chain, histlen, lives>>
(* MONITOR S; MONITOR L tells of those who are here only. *)
show_monitor_status(c) ==
  /\ c \in Locals /\ IsUser(c) /\ mine[c] # {}
  /\ told' = [told EXCEPT ![c] = [n \in Nicks |-> IF n \in mine[c] THEN Status(n) ELSE @[n]]]
  /\ UNCHANGED <<clients, watch, mine, hist, rec, chain, histlen, lives>>
list_monitor(c) ==
  /\ c \in Locals /\ IsUser(c) /\ mine[c] # {}
  /\ told' = [told EXCEPT ![c] = [n \in Nicks |-> IF n \in mine[c] /\ FindUser(n) # {} THEN "ONLINE" ELSE @[n]]]
  /\ UNCHANGED <<clients, watch, mine, hist, rec, chain, histlen, lives>>

(* The length of the history changes: the oldest records are freed. *)
whowas_realloc(n) ==
  LET Free1(h, i) == whowas_clean(h, h.hist.tail)
  IN  /\ n # histlen /\ histlen' = n
      /\ SetHistory(FoldLeft(Free1, H, [i \in 1..(Len(hist.hash) - n) |-> i]))
      /\ UNCHANGED <<clients, watch, mine, told, lives>>
(* KILL of a nick that was changed: the client that used it is killed.     *)
KillChase(n) ==
  /\ FindClient(n) = {} /\ get_history(n) # 0
  /\ exit_one_client(get_history(n))
-----------------------------------------------------------------------------
PrInit ==
  /\ clients = [c \in Clients |-> Free]
  /\ watch = [n \in Nicks |-> {}] /\ mine = [c \in Clients |-> {}]
  /\ told = [c \in Clients |-> NoneTold]
  /\ hist = [hash |-> <<>>, list |-> 0, tail |-> 0, stray |-> FALSE] /\ rec = [r \in Records |-> Blank] /\ chain = [c \in Clients |-> <<>>]
  /\ histlen \in HistLens /\ lives = 0

PrNext ==
  /\ ~hist.stray
  /\ \/ \E c \in Clients : make_client(c) \/ register_user(c) \/ exit_one_client(c)
     \/ \E c \in Clients, n \in Nicks : IntroduceRemote(c, n) \/ FirstNick(c, n) \/ ChangeNick(c, n)
     \/ \E c \in Clients, n \in Nicks : add_monitor(c, n) \/ del_monitor(c, n)
     \/ \E c \in Clients : ClearMonitor(c) \/ show_monitor_status(c) \/ list_monitor(c)
     \/ \E n \in HistLens : whowas_realloc(n)
     \/ \E n \in Nicks : KillChase(n)
-----------------------------------------------------------------------------
(* Whoever watches a nick, and for however long, heard last that it is     *)
(* on-line while a user has it, and otherwise that it is not, or nothing   *)
(* else than an early announcement: through arrivals, introductions,       *)
(* changes of nick, exits and kills.                                       *)
NoChangeMissed ==
  \A c \in Clients : \A n \in mine[c] : FindUser(n) # {} <=> told[c][n] = "ONLINE"

(* Only users are announced.  Does not hold: a connection that changes its *)
(* nick before it is registered is announced (s_user.c, line 1015), and    *)
(* its end is not.                                                         *)
NoneEarly == \A c \in Clients, n \in Nicks : told[c][n] # "EARLY"

(* No pointer is left behind: those who are told of a nick are users of    *)
(* this server that asked for it, and a history record that says its user  *)
(* is on-line points to that very user, not to one that got its structure  *)
(* later (KILL follows this pointer); the record that is reclaimed next is *)
(* the oldest, through changes of the length.                              *)
NothingDangles ==
  /\ \A n \in Nicks, c \in Clients : c \in watch[n] <=> n \in mine[c]
  /\ \A n \in Nicks : \A c \in watch[n] : IsUser(c) /\ c \in Locals
  /\ ~hist.stray => hist.tail = (IF hist.hash = <<>> THEN 0 ELSE Last(hist.hash))
  /\ \A r \in Records : rec[r].online # 0 =>
       LET c == rec[r].online
       IN  IsUser(c) /\ clients[c].life = rec[r].life /\ \E i \in DOMAIN chain[c] : chain[c][i] = r

(* The list by time goes from each record to the one before it.  Does not  *)
(* hold: whowas_clean leaves wwList.ww_list at the record it cleans, so a  *)
(* history of one record is linked to itself (whowas.c, line 296), and if  *)
(* it then grows and shrinks a freed record is written to (line 173).      *)
LinksGoBack ==
  /\ ~hist.stray
  /\ \A i \in DOMAIN hist.hash :
       rec[hist.hash[i]].wnext = IF i = Len(hist.hash) THEN 0 ELSE hist.hash[i + 1]
=============================================================================
