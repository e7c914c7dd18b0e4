------------------------------- MODULE Relay -------------------------------
(***************************************************************************)
(* The relaying of messages over the tree of servers: sendcmdto_* and      *)
(* sendwallto_group_butone of send.c with their sentalong markers,         *)
(* ircd_relay.c and the handlers of PRIVMSG, NOTICE, WALLCHOPS,            *)
(* WALLVOICES, WALLOPS, WALLUSERS, DESYNCH, INVITE and TOPIC.              *)
(*                                                                         *)
(* The tree, the users and the memberships stay as they are (Links, Nick   *)
(* and Channel change them); links are past their burst and nobody is      *)
(* silenced or over a target limit (Users).  A message is its sender, its  *)
(* time, its kind and its target.                                          *)
(***************************************************************************)
EXTENDS Naturals, Sequences, FiniteSets, SequencesExt, FiniteSetsExt

CONSTANTS
  Servers, Edges,      \* the tree: its servers and the pairs that are linked
  Users, Home,         \* users, and the server each is on
  Members,             \* per channel, its members
  Ops, Voices, Zombies,  \* per channel, those of them that are so
  Deaf, Wallops, DebugUsers, Opers,  \* users with modes d, w, g and o
  MarkerMax,           \* the largest value of the sentalong marker
  Kinds,               \* the messages users send
  MaxMsgs              \* bound: messages sent

VARIABLES
  mark,     \* per server, sentalong_marker
  along,    \* per server and connection, its con_sentalong
  wire,     \* per directed link, messages on their way
  got,      \* per user, what its client was sent: [m, as]
  sent,     \* per user, what it has sent
  topic,    \* per server, the channel's topic: [by, ts]
  clock, total,
  wrapped   \* the servers whose marker has wrapped

yvars == <<mark, along, wire, got, sent, topic, clock, total, wrapped>>
-----------------------------------------------------------------------------
Channels == DOMAIN Members
Peers(s) == {t \in Servers : {s, t} \in Edges}
Here(s) == {u \in Users : Home[u] = s}
ConnsOf(s) == Peers(s) \cup Here(s)
(* The side of the tree that s reaches through its peer n. *)
Side(s, n) ==
  FoldLeft(LAMBDA S, i : S \cup {t \in Servers \ {s} : \E x \in S : {x, t} \in Edges}, {n}, [i \in 1..Cardinality(Servers) |-> i])
Hop == [s \in Servers |-> [t \in Servers \ {s} |-> CHOOSE n \in Peers(s) : t \in Side(s, n)]]
(* cli_from: the connection of s that user u is behind, itself if local. *)
Conn(s, u) == IF Home[u] = s THEN u ELSE Hop[s][Home[u]]

(* What a handler at a server has done: the marker and marks, and per      *)
(* connection what it sends there.                                         *)
Begin(s) == [s |-> s, mark |-> mark[s], along |-> along[s], topic |-> topic[s], out |-> [c \in ConnsOf(s) |-> <<>>]]
SendTo(w, C, x) == [w EXCEPT !.out = [c \in DOMAIN w.out |-> IF c \in C THEN Append(w.out[c], x) ELSE w.out[c]]]
Msg(m, as) == [m |-> m, as |-> as]
Local(w) == Here(w.s)

(* When the marker wraps the loop over the descriptors stops short of the  *)
(* highest, which is that of the greatest of the connections.              *)
Highest(s) == IF Here(s) # {} THEN Max(Here(s)) ELSE Max(Peers(s))
NextMark(w) == IF w.mark = MarkerMax THEN 1 ELSE w.mark + 1
Mark(w, one, n, old) == [w EXCEPT !.mark = n, !.along = [c \in DOMAIN old |-> IF c \in one THEN n ELSE old[c]]]
(* Mutant: marks are kept when the marker wraps. *)
BumpKeepsMarks(w, one) == Mark(w, one, NextMark(w), w.along)
bump_sentalong(w, one) ==
  LET wraps == w.mark = MarkerMax
      cleared == [c \in DOMAIN w.along |-> IF wraps /\ c # Highest(w.s) THEN 0 ELSE w.along[c]]
  IN  Mark(w, one, NextMark(w), cleared)

(* One copy to each connection that some of the users are behind. *)
SendAlong(w, to, x) ==
  LET C == {c \in {Conn(w.s, u) : u \in to} : w.along[c] # w.mark}
  IN  [SendTo(w, C, x) EXCEPT !.along = [c \in DOMAIN w.along |-> IF c \in C THEN w.mark ELSE w.along[c]]]

Hears(c, skip) ==
  {u \in Members[c] \ Zombies[c] :
     /\ "deaf" \in skip => u \notin Deaf
     /\ "nonops" \in skip => u \in Ops[c]
     /\ "nonvoices" \in skip => u \in Ops[c] \cup Voices[c]}

sendcmdto_serv_butone(w, one, x) == SendTo(w, Peers(w.s) \ {one}, x)
sendcmdto_channel_butone(w, c, one, skip, x) == SendAlong(bump_sentalong(w, {one}), Hears(c, skip), x)
sendcmdto_channel_butserv_butone(w, c, one, skip, x) == SendTo(w, (Hears(c, skip) \cap Local(w)) \ {one}, x)
sendcmdto_channel_servers_butone(w, c, from, one, skip, x) ==
  LET b == bump_sentalong(w, {one, from}) IN SendAlong(b, Hears(c, skip) \ Local(w), x)
(* A user is sent its own QUIT, NICK and the like. *)
sendcmdto_common_channels_butone(w, from, x) ==
  LET common == UNION {Members[c] : c \in {d \in Channels : from \in Members[d] \ Zombies[d]}}
      b == SendAlong(bump_sentalong(w, {Conn(w.s, from)}), common \cap Local(w), x)
  IN  SendTo(b, {from} \cap Local(w), x)
sendwallto_group_butone(w, one, who, x) == SendTo(SendTo(w, who \cap Local(w), x), Peers(w.s) \ {one}, x)
sendcmdto_match_butone(w, who, one, x) == SendAlong(bump_sentalong(w, {one} \cap Peers(w.s)), who, x)
sendcmdto_one(w, u, x) == SendTo(w, {Conn(w.s, u)}, x)
-----------------------------------------------------------------------------
(* The handlers: w is the server's work, from whom the message came, a     *)
(* user of its own or a peer.                                              *)
relay_channel(w, m, from) == sendcmdto_channel_butone(w, m.to, from, {"deaf"}, Msg(m, "said"))
(* A notice goes the way of a message. *)
relay_channel_notice(w, m, from) == relay_channel(w, m, from)
wallchops(w, m, from) == sendcmdto_channel_butone(w, m.to, from, {"deaf", "nonops"}, Msg(m, "said"))
wallvoices(w, m, from) == sendcmdto_channel_butone(w, m.to, from, {"deaf", "nonvoices"}, Msg(m, "said"))
relay_private(w, m, from) == sendcmdto_one(w, m.to, Msg(m, "said"))
relay_private_notice(w, m, from) == relay_private(w, m, from)
whisper(w, m, from) == relay_private(w, m, from)
relay_masked(w, m, from) == sendcmdto_match_butone(w, m.to, from, Msg(m, "said"))
relay_masked_notice(w, m, from) == relay_masked(w, m, from)
wallops(w, m, from) == sendwallto_group_butone(w, from, Wallops, Msg(m, "said"))
wallusers(w, m, from) == sendwallto_group_butone(w, from, Wallops, Msg(m, "said"))
desynch(w, m, from) == sendwallto_group_butone(w, from, DebugUsers, Msg(m, "said"))
(* A change of nick, told to all servers. *)
user_change(w, m, from) == sendcmdto_common_channels_butone(sendcmdto_serv_butone(w, from, Msg(m, "said")), m.from, Msg(m, "said"))

(* INVITE goes to the invited user, and every operator of the channel is   *)
(* told of it.                                                             *)
invite(w, m, from) ==
  LET a == sendcmdto_one(w, m.to, Msg(m, "said"))
      b == sendcmdto_channel_butserv_butone(a, m.chan, m.from, {"nonops"}, Msg(m, "told"))
  IN  sendcmdto_channel_servers_butone(b, m.chan, Conn(w.s, m.from), Conn(w.s, m.to), {"nonops"}, Msg(m, "said"))

(* ms_topic and do_settopic: a topic that is older than the one set is not *)
(* taken, nor told further.                                                *)
do_settopic(w, m, from) ==
  IF w.topic.ts > m.ts THEN w
  ELSE sendcmdto_channel_butserv_butone(
         sendcmdto_serv_butone([w EXCEPT !.topic = [by |-> m.from, ts |-> m.ts]], from, Msg(m, "said")), m.to, 0, {}, Msg(m, "said"))

Handle(w, m, from) ==
  CASE m.kind = "PRIVMSG #" -> relay_channel(w, m, from)
    [] m.kind = "NOTICE #" -> relay_channel_notice(w, m, from)
    [] m.kind = "WALLCHOPS" -> wallchops(w, m, from)
    [] m.kind = "WALLVOICES" -> wallvoices(w, m, from)
    [] m.kind = "PRIVMSG" -> relay_private(w, m, from)
    [] m.kind = "NOTICE" -> relay_private_notice(w, m, from)
    [] m.kind = "CPRIVMSG" -> whisper(w, m, from)
    [] m.kind = "PRIVMSG $" -> relay_masked(w, m, from)
    [] m.kind = "NOTICE $" -> relay_masked_notice(w, m, from)
    [] m.kind = "WALLOPS" -> wallops(w, m, from)
    [] m.kind = "WALLUSERS" -> wallusers(w, m, from)
    [] m.kind = "DESYNCH" -> desynch(w, m, from)
    [] m.kind = "NICK" -> user_change(w, m, from)
    [] m.kind = "INVITE" -> invite(w, m, from)
    [] m.kind = "TOPIC" -> do_settopic(w, m, from)

Commit(s, from, w) ==
  /\ mark' = [mark EXCEPT ![s] = w.mark] /\ along' = [along EXCEPT ![s] = w.along]
  /\ wire' = [e \in DOMAIN wire |->
       IF e[1] = s THEN wire[e] \o [i \in DOMAIN w.out[e[2]] |-> w.out[e[2]][i].m]
       ELSE IF e = <<from, s>> THEN Tail(wire[e]) ELSE wire[e]]
  /\ got' = [u \in Users |-> IF Home[u] = s THEN got[u] \o w.out[u] ELSE got[u]]
  /\ topic' = [topic EXCEPT ![s] = w.topic]
  /\ wrapped' = IF w.mark < mark[s] THEN wrapped \cup {s} ELSE wrapped
-----------------------------------------------------------------------------
(* m_privmsg, mo_privmsg, m_notice, m_wallchops, ...: the targets, and who *)
(* may send to them.                                                       *)
Targets(u, kind) ==
  CASE kind \in {"PRIVMSG #", "NOTICE #", "WALLCHOPS", "WALLVOICES"} -> {c \in Channels : u \in Members[c] \ Zombies[c]}
    [] kind = "TOPIC" -> {c \in Channels : u \in Ops[c]}
    [] kind \in {"PRIVMSG", "NOTICE"} -> Users \ {u}
    [] kind = "CPRIVMSG" -> {v \in Users \ {u} : \E c \in Channels : u \in Ops[c] \cup Voices[c] /\ v \in Members[c] \ Zombies[c]}
    [] kind = "INVITE" -> {v \in Users : \E c \in Channels : u \in Ops[c] /\ v \notin Members[c]}
    [] kind \in {"PRIVMSG $", "NOTICE $"} -> IF u \in Opers THEN {Here(s) : s \in Servers} \ {{}} ELSE {}
    [] kind \in {"WALLOPS", "WALLUSERS", "DESYNCH"} -> IF u \in Opers THEN {0} ELSE {}
    [] kind = "NICK" -> {0}

(* The user's server handles what its client sent; each message is sent    *)
(* in a second of its own.                                                 *)
Say(u, kind, to) ==
  /\ total < MaxMsgs /\ to \in Targets(u, kind)
  /\ LET m == [from |-> u, kind |-> kind, to |-> to, ts |-> clock,
               chan |-> IF kind = "INVITE" THEN CHOOSE c \in Channels : u \in Ops[c] /\ to \notin Members[c] ELSE 0]
     IN  sent' = [sent EXCEPT ![u] = Append(@, m)] /\ Commit(Home[u], u, Handle(Begin(Home[u]), m, u))
  /\ total' = total + 1 /\ clock' = clock + 1

SayAny(u, kinds) == \E kind \in kinds \cap Kinds : \E to \in Targets(u, kind) : Say(u, kind, to)
m_privmsg(u) == SayAny(u, {"PRIVMSG #", "PRIVMSG", "PRIVMSG $"})
m_notice(u) == SayAny(u, {"NOTICE #", "NOTICE", "NOTICE $"})
m_cprivmsg(u) == SayAny(u, {"CPRIVMSG"})
m_wall(u) == SayAny(u, {"WALLCHOPS", "WALLVOICES", "WALLOPS", "WALLUSERS", "DESYNCH"})
m_nick(u) == SayAny(u, {"NICK"})
m_invite(u) == SayAny(u, {"INVITE"})
m_topic(u) == SayAny(u, {"TOPIC"})

(* ms_privmsg, ms_notice, ...: a server takes the next message of a link;  *)
(* one whose sender is not behind that link is dropped (parse_server).     *)
Take(s, t) ==
  /\ wire[<<t, s>>] # <<>>
  /\ LET m == Head(wire[<<t, s>>])
     IN  Commit(s, t, IF Conn(s, m.from) # t THEN Begin(s) ELSE Handle(Begin(s), m, t))
  /\ UNCHANGED <<sent, clock, total>>
-----------------------------------------------------------------------------
(* A server has sent m such messages; the first of them went to all of its *)
(* connections, the others to none.                                        *)
ReInit ==
  /\ \E m \in {0, MarkerMax} :
       /\ mark = [s \in Servers |-> m]
       /\ along = [s \in Servers |-> [c \in ConnsOf(s) |-> Min({m, 1})]]
  /\ wire = [e \in {<<s, t>> \in Servers \X Servers : {s, t} \in Edges} |-> <<>>]
  /\ got = [u \in Users |-> <<>>] /\ sent = [u \in Users |-> <<>>]
  /\ topic = [s \in Servers |-> [by |-> 0, ts |-> 0]]
  /\ clock = 1 /\ total = 0 /\ wrapped = {}

ReNext ==
  \/ \E u \in Users :
       \/ m_privmsg(u)
       \/ m_notice(u)
       \/ m_cprivmsg(u)
       \/ m_wall(u)
       \/ m_nick(u)
       \/ m_invite(u)
       \/ m_topic(u)
  \/ \E s \in Servers : \E t \in Peers(s) : Take(s, t)
-----------------------------------------------------------------------------
(* Who is to get a message. *)
Wanted(m) ==
  CASE m.kind \in {"PRIVMSG #", "NOTICE #"} -> Hears(m.to, {"deaf"}) \ {m.from}
    [] m.kind = "WALLCHOPS" -> Hears(m.to, {"deaf", "nonops"}) \ {m.from}
    [] m.kind = "WALLVOICES" -> Hears(m.to, {"deaf", "nonvoices"}) \ {m.from}
    [] m.kind \in {"PRIVMSG", "NOTICE", "CPRIVMSG"} -> {m.to}
    [] m.kind \in {"PRIVMSG $", "NOTICE $"} -> m.to
    [] m.kind \in {"WALLOPS", "WALLUSERS"} -> Wallops
    [] m.kind = "DESYNCH" -> DebugUsers
    [] m.kind = "NICK" -> {m.from} \cup UNION {Members[c] : c \in {d \in Channels : m.from \in Members[d] \ Zombies[d]}}
    [] m.kind = "INVITE" -> {m.to} \cup (Hears(m.chan, {"nonops"}) \ {m.from})
    [] m.kind = "TOPIC" -> {}
Quiet == \A e \in DOMAIN wire : wire[e] = <<>>

Has(u, f) == SelectSeq([i \in DOMAIN got[u] |-> got[u][i].m], LAMBDA m : m.from = f /\ m.kind # "TOPIC")
Due(u, f) == SelectSeq(sent[f], LAMBDA m : u \in Wanted(m))
KeptMark(u) == Home[u] \in wrapped /\ u = Highest(Home[u])

(* Every user is sent the messages of each other in the order they were    *)
(* sent, each once, and no others, however they are spread over the tree   *)
(* and cross (the sentalong markers of send.c, which start anew when the   *)
(* counter wraps, and the direction check of parse_server).  Only the one  *)
(* whose mark is kept then may miss some: he gets a part of them.          *)
OnceInOrder ==
  \A u, f \in Users :
    LET has == Has(u, f)
        due == Due(u, f)
    IN  /\ \A i, j \in DOMAIN has : i < j => has[i].ts < has[j].ts
        /\ \A i \in DOMAIN has : \E k \in DOMAIN due : due[k].ts = has[i].ts
        /\ KeptMark(u) \/ (IsPrefix(has, due) /\ (Quiet => has = due))

(* "to avoid confusion when the counter wraps, we reset all sentalong      *)
(* markers": nobody misses a message.  Does not hold: the loop stops short *)
(* of the highest descriptor, whose connection is passed over when the     *)
(* marker comes to its old mark again (bump_sentalong, send.c, line 488).  *)
NoneMissed == \A u, f \in Users : Quiet => Has(u, f) = Due(u, f)

(* When every message is read all servers have the same topic, though      *)
(* topics crossed (ms_topic).                                              *)
TopicsAgree == Quiet => \A s, t \in Servers : topic[s] = topic[t]
=============================================================================
