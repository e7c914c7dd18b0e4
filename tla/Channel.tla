------------------------------ MODULE Channel ------------------------------
(***************************************************************************)
(* One channel as every server of the network sees it: creation time,      *)
(* modes, key, members with their status, zombies, invitations and the     *)
(* timer of an empty channel (channel.c, m_join.c, m_create.c, m_part.c,   *)
(* m_kick.c, m_mode.c, m_opmode.c, m_clearmode.c, m_invite.c, m_burst.c,   *)
(* m_destruct.c, destruct_event.c, m_endburst.c, m_svsjoin.c and           *)
(* m_svspart.c).                                                           *)
(*                                                                         *)
(* Every server applies its own users' commands at once and tells its      *)
(* links, so commands cross; the creation time decides who is right.       *)
(* Links break, and when they come back both sides send their channel in   *)
(* a BURST.  The links form a tree.  Users stay on their servers.  No      *)
(* channel here has an Apass or Upass, so every op level is MAXOPLEVEL;    *)
(* bans, limit and op levels are in module ChanModes.                      *)
(***************************************************************************)
EXTENDS Naturals, Sequences, FiniteSets

CONSTANTS
  Servers,
  Via,        \* Via[s][x]: the neighbour of s on the path to x; Via[s][s] = s
  Users,
  Home,       \* the server of a user
  OpLevels,   \* FEAT_OPLEVELS: an empty channel is kept for a while
  Keys,       \* keys 1..Keys, in alphabetical order; 0 is no key
  Commands,   \* which commands the users of this instance give
  StartMembers, \* users that are on the channel at the start, the first as op
  MaxTs,      \* bound: creation times
  MaxOps,     \* bound: commands of users
  MaxBreaks,  \* bound: links that break
  MaxExpiry   \* bound: empty channels that expire

VARIABLES
  ch,      \* per server, the channel
  burst,   \* per server, what it knows of each server: unknown, burst, ack or ok
  up,      \* per server, the neighbours it has a link with
  wire,    \* per sender and receiver, the messages in flight
  ops, breaks, expired

bounds == <<ops, breaks, expired>>
vars == <<ch, burst, up, wire, bounds>>
-----------------------------------------------------------------------------
(* The modes without a parameter, of which +i is the one that other code   *)
(* looks at; BURSTADDED marks a channel that a BURST made.                 *)
Flags == {"i", "BURSTADDED"}
Status == [op : BOOLEAN, voice : BOOLEAN, zombie : BOOLEAN]
Plain == [op |-> FALSE, voice |-> FALSE, zombie |-> FALSE]
Opped == [Plain EXCEPT !.op = TRUE]

Partial(D, R) == UNION {[A -> R] : A \in SUBSET D}
Channels == [there : BOOLEAN, ts : 0..MaxTs, modes : SUBSET Flags, key : 0..Keys,
             mem : Partial(Users, Status), inv : SUBSET Users, timer : BOOLEAN]
NoChannel == [there |-> FALSE, ts |-> 0, modes |-> {}, key |-> 0, mem |-> <<>>,
              inv |-> {}, timer |-> FALSE]
(* get_channel of a channel that does not exist, for a server. *)
NewChannel == [NoChannel EXCEPT !.there = TRUE]

Change == [dir : {"+", "-"}, mode : {"o", "v"}, arg : Users]
            \cup [dir : {"+", "-"}, mode : {"i"}, arg : {"none"}]
            \cup [dir : {"+", "-"}, mode : {"k"}, arg : 1..Keys]
Ch(d, m, a) == [dir |-> d, mode |-> m, arg |-> a]

With(f, x, v) == [y \in DOMAIN f \cup {x} |-> IF y = x THEN v ELSE f[y]]
Without(f, S) == [x \in DOMAIN f \ S |-> f[x]]

ServerOf(x) == IF x \in Servers THEN x ELSE Home[x]
Links(s) == up[s]
Known(s) == {x \in Servers : burst[s][x] # "unknown"}
InBurst(s, x) == burst[s][x] \in {"burst", "ack"}
(* The servers that s reaches through x, x included. *)
Beyond(s, x) == {y \in Servers \ {s} : y = x \/ Via[x][y] # Via[x][s]}
Empty(c) == DOMAIN c.mem = {}
Living(c) == {u \in DOMAIN c.mem : ~c.mem[u].zombie}
IsChanOp(c, u) == u \in DOMAIN c.mem /\ c.mem[u].op

Silent == [p \in Servers |-> <<>>]
To(n, q) == [Silent EXCEPT ![n] = q]
(* sendcmdto_serv_butone *)
ToAllBut(s, S, q) == [p \in Servers |-> IF p \in Links(s) \ S THEN q ELSE <<>>]
Then(o1, o2) == [p \in Servers |-> o1[p] \o o2[p]]

Create(u, ts) == [t |-> "CREATE", from |-> u, ts |-> ts]
Join(u, ts) == [t |-> "JOIN", from |-> u, ts |-> ts]
Part(u) == [t |-> "PART", from |-> u]
Kick(x, u) == [t |-> "KICK", from |-> x, who |-> u]
Mode(x, q, ts) == [t |-> "MODE", from |-> x, chg |-> q, ts |-> ts]
Opmode(u, q) == [t |-> "OPMODE", from |-> u, chg |-> q]
Clearmode(u) == [t |-> "CLEARMODE", from |-> u]
Invite(u, w, ts) == [t |-> "INVITE", from |-> u, who |-> w, ts |-> ts]
Destruct(s, ts) == [t |-> "DESTRUCT", from |-> s, ts |-> ts]
Burst(s, c) == [t |-> "BURST", from |-> s, ts |-> c.ts, modes |-> c.modes \ {"BURSTADDED"},
                key |-> c.key, mem |-> [u \in DOMAIN c.mem |-> [op |-> c.mem[u].op, voice |-> c.mem[u].voice]]]
Intro(s, f) == [t |-> "SERVER", from |-> s, known |-> f]
Squit(s, x) == [t |-> "SQUIT", from |-> s, server |-> x]
EndOfBurst(x) == [t |-> "EB", from |-> x]
EndOfBurstAck(x) == [t |-> "EA", from |-> x]
Close(s) == [t |-> "CLOSE", from |-> s]
-----------------------------------------------------------------------------
(* s reads the first message of n, its channel becomes c and it writes o.  *)
(* What it writes to a neighbour that has closed the link is lost.         *)
Handle(s, n, c, o) ==
  /\ ch' = [ch EXCEPT ![s] = c]
  /\ wire' = [a \in Servers |-> [b \in Servers |->
       IF a = n /\ b = s THEN Tail(wire[n][s])
       ELSE IF a = s /\ s \in up[b] THEN wire[s][b] \o o[b]
       ELSE wire[a][b]]]

(* A command of a local user of s. *)
Act(s, c, o) ==
  /\ ops < MaxOps /\ ops' = ops + 1
  /\ ch' = [ch EXCEPT ![s] = c]
  /\ wire' = [wire EXCEPT ![s] = [b \in Servers |-> IF s \in up[b] THEN @[b] \o o[b] ELSE @[b]]]
  /\ UNCHANGED <<burst, up, breaks, expired>>
-----------------------------------------------------------------------------
(* The life of a channel.                                                  *)

(* sub1_from_channel when the last member is gone: without an Apass all    *)
(* modes are reset and, unless op levels are on, the channel goes away.    *)
Emptied(c) ==
  IF OpLevels
  THEN [c EXCEPT !.mem = <<>>, !.modes = {}, !.key = 0, !.inv = {}, !.timer = TRUE]
  ELSE NoChannel

(* remove_user_from_channel for each of U: when only zombies are left,     *)
(* they go too.                                                            *)
remove_user_from_channel(c, U) ==
  LET rest == Without(c.mem, U)
  IN  IF DOMAIN c.mem \cap U = {} THEN c
      ELSE IF \A u \in DOMAIN rest : rest[u].zombie THEN Emptied(c)
      ELSE [c EXCEPT !.mem = rest]

(* add_user_to_channel *)
add_user_to_channel(c, u, st) == [c EXCEPT !.mem = With(c.mem, u, st), !.timer = FALSE]

(* mode_invite_clear *)
mode_invite_clear(c) == [c EXCEPT !.inv = {}]

(* make_zombie: the channel of s after the kick of who, which came from n  *)
(* (n = s for a local kicker).  A remote user stays as a zombie until its  *)
(* server answers, unless the kick has already passed its server.          *)
make_zombie(s, c, who, n, kicker) ==
  LET z == [c EXCEPT !.mem[who].zombie = TRUE]
  IN  IF Home[who] = s THEN remove_user_from_channel(c, {who})
      ELSE IF /\ Via[s][Home[who]] = n
              /\ ServerOf(kicker) # s /\ ServerOf(kicker) \in Beyond(s, Home[who])
      THEN remove_user_from_channel(c, {who})
      ELSE IF Living(z) = {} THEN remove_user_from_channel(z, {who}) ELSE z
(* ... and the PART that tells the server of the kick that a local user is *)
(* gone.                                                                   *)
ZombiePart(s, who, n) == IF Home[who] = s /\ n # s THEN To(n, <<Part(who)>>) ELSE Silent
-----------------------------------------------------------------------------
(* Mode changes.                                                           *)

(* mode_parse_*, mode_process_clients: whether a change changes anything.  *)
(* A removed key is reported whether there is one or not.                  *)
Effective(c, x) ==
  CASE x.mode = "o" -> x.arg \in DOMAIN c.mem /\ c.mem[x.arg].op # (x.dir = "+")
    [] x.mode = "v" -> x.arg \in DOMAIN c.mem /\ c.mem[x.arg].voice # (x.dir = "+")
    [] x.mode = "i" -> ("i" \in c.modes) # (x.dir = "+")
    [] x.mode = "k" -> x.dir = "-" \/ c.key # x.arg

(* The arguments of the changes of one kind in a message. *)
Args(Q, d, m) == {x.arg : x \in {y \in Q : y.dir = d /\ y.mode = m}}
(* mode_parse with SET: the changes of one message, which concern          *)
(* different modes or members.                                             *)
SetModes(c, Q) ==
  [c EXCEPT
    !.modes = (@ \cup IF Args(Q, "+", "i") = {} THEN {} ELSE {"i"}) \ (IF Args(Q, "-", "i") = {} THEN {} ELSE {"i"}),
    !.inv = IF "i" \in c.modes /\ Args(Q, "-", "i") # {} THEN {} ELSE @,
    !.key = IF Args(Q, "+", "k") # {} THEN CHOOSE k \in Args(Q, "+", "k") : TRUE
            ELSE IF Args(Q, "-", "k") # {} THEN 0 ELSE @,
    !.mem = [u \in DOMAIN @ |-> [@[u] EXCEPT
      !.op = (@ \/ u \in Args(Q, "+", "o")) /\ u \notin Args(Q, "-", "o"),
      !.voice = (@ \/ u \in Args(Q, "+", "v")) /\ u \notin Args(Q, "-", "v")]]]
(* The modebuf: the changes that have an effect. *)
Changes(c, Q) == {x \in Q : Effective(c, x)}
(* modebuf_flush_int with BOUNCE: the opposite of each change.             *)
Opposite(Q) == {[x EXCEPT !.dir = IF @ = "+" THEN "-" ELSE "+"] : x \in Q}
(* What a user that is no op wanted to change; a key cannot be added to a  *)
(* channel that has one, nor a wrong one be removed.                       *)
Bounceable(c, Q) ==
  {x \in Changes(c, Q) : x.mode = "k" => c.key = IF x.dir = "+" THEN 0 ELSE x.arg}
(* The key is stored as soon as it is read, before the timestamp at the    *)
(* end of the message.                                                     *)
KeyOnly(c, Q) == SetModes(c, {x \in Q : x.mode = "k"})
-----------------------------------------------------------------------------
(* Local users.                                                            *)

Doing(cmd) == cmd \in Commands

(* m_join of a channel that does not exist: the user makes it. *)
m_join_create(u, ts) ==
  LET s == Home[u] IN
  /\ Doing("JOIN") /\ ~ch[s].there
  /\ Act(s, [add_user_to_channel(NewChannel, u, Opped) EXCEPT !.ts = ts],
         ToAllBut(s, {}, <<Create(u, ts)>>))

(* m_join of an empty channel: the user becomes op, by the server, and the *)
(* creation time goes one up.                                              *)
m_join_zannel(u) ==
  LET s == Home[u] c == ch[s] IN
  /\ Doing("JOIN") /\ c.there /\ Empty(c) /\ c.ts < MaxTs
  /\ Act(s, [add_user_to_channel(c, u, Opped) EXCEPT !.ts = c.ts + 1, !.inv = @ \ {u}],
         ToAllBut(s, {}, <<Join(u, c.ts + 1), Mode(s, {Ch("+", "o", u)}, c.ts + 1)>>))

(* m_join of a channel with members, by a user that knows the key. *)
m_join(u) ==
  LET s == Home[u] c == ch[s] IN
  /\ Doing("JOIN") /\ c.there /\ ~Empty(c) /\ u \notin DOMAIN c.mem
  /\ "i" \in c.modes => u \in c.inv
  /\ Act(s, [add_user_to_channel(c, u, Plain) EXCEPT !.inv = @ \ {u}],
         ToAllBut(s, {}, <<Join(u, c.ts)>>))

(* ms_svsjoin at the server of the user: he makes a channel that does not  *)
(* exist; he gets no op on one that does, and an empty one keeps its       *)
(* creation time.  Its modes count only when the services ask (checked).   *)
ms_svsjoin_create(u, ts) ==
  LET s == Home[u] IN
  /\ Doing("SVSJOIN") /\ ~ch[s].there
  /\ Act(s, [add_user_to_channel(NewChannel, u, Opped) EXCEPT !.ts = ts],
         ToAllBut(s, {}, <<Create(u, ts)>>))
ms_svsjoin(u, checked) ==
  LET s == Home[u] c == ch[s] IN
  /\ Doing("SVSJOIN") /\ c.there /\ u \notin DOMAIN c.mem
  /\ checked => u \in c.inv \/ ("i" \notin c.modes /\ c.key = 0)
  /\ Act(s, [add_user_to_channel(c, u, Plain) EXCEPT !.inv = @ \ {u}],
         ToAllBut(s, {}, <<Join(u, c.ts)>>))

(* m_part and ms_svspart *)
m_part(u) ==
  LET s == Home[u] c == ch[s] IN
  /\ Doing("PART") /\ u \in DOMAIN c.mem
  /\ Act(s, remove_user_from_channel(c, {u}), ToAllBut(s, {}, <<Part(u)>>))

(* m_kick *)
m_kick(u, who) ==
  LET s == Home[u] c == ch[s] IN
  /\ Doing("KICK") /\ IsChanOp(c, u) /\ u \in Living(c) /\ who \in Living(c)
  /\ Act(s, make_zombie(s, c, who, s, u), ToAllBut(s, {}, <<Kick(u, who)>>))

(* mode_parse of a local user: the victim is no zombie, a key is added     *)
(* only when there is none, and the right one is removed.                  *)
Allowed(c, x) ==
  /\ Effective(c, x)
  /\ x.mode \in {"o", "v"} => x.arg \in Living(c)
  /\ x.mode = "k" => c.key = IF x.dir = "+" THEN 0 ELSE x.arg
m_mode(u, x) ==
  LET s == Home[u] c == ch[s] IN
  /\ Doing("MODE") /\ IsChanOp(c, u) /\ Allowed(c, x)
  /\ Act(s, SetModes(c, {x}), ToAllBut(s, {}, <<Mode(u, {x}, c.ts)>>))

(* mo_opmode: an oper's change is forced. *)
mo_opmode(u, x) ==
  LET s == Home[u] c == ch[s] IN
  /\ Doing("OPMODE") /\ c.there /\ Effective(c, x)
  /\ x.mode \in {"o", "v"} => x.arg \in Living(c)
  /\ Act(s, SetModes(c, {x}), ToAllBut(s, {}, <<Opmode(u, {x})>>))

(* do_clearmode with the default letters. *)
do_clearmode(c) ==
  [mode_invite_clear(c) EXCEPT !.modes = @ \ {"i"}, !.key = 0,
     !.mem = [u \in DOMAIN c.mem |-> IF c.mem[u].zombie THEN c.mem[u] ELSE Plain]]
mo_clearmode(u) ==
  LET s == Home[u] c == ch[s] IN
  /\ Doing("CLEARMODE") /\ c.there
  /\ Act(s, do_clearmode(c), ToAllBut(s, {}, <<Clearmode(u)>>))

(* m_invite *)
m_invite(u, who) ==
  LET s == Home[u] c == ch[s] IN
  /\ Doing("INVITE") /\ IsChanOp(c, u) /\ u \in Living(c) /\ who \notin Living(c)
  /\ IF Home[who] = s THEN Act(s, [c EXCEPT !.inv = @ \cup {who}], Silent)
     ELSE Act(s, c, To(Via[s][Home[who]], <<Invite(u, who, c.ts)>>))

(* exec_expired_destruct_events *)
exec_expired_destruct_events(s) ==
  LET c == ch[s] IN
  /\ c.timer /\ expired < MaxExpiry /\ expired' = expired + 1
  /\ ch' = [ch EXCEPT ![s] = NoChannel]
  /\ wire' = [wire EXCEPT ![s] = [b \in Servers |->
       IF s \in up[b] /\ b \in Links(s) THEN Append(@[b], Destruct(s, c.ts)) ELSE @[b]]]
  /\ UNCHANGED <<burst, up, ops, breaks>>
-----------------------------------------------------------------------------
(* Messages of servers.                                                    *)

Ignore(s, n) == Handle(s, n, ch[s], Silent)

(* Mutant: a zombie that joins again is not looked for. *)
JoinOfZombieIgnored(s, n, m) ==
  LET c == IF ch[s].there THEN ch[s] ELSE [NewChannel EXCEPT !.ts = m.ts]
  IN  IF m.from \in DOMAIN ch[s].mem THEN Ignore(s, n)
      ELSE Handle(s, n, add_user_to_channel(c, m.from, Plain), ToAllBut(s, {n}, <<Join(m.from, c.ts)>>))
(* ms_join: a zombie that joins is first removed; a creation time that is  *)
(* older, or the one of an empty channel, is taken and all modes go.       *)
ms_join(s, n, m) ==
  LET c == IF ch[s].there THEN remove_user_from_channel(ch[s], {m.from})
           ELSE [NewChannel EXCEPT !.ts = m.ts]
      wiped == [c EXCEPT !.ts = m.ts, !.modes = @ \ {"i"}, !.key = 0,
                 !.mem = [u \in DOMAIN c.mem |-> [c.mem[u] EXCEPT !.op = FALSE, !.voice = FALSE]]]
      c1 == IF ch[s].there /\ m.ts # 0 /\ (m.ts < c.ts \/ Empty(c)) THEN wiped ELSE c
  IN  IF m.from \in Living(ch[s]) THEN Ignore(s, n)
      ELSE Handle(s, n, add_user_to_channel(c1, m.from, Plain), ToAllBut(s, {n}, <<Join(m.from, c1.ts)>>))

(* ms_create: an op on a channel that is younger than ours, or that was    *)
(* made more than TS_LAG_TIME ago (lagged), is bounced, or, while its      *)
(* server is in its burst, not given when the burst will take it away.     *)
ms_create(s, n, m, lagged) ==
  LET c == ch[s]
      late == c.there /\ (lagged \/ (c.ts # 0 /\ m.ts > c.ts /\ ~Empty(c)))
      bad == late /\ (InBurst(s, ServerOf(m.from)) => m.ts > c.ts + 4)
      bounce == IF InBurst(s, ServerOf(m.from)) THEN Silent
                ELSE To(n, <<Mode(s, {Ch("-", "o", m.from)}, c.ts)>>)
      new == add_user_to_channel(IF c.there THEN c ELSE NewChannel, m.from, Opped)
  IN  IF m.from \in DOMAIN c.mem THEN Ignore(s, n)
      ELSE IF bad THEN Handle(s, n, add_user_to_channel(c, m.from, Plain),
                              Then(bounce, ToAllBut(s, {n}, <<Join(m.from, c.ts)>>)))
      ELSE Handle(s, n, [new EXCEPT !.ts = m.ts], ToAllBut(s, {n}, <<Create(m.from, m.ts)>>))

(* ms_part *)
ms_part(s, n, m) ==
  IF m.from \in DOMAIN ch[s].mem
  THEN Handle(s, n, remove_user_from_channel(ch[s], {m.from}), ToAllBut(s, {n}, <<m>>))
  ELSE Ignore(s, n)

(* ms_kick: a kick by somebody who is no op here is bounced, unless the    *)
(* victim's side has accepted it; a kick by the server of a zombie ends    *)
(* it; the kick of somebody who is not here is passed on.                  *)
ms_kick(s, n, m) ==
  LET c == ch[s]
      who == m.who
      member == who \in Living(c)
      c1 == IF ~member /\ m.from = Home[who] THEN remove_user_from_channel(c, {who}) ELSE c
      reop == {x \in {Ch("+", "o", who), Ch("+", "v", who)} : IF x.mode = "o" THEN c.mem[who].op ELSE c.mem[who].voice}
      bounce == <<Join(who, 0)>>
                  \o IF reop = {} THEN <<>>
                     ELSE <<Mode(s, {Ch("-", "o", m.from)} \cup reop, c.ts)>>
  IN  IF ~c.there THEN Ignore(s, n)
      ELSE IF m.from \in Users /\ member /\ Via[s][Home[who]] # n /\ ~IsChanOp(c, m.from)
      THEN Handle(s, n, c, To(n, bounce))
      ELSE IF member
      THEN Handle(s, n, make_zombie(s, c, who, n, m.from),
                  Then(ToAllBut(s, {n}, <<m>>), ZombiePart(s, who, n)))
      ELSE Handle(s, n, c1, ToAllBut(s, {n}, <<m>>))

(* ms_mode, mode_parse, modebuf_flush.  A change by somebody who is no op  *)
(* here is bounced and its source deopped; a newer creation time than ours *)
(* is bounced, or ignored while the link is in its burst; an older one is  *)
(* taken.                                                                  *)
ms_mode(s, n, m) ==
  LET c == ch[s]
      stale == m.ts > c.ts
      foreign == m.from \in Users /\ ~IsChanOp(c, m.from)
      unset == IF foreign THEN Bounceable(c, m.chg) ELSE Changes(c, m.chg)
      deop == IF foreign THEN {Ch("-", "o", m.from)} ELSE {}
      back == IF unset = {} \/ (InBurst(s, n) /\ ~foreign) THEN Silent
              ELSE To(n, <<Mode(s, deop \cup Opposite(unset), c.ts)>>)
      done == SetModes([c EXCEPT !.ts = IF m.ts # 0 /\ m.ts < c.ts THEN m.ts ELSE c.ts], unset)
      pass == IF unset = {} THEN Silent ELSE ToAllBut(s, {n}, <<Mode(m.from, unset, done.ts)>>)
  IN  IF ~c.there THEN Ignore(s, n)
      ELSE IF foreign THEN Handle(s, n, c, back)
      ELSE IF stale THEN Handle(s, n, KeyOnly(c, m.chg), back)
      ELSE Handle(s, n, done, pass)

(* ms_opmode *)
ms_opmode(s, n, m) ==
  LET c == ch[s] q == Changes(c, m.chg)
  IN  Handle(s, n, IF c.there THEN SetModes(c, q) ELSE c,
             IF q = {} \/ ~c.there THEN Silent ELSE ToAllBut(s, {n}, <<Opmode(m.from, q)>>))

(* ms_clearmode *)
ms_clearmode(s, n, m) ==
  IF ch[s].there THEN Handle(s, n, do_clearmode(ch[s]), ToAllBut(s, {n}, <<m>>)) ELSE Ignore(s, n)

(* ms_invite: discarded when the channel is older here. *)
ms_invite(s, n, m) ==
  LET c == ch[s] next == To(Via[s][Home[m.who]], <<Invite(m.from, m.who, c.ts)>>)
  IN  IF ~c.there
      THEN Handle(s, n, c, IF Home[m.who] = s THEN Silent
                           ELSE To(Via[s][Home[m.who]], <<Invite(m.from, m.who, 0)>>))
      ELSE IF m.ts > c.ts \/ (m.ts = 0 /\ InBurst(s, n)) \/ m.from \notin Living(c) \/ m.who \in Living(c)
      THEN Ignore(s, n)
      ELSE IF Home[m.who] = s THEN Handle(s, n, [c EXCEPT !.inv = @ \cup {m.who}], Silent)
      ELSE Handle(s, n, c, next)

(* ms_destruct: an empty channel goes, and the message goes everywhere,    *)
(* back as well; for a channel with members the sender gets its users and  *)
(* modes again.                                                            *)
Listing(S) == CHOOSE q \in [1..Cardinality(S) -> S] : \A u \in S : \E i \in DOMAIN q : q[i] = u
Standing(c) ==
  {Ch("+", "o", u) : u \in {v \in DOMAIN c.mem : c.mem[v].op}}
    \cup {Ch("+", "v", u) : u \in {v \in DOMAIN c.mem : c.mem[v].voice}}
    \cup (IF "i" \in c.modes THEN {Ch("+", "i", "none")} ELSE {})
    \cup (IF c.key # 0 THEN {Ch("+", "k", c.key)} ELSE {})
Resync(s, n, c) ==
  LET q == Listing(DOMAIN c.mem)
  IN  To(n, [i \in DOMAIN q |-> Part(q[i])] \o [i \in DOMAIN q |-> Join(q[i], 0)]
            \o IF Standing(c) = {} THEN <<>> ELSE <<Mode(s, Standing(c), c.ts)>>)
ms_destruct(s, n, m) ==
  LET c == ch[s]
  IN  IF ~c.there \/ m.ts > c.ts THEN Ignore(s, n)
      ELSE IF ~Empty(c) THEN Handle(s, n, c, Resync(s, n, c))
      ELSE Handle(s, n, NoChannel, ToAllBut(s, {}, <<Destruct(s, m.ts)>>))
-----------------------------------------------------------------------------
(* BURST.                                                                  *)

(* What the creation time of the burst counts for: a few seconds are       *)
(* forgiven between an empty channel and one that was joined meanwhile.    *)
BurstTs(c, m) ==
  IF /\ c.ts # 0 /\ m.modes = {} /\ m.key = 0 /\ DOMAIN m.mem = {}
     /\ m.ts < c.ts /\ c.ts <= m.ts + 4 /\ ~Empty(c)
  THEN c.ts ELSE m.ts
TakeTs(c, m) ==
  IF /\ c.ts # 0 /\ ~(m.modes = {} /\ m.key = 0 /\ DOMAIN m.mem = {})
     /\ c.ts < m.ts /\ m.ts <= c.ts + 4 /\ Empty(c)
  THEN [c EXCEPT !.ts = m.ts] ELSE c
(* netride_modes: the older channel is closed, and its local members leave *)
(* one after the other.  The invitations go whether there are any or not.  *)
netride_modes(c, m) == "i" \in m.modes \/ (m.key # 0 /\ m.key # c.key)
NetRiders(s, c) == {u \in Living(c) : Home[u] = s}
(* mode_parse of a burst: of two keys the first in the alphabet stays.     *)
BurstKey(c, m) == IF m.key = 0 \/ (c.key # 0 /\ c.key <= m.key) THEN c.key ELSE m.key

(* A channel that is new or younger than the burst takes its creation time *)
(* and loses its modes; the key stays, for nothing clears it.              *)
Older(c, T) == c.ts = 0 \/ c.ts > T
WipeModes(c, T) == IF Older(c, T) THEN [c EXCEPT !.ts = T, !.modes = @ \ {"i"}] ELSE c

(* The members the burst names that are known and come from its side; the  *)
(* status flags count only when the burst is no younger than the channel.  *)
BurstNicks(s, n, m) == {u \in DOMAIN m.mem : Home[u] \in Known(s) /\ Via[s][Home[u]] = n}
BurstFlags(m, set, u) == IF set THEN m.mem[u] ELSE [op |-> FALSE, voice |-> FALSE]
(* A member that had joined before the burst gets the flags as well; the   *)
(* others lose their status to an older burst.                             *)
BurstStatus(c, m, joined, set, wipe, u) ==
  LET f == BurstFlags(m, set, u)
  IN  IF u \notin DOMAIN c.mem THEN [op |-> f.op, voice |-> f.voice, zombie |-> FALSE]
      ELSE IF u \in joined
      THEN [c.mem[u] EXCEPT !.op = @ \/ f.op, !.voice = @ \/ f.voice]
      ELSE IF wipe THEN [c.mem[u] EXCEPT !.op = FALSE, !.voice = FALSE]
      ELSE c.mem[u]

ms_burst(s, n, m) ==
  LET c0 == IF ch[s].there THEN ch[s] ELSE NewChannel
      T == BurstTs(c0, m)
      c1 == TakeTs(c0, m)
      ridden == Older(c1, T) /\ netride_modes(c1, m)
      riders == IF ridden THEN NetRiders(s, c1) ELSE {}
      kept == IF ridden THEN remove_user_from_channel(mode_invite_clear(c1), riders) ELSE c1
      c2 == IF kept.there THEN kept ELSE NewChannel
      wipe == Older(c2, T)
      set == wipe \/ c2.ts = T
      c3 == WipeModes(c2, T)
      added == (IF set THEN m.modes ELSE {}) \ c3.modes
      key == IF set THEN BurstKey(c3, m) ELSE c3.key
      joined == BurstNicks(s, n, m)
      c4 == [c3 EXCEPT !.modes = @ \cup added \cup (IF c2.ts = 0 THEN {"BURSTADDED"} ELSE {}),
               !.key = key,
               !.mem = [u \in DOMAIN c3.mem \cup joined |-> BurstStatus(c3, m, joined, set, wipe, u)],
               !.timer = @ /\ joined = {}]
      onward == [t |-> "BURST", from |-> m.from, ts |-> c4.ts, modes |-> added,
                 key |-> IF key # c3.key THEN key ELSE 0, mem |-> [u \in joined |-> BurstFlags(m, set, u)]]
      q == Listing(riders)
  IN  Handle(s, n, c4, Then(ToAllBut(s, {}, [i \in DOMAIN q |-> Kick(s, q[i])]),
                            ToAllBut(s, {n}, <<onward>>)))

(* ms_end_of_burst: an empty channel that a burst made is watched from now *)
(* on; a neighbour gets an answer.                                         *)
ms_end_of_burst(s, n, m) ==
  LET c == ch[s]
      c1 == [c EXCEPT !.modes = @ \ {"BURSTADDED"}]
  IN  /\ Handle(s, n, IF "BURSTADDED" \in c.modes /\ Empty(c) THEN Emptied(c1) ELSE c1,
                Then(ToAllBut(s, {n}, <<m>>), IF m.from = n THEN To(n, <<EndOfBurstAck(s)>>) ELSE Silent))
      /\ burst' = [burst EXCEPT ![s][m.from] = "ack"]

(* ms_end_of_burst_ack *)
ms_end_of_burst_ack(s, n, m) ==
  /\ Handle(s, n, ch[s], ToAllBut(s, {n}, <<m>>))
  /\ burst' = [burst EXCEPT ![s][m.from] = IF @ = "ack" THEN "ok" ELSE @]
-----------------------------------------------------------------------------
(* Links.                                                                  *)

(* exit_downlinks: the servers X are gone, with their users. *)
Lost(c, X) == remove_user_from_channel(c, {u \in Users : Home[u] \in X})
Forgotten(s, X) == [burst EXCEPT ![s] = [x \in Servers |-> IF x \in X THEN "unknown" ELSE @[x]]]

(* server_estab at both ends: the servers, the channel, the end. *)
Greeting(s, n) ==
  <<Intro(s, [x \in {y \in Known(s) : y = s \/ Via[s][y] # n} |->
                IF x = s \/ burst[s][x] = "burst" THEN "burst" ELSE "ok"])>>
    \o (IF ch[s].there THEN <<Burst(s, ch[s])>> ELSE <<>>) \o <<EndOfBurst(s)>>
Connect(s, n) ==
  /\ Via[s][n] = n /\ s # n /\ n \notin up[s] /\ s \notin up[n]
  /\ wire[s][n] = <<>> /\ wire[n][s] = <<>>
  /\ up' = [up EXCEPT ![s] = @ \cup {n}, ![n] = @ \cup {s}]
  /\ wire' = [wire EXCEPT ![s][n] = Greeting(s, n), ![n][s] = Greeting(n, s)]
  /\ UNCHANGED <<ch, burst, bounds>>

(* s loses its link with n, and n will find out. *)
Break(s, n) ==
  LET X == Beyond(s, n) \cap Known(s) IN
  /\ n \in up[s] /\ s \in up[n] /\ breaks < MaxBreaks /\ breaks' = breaks + 1
  /\ ch' = [ch EXCEPT ![s] = Lost(@, X)]
  /\ burst' = Forgotten(s, X)
  /\ up' = [up EXCEPT ![s] = @ \ {n}]
  /\ wire' = [[wire EXCEPT ![n][s] = <<>>] EXCEPT ![s] = [b \in Servers |->
       IF b = n THEN Append(@[b], Close(s))
       ELSE IF s \in up[b] /\ b \in up[s] THEN Append(@[b], Squit(s, n)) ELSE @[b]]]
  /\ UNCHANGED <<ops, expired>>

(* n finds out. *)
Closed(s, n) ==
  LET X == Beyond(s, n) \cap Known(s) IN
  /\ Handle(s, n, Lost(ch[s], X), ToAllBut(s, {n}, <<Squit(s, n)>>))
  /\ burst' = Forgotten(s, X)
  /\ up' = [up EXCEPT ![s] = @ \ {n}]

(* ms_server of the servers of a new part of the network. *)
ms_server(s, n, m) ==
  /\ Handle(s, n, ch[s], ToAllBut(s, {n}, <<m>>))
  /\ burst' = [burst EXCEPT ![s] = [x \in Servers |-> IF x \in DOMAIN m.known THEN m.known[x] ELSE @[x]]]

(* ms_squit *)
ms_squit(s, n, m) ==
  LET X == {m.server} \cup (Beyond(s, m.server) \cap Known(s)) IN
  IF m.server \notin Known(s) THEN Ignore(s, n) /\ UNCHANGED burst
  ELSE Handle(s, n, Lost(ch[s], X), ToAllBut(s, {n}, <<m>>)) /\ burst' = Forgotten(s, X)
-----------------------------------------------------------------------------
(* The senders and victims of m are known, and m comes from their side.    *)
Valid(s, n, m) ==
  /\ ServerOf(m.from) \in Known(s) /\ Via[s][ServerOf(m.from)] = n
  /\ m.t \in {"KICK", "INVITE"} => Home[m.who] \in Known(s)

Receive(s, n) ==
  /\ wire[n][s] # <<>>
  /\ LET m == Head(wire[n][s]) IN
     \/ /\ m.t \notin {"SERVER", "CLOSE"} /\ ~Valid(s, n, m)
        /\ Ignore(s, n) /\ UNCHANGED <<burst, up>>
     \/ m.t = "SERVER" /\ ms_server(s, n, m) /\ UNCHANGED up
     \/ m.t = "CLOSE" /\ Closed(s, n)
     \/ /\ m.t \notin {"SERVER", "CLOSE"} /\ Valid(s, n, m)
        /\ UNCHANGED up
        /\ \/ m.t = "SQUIT" /\ ms_squit(s, n, m)
           \/ m.t = "EB" /\ ms_end_of_burst(s, n, m)
           \/ m.t = "EA" /\ ms_end_of_burst_ack(s, n, m)
           \/ /\ UNCHANGED burst
              /\ \/ m.t = "CREATE" /\ \E lagged \in BOOLEAN : ms_create(s, n, m, lagged)
                 \/ m.t = "JOIN" /\ ms_join(s, n, m)
                 \/ m.t = "PART" /\ ms_part(s, n, m)
                 \/ m.t = "KICK" /\ ms_kick(s, n, m)
                 \/ m.t = "MODE" /\ ms_mode(s, n, m)
                 \/ m.t = "OPMODE" /\ ms_opmode(s, n, m)
                 \/ m.t = "CLEARMODE" /\ ms_clearmode(s, n, m)
                 \/ m.t = "INVITE" /\ ms_invite(s, n, m)
                 \/ m.t = "DESTRUCT" /\ ms_destruct(s, n, m)
                 \/ m.t = "BURST" /\ ms_burst(s, n, m)
  /\ UNCHANGED bounds

LocalStep ==
  \/ \E u \in Users :
       \/ \E ts \in 1..MaxTs : m_join_create(u, ts) \/ ms_svsjoin_create(u, ts)
       \/ \E checked \in BOOLEAN : ms_svsjoin(u, checked)
       \/ m_join_zannel(u) \/ m_join(u) \/ m_part(u) \/ mo_clearmode(u)
       \/ \E who \in Users : m_kick(u, who) \/ m_invite(u, who)
       \/ \E x \in Change : m_mode(u, x) \/ mo_opmode(u, x)
  \/ \E s \in Servers : exec_expired_destruct_events(s)

LinkStep == \E s, n \in Servers : Connect(s, n) \/ Break(s, n)
ReadStep == \E s, n \in Servers : Receive(s, n)

(* A network that stands, with a channel that some of the users are on. *)
StartChannel ==
  IF StartMembers = <<>> THEN NoChannel
  ELSE [NewChannel EXCEPT !.ts = 2,
          !.mem = [u \in {StartMembers[i] : i \in DOMAIN StartMembers} |->
                     IF u = StartMembers[1] THEN Opped ELSE Plain]]
Init ==
  /\ ch = [s \in Servers |-> StartChannel]
  /\ burst = [s \in Servers |-> [x \in Servers |-> "ok"]]
  /\ up = [s \in Servers |-> {n \in Servers \ {s} : Via[s][n] = n}]
  /\ wire = [s \in Servers |-> [n \in Servers |-> <<>>]]
  /\ ops = 0 /\ breaks = 0 /\ expired = 0

Next == LocalStep \/ LinkStep \/ ReadStep
Spec == Init /\ [][Next]_vars
-----------------------------------------------------------------------------
(* What a message may be. *)
Message ==
  [t : {"CREATE", "JOIN"}, from : Users, ts : 0..MaxTs] \cup [t : {"PART", "CLEARMODE"}, from : Users]
    \cup [t : {"KICK"}, from : Users \cup Servers, who : Users]
    \cup [t : {"MODE"}, from : Users \cup Servers, chg : SUBSET Change, ts : 0..MaxTs]
    \cup [t : {"OPMODE"}, from : Users, chg : SUBSET Change]
    \cup [t : {"INVITE"}, from : Users, who : Users, ts : 0..MaxTs]
    \cup [t : {"DESTRUCT"}, from : Servers, ts : 0..MaxTs]
    \cup [t : {"BURST"}, from : Servers, ts : 0..MaxTs, modes : SUBSET Flags, key : 0..Keys,
          mem : Partial(Users, [op : BOOLEAN, voice : BOOLEAN])]
    \cup [t : {"SERVER"}, from : Servers, known : Partial(Servers, {"burst", "ok"})]
    \cup [t : {"SQUIT"}, from : Servers, server : Servers]
    \cup [t : {"EB", "EA", "CLOSE"}, from : Servers]

TypeOK ==
  /\ ch \in [Servers -> Channels]
  /\ burst \in [Servers -> [Servers -> {"unknown", "burst", "ack", "ok"}]]
  /\ up \in [Servers -> SUBSET Servers]
  /\ \A s, n \in Servers : \A i \in DOMAIN wire[s][n] : wire[s][n][i] \in Message
  /\ ops \in 0..MaxOps /\ breaks \in 0..MaxBreaks /\ expired \in 0..MaxExpiry

(* All links are up and every message has been read. *)
Quiet ==
  /\ \A s, n \in Servers : wire[s][n] = <<>>
  /\ \A s, n \in Servers : s # n /\ Via[s][n] = n => n \in up[s]

(* A server never sees its own user as a zombie: make_zombie removes a     *)
(* local user at once, and m_part.c:95 and m_svspart.c assert it.          *)
LocalsNeverZombie ==
  \A s \in Servers : \A u \in DOMAIN ch[s].mem : Home[u] = s => ~ch[s].mem[u].zombie

(* Zombies alone never keep a channel: remove_user_from_channel and        *)
(* make_zombie sweep them with the last living member.  ms_join relies on  *)
(* it when it removes a zombie and looks the channel up again.             *)
NotOnlyZombies ==
  \A s \in Servers : ~Empty(ch[s]) => Living(ch[s]) # {}

(* Once the network is quiet every empty channel has its destruct event:   *)
(* otherwise nothing would ever free it (sub1_from_channel,                *)
(* ms_end_of_burst, schedule_destruct_event_1m).                           *)
EmptyIsWatched ==
  \A s \in Servers : ch[s].there /\ Empty(ch[s]) =>
    ch[s].timer \/ ("BURSTADDED" \in ch[s].modes /\ ~Quiet)

(* Once the network is quiet all servers agree on who is on the channel,   *)
(* whatever joins, parts, kicks, bursts and splits crossed.                *)
SameMembers ==
  Quiet => \A s, n \in Servers : Living(ch[s]) = Living(ch[n])

(* Once the network is quiet no zombie is left: the server of the kicked   *)
(* user has acknowledged the kick (channel.c, page zombie).  Does not      *)
(* hold: two kicks that cross leave one (m_kick.c, line 160).              *)
NoZombies ==
  Quiet => \A s \in Servers : Living(ch[s]) = DOMAIN ch[s].mem

(* No server loses its last living members to a burst while a zombie is    *)
(* on the channel.  Does not hold: the last one takes the zombie along,    *)
(* and the loop that removes them has the zombie as its next member        *)
(* (m_burst.c, line 246), which is freed by then.                          *)
RidersLeaveNoZombie ==
  \A s, n \in Servers :
    wire[n][s] # <<>> /\ Head(wire[n][s]).t = "BURST" =>
      LET c == ch[s]
          m == Head(wire[n][s])
      IN  ~(/\ c.there /\ c.ts > m.ts /\ netride_modes(c, m)
            /\ Living(c) # DOMAIN c.mem /\ Living(c) = NetRiders(s, c))
=============================================================================
