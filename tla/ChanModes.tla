----------------------------- MODULE ChanModes ------------------------------
(***************************************************************************)
(* MODE on one channel, as channel.c parses, applies and passes it on:     *)
(* mode_parse and what it calls, modebuf_flush, CLEARMODE, the ban list    *)
(* and each member's cached answer of whether it is banned, delayed joins. *)
(* Two servers hold a copy each.  What one server makes of a user's MODE   *)
(* is written anew for the other, which parses it again; the messages that *)
(* cross each other are the business of Channel.                           *)
(***************************************************************************)
EXTENDS Naturals, Sequences, FiniteSets, SequencesExt

CONSTANTS
  Users, Home,    \* members, and the server (1 or 2) of each
  Masks, Covers,  \* ban masks, and the pairs of which the first covers the second
  Nick,           \* the masks that match a user under each of his nicks: [Users -> Seq(SUBSET Masks)]
  Words,          \* keys and passwords
  Limits,
  MAXOPLEVEL,
  AskedLevels,    \* the levels that are asked for with +o; MAXOPLEVEL + 1 is none
  Length,         \* mask -> strlen of its banstr
  MaxBans,        \* FEAT_MAXBANS
  AvBanLen,       \* FEAT_AVBANLEN
  Opers,          \* the users who are operators
  MayAge,         \* bound: does the channel get older than 48 hours?
  LetterSets      \* the sets of modes that one command changes

VARIABLES ch,     \* the channel, on each server
          nick    \* which of his nicks a user has

mvars == <<ch, nick>>
-----------------------------------------------------------------------------
None == "none"
Flags == {"s", "p", "i", "m", "D"}
Other(s) == 3 - s
NoLevel == MAXOPLEVEL + 1
Away == [on |-> FALSE, op |-> FALSE, voice |-> FALSE, level |-> MAXOPLEVEL, mgr |-> FALSE, delayed |-> FALSE, valid |-> FALSE, banned |-> FALSE]

covers(a, b) == a = b \/ <<a, b>> \in Covers
find_ban(c, u) == \E k \in DOMAIN c.bans : c.bans[k].m \in Nick[u][nick[u]]
find_delayed_joins(c) == \E u \in Users : c.mem[u].on /\ c.mem[u].delayed

(* A server's answer to who may speak is kept with the member. *)
is_banned(c, u) == IF c.mem[u].valid THEN c.mem[u].banned ELSE find_ban(c, u)
Asked(c, u) == [c EXCEPT !.mem[u].valid = TRUE, !.mem[u].banned = is_banned(c, u)]
mode_ban_invalidate(c) == [c EXCEPT !.mem = [u \in Users |-> [@[u] EXCEPT !.valid = FALSE]]]

(* +d stands for -D while joins are still hidden. *)
CheckDelayedJoins(c) == IF find_delayed_joins(c) THEN c ELSE [c EXCEPT !.was = FALSE]
RevealDelayedJoin(c, u) == CheckDelayedJoins([c EXCEPT !.mem[u].delayed = FALSE])
-----------------------------------------------------------------------------
(* The parse: st has the channel, who changes it and whether he is ours,   *)
(* what was done, the bans marked, and what is to be passed on.            *)
Parse(c, u, local) ==
  [c |-> c, u |-> u, local |-> local, done |-> {}, add |-> {}, del |-> {}, cli |-> <<>>, out |-> <<>>, bans |-> FALSE]
Say(st, dir, f, arg) == [st EXCEPT !.out = Append(@, [dir |-> dir, f |-> f, arg |-> arg])]
Done(st, x) == [st EXCEPT !.done = @ \cup {x}]
Setter(st) == st.c.mem[st.u]

mode_parse_limit(st, dir, n) ==
  IF dir = "+" /\ n \in {0, st.c.limit} THEN st
  ELSE IF dir = "-" /\ st.c.limit = 0 THEN st
  ELSE IF "l" \in st.done THEN st
  ELSE [Say(Done(st, "l"), dir, "l", n) EXCEPT !.c.limit = IF dir = "+" THEN n ELSE 0]

(* Mutant: what was added may be removed again by the same command. *)
AgainSame(st, dir, f) == (f \o dir) \in st.done
(* Of additions the first counts, and no removal follows an addition. *)
Again(st, dir, f) == (f \o "+") \in st.done \/ (dir = "-" /\ (f \o "-") \in st.done)
(* A word is set only where there is none and removed only by itself. *)
KeySet(old, dir, w) == IF dir = "+" THEN old # None ELSE old # w
mode_parse_key(st, dir, w) ==
  IF Again(st, dir, "k") THEN st
  ELSE LET d == Done(st, "k" \o dir)
       IN  IF st.local /\ KeySet(st.c.key, dir, w) THEN d
           ELSE IF dir = "+" /\ st.c.key = w THEN d
           ELSE [Say(d, dir, "k", w) EXCEPT !.c.key = IF dir = "+" THEN w ELSE None]
(* Only the manager of the channel; the user password needs the other one, *)
(* and differs from it.  After 48 hours only an operator removes the other *)
(* one.                                                                    *)
IsChannelManager(st) == Setter(st).mgr
mode_parse_upass(st, dir, w) ==
  IF (st.local /\ ~IsChannelManager(st)) \/ Again(st, dir, "U") THEN st
  ELSE LET d == Done(st, "U" \o dir)
       IN  IF st.local /\ ((dir = "+" /\ st.c.apass \in {None, w}) \/ KeySet(st.c.upass, dir, w)) THEN d
           ELSE IF dir = "+" /\ st.c.upass = w THEN d
           ELSE [Say(d, dir, "U", w) EXCEPT !.c.upass = IF dir = "+" THEN w ELSE None]
mode_parse_apass(st, dir, w) ==
  IF st.local /\ (~IsChannelManager(st) \/ (dir = "-" /\ st.c.upass # None) \/ KeySet(st.c.apass, dir, w)) THEN st
  ELSE IF st.local /\ st.c.old /\ dir = "-" /\ st.u \notin Opers THEN st
  ELSE IF Again(st, dir, "A") THEN st
  ELSE LET d == Done(st, "A" \o dir)
           e == Say(d, dir, "A", w)
       IN  IF dir = "+" /\ st.c.apass = w THEN d
           ELSE IF dir = "+"
           THEN [e EXCEPT !.c.apass = IF @ = None THEN w ELSE @, !.c.mem[st.u].level = 0]
           ELSE [e EXCEPT !.c.apass = None, !.c.upass = None,
                          !.c.mem = [u \in Users |-> IF @[u].on /\ @[u].op THEN [@[u] EXCEPT !.level = MAXOPLEVEL] ELSE @[u]]]

(* A new ban stays out if one on the list covers it, and removes those     *)
(* that it covers.                                                         *)
apply_ban(bans, m, dir) ==
  LET hit(b) == covers(m, b.m)
      marked == [k \in DOMAIN bans |-> IF hit(bans[k]) THEN [bans[k] EXCEPT !.f = @ \cup {"DEL"}] ELSE bans[k]]
  IN  IF dir = "-" THEN marked
      ELSE IF \E k \in DOMAIN bans : covers(bans[k].m, m) /\ "DEL" \notin bans[k].f THEN bans
      ELSE Append(marked, [m |-> m, f |-> {"ADD"}])
mode_parse_ban(st, dir, m) == [st EXCEPT !.bans = TRUE, !.c.bans = apply_ban(@, m, dir)]

(* The list in order: the removed go, the added are put at its head unless *)
(* there are too many, or too long ones, for a user of ours.               *)
TooMany(bans, m) ==
  \/ Len(bans) >= MaxBans
  \/ FoldSeq(LAMBDA b, n : n + Length[b.m], Length[m], bans) > AvBanLen * MaxBans
ProcessBan(a, b) ==
  CASE {"ADD", "DEL"} \subseteq b.f -> a
    [] "DEL" \in b.f /\ "ADD" \notin b.f -> [a EXCEPT !.st = Say(@, "-", "b", b.m), !.changed = TRUE]
    [] "ADD" \in b.f /\ "DEL" \notin b.f ->
         IF a.st.local /\ TooMany(a.kept \o a.fresh, b.m) THEN a
         ELSE [a EXCEPT !.st = Say(@, "+", "b", b.m), !.changed = TRUE, !.fresh = <<[m |-> b.m, f |-> {}]>> \o @]
    [] OTHER -> [a EXCEPT !.kept = Append(@, b)]
mode_process_bans(st) ==
  LET a == FoldLeft(ProcessBan, [st |-> st, kept |-> <<>>, fresh |-> <<>>, changed |-> FALSE], st.c.bans)
      r == [a.st EXCEPT !.c.bans = a.fresh \o a.kept]
  IN  IF a.changed THEN [r EXCEPT !.c = mode_ban_invalidate(@)] ELSE r

(* An op level is asked for only by a user of ours, and must be below his. *)
LevelRefused(st, dir, f, lv) ==
  /\ st.local /\ lv # NoLevel /\ dir = "+" /\ f = "o"
  /\ lv < Setter(st).level \/ (lv = Setter(st).level /\ lv < MAXOPLEVEL)
mode_parse_client(st, dir, f, u, lv) ==
  IF LevelRefused(st, dir, f, lv) THEN st
  ELSE LET K == {k \in DOMAIN st.cli : st.cli[k].u = u /\ st.cli[k].f = f}
           x == [dir |-> dir, f |-> f, u |-> u, lv |-> IF dir = "-" \/ f = "v" THEN NoLevel ELSE lv]
       IN  IF K = {} THEN [st EXCEPT !.cli = Append(@, x)] ELSE [st EXCEPT !.cli[CHOOSE k \in K : TRUE] = x]
Protected(st, x) ==
  /\ st.local /\ x.dir = "-" /\ x.f = "o" /\ x.u # st.u
  /\ LET l == st.c.mem[x.u].level
     IN  l < Setter(st).level \/ (l = Setter(st).level /\ l < MAXOPLEVEL)
NewLevel(st, x) ==
  IF x.lv <= MAXOPLEVEL THEN x.lv ELSE IF Setter(st).level >= MAXOPLEVEL THEN MAXOPLEVEL ELSE Setter(st).level + 1
ProcessClient(st, x) ==
  LET m == st.c.mem[x.u]
      has == IF x.f = "o" THEN m.op ELSE m.voice
      lv == IF x.dir = "+" /\ x.f = "o" THEN NewLevel(st, x) ELSE m.level
      c == IF x.dir = "+" /\ m.delayed THEN RevealDelayedJoin(st.c, x.u) ELSE st.c
      n == [c.mem[x.u] EXCEPT !.op = IF x.f = "o" THEN x.dir = "+" ELSE @, !.voice = IF x.f = "v" THEN x.dir = "+" ELSE @,
                              !.level = lv]
  IN  IF ~m.on \/ has = (x.dir = "+") \/ Protected(st, x) THEN st
      ELSE [Say(st, x.dir, x.f, <<x.u, IF x.lv < MAXOPLEVEL THEN x.lv ELSE NoLevel>>) EXCEPT !.c = [c EXCEPT !.mem[x.u] = n]]
mode_process_clients(st) == FoldLeft(ProcessClient, st, st.cli)

mode_parse_mode(st, dir, f) ==
  LET twin == IF f = "s" THEN {"p"} ELSE IF f = "p" THEN {"s"} ELSE {}
  IN  IF dir = "+" THEN [st EXCEPT !.add = (@ \cup {f}) \ twin, !.del = (@ \ {f}) \cup twin]
      ELSE [st EXCEPT !.add = @ \ {f}, !.del = @ \cup {f}]
Letter(st, x) ==
  CASE x.f = "l" -> mode_parse_limit(st, x.dir, x.arg)
    [] x.f = "k" -> mode_parse_key(st, x.dir, x.arg)
    [] x.f = "U" -> mode_parse_upass(st, x.dir, x.arg)
    [] x.f = "A" -> mode_parse_apass(st, x.dir, x.arg)
    [] x.f = "b" -> mode_parse_ban(st, x.dir, x.arg)
    [] x.f \in {"o", "v"} -> mode_parse_client(st, x.dir, x.f, x.arg[1], x.arg[2])
    [] x.f \in Flags -> mode_parse_mode(st, x.dir, x.f)

(* The flags at the end, then the bans, then the members. *)
SetFlags(st) ==
  LET t == (st.c.flags \ st.del) \cup st.add
      off == [k \in DOMAIN SetToSeq(st.del \cap st.c.flags) |-> [dir |-> "-", f |-> SetToSeq(st.del \cap st.c.flags)[k], arg |-> None]]
      on == [k \in DOMAIN SetToSeq(t \ st.c.flags) |-> [dir |-> "+", f |-> SetToSeq(t \ st.c.flags)[k], arg |-> None]]
  IN  [st EXCEPT !.c.flags = t, !.out = off \o on \o @]
Processed(st) == mode_process_clients(IF st.bans THEN mode_process_bans(st) ELSE st)
mode_parse(c, u, local, changes) ==
  Processed(SetFlags(FoldLeft(Letter, Parse(c, u, local), changes)))

(* modebuf_flush: +d comes and goes with D; removals are written first. *)
WasDelJoins(c, out) ==
  LET has(d) == \E k \in DOMAIN out : out[k].dir = d /\ out[k].f = "D"
  IN  IF has("-") /\ "D" \notin c.flags /\ find_delayed_joins(c) THEN [c EXCEPT !.was = TRUE]
      ELSE IF has("+") THEN [c EXCEPT !.was = FALSE] ELSE c
modebuf_flush(out) == SelectSeq(out, LAMBDA x : x.dir = "-") \o SelectSeq(out, LAMBDA x : x.dir = "+")
-----------------------------------------------------------------------------
(* A user of server s changes modes; the other server does what it is told. *)
Becomes(s, a, b) ==
  ch' = [x \in 1..2 |-> IF x = s THEN WasDelJoins(a.c, a.out) ELSE WasDelJoins(b.c, b.out)]
Relayed(s, u, a) == Becomes(s, a, mode_parse(ch[Other(s)], u, FALSE, modebuf_flush(a.out)))
Applied(s, u, changes) ==
  Relayed(s, u, mode_parse(ch[s], u, TRUE, changes))
m_mode(u, changes) ==
  /\ ch[Home[u]].mem[u].on /\ ch[Home[u]].mem[u].op
  /\ Applied(Home[u], u, changes)
  /\ UNCHANGED nick

(* CLEARMODE, of every mode it knows; both servers do the same. *)
Cleared(c) ==
  LET f == [c EXCEPT !.flags = {}, !.limit = 0, !.bans = <<>>, !.key = None,
                     !.mem = [u \in Users |-> IF @[u].on THEN [@[u] EXCEPT !.valid = FALSE, !.op = FALSE, !.voice = FALSE] ELSE @[u]]]
  IN  WasDelJoins(f, IF "D" \in c.flags THEN <<[dir |-> "-", f |-> "D", arg |-> None]>> ELSE <<>>)
do_clearmode ==
  /\ ch' = [s \in 1..2 |-> Cleared(ch[s])]
  /\ UNCHANGED nick

(* joinbuf_join: a join is hidden under +D; the level goes with the apass. *)
Joined(c, u) ==
  [c EXCEPT !.mem[u] = [Away EXCEPT !.on = TRUE, !.delayed = "D" \in c.flags, !.level = IF c.apass = None THEN MAXOPLEVEL ELSE 1]]
joinbuf_join(u) ==
  /\ ~ch[Home[u]].mem[u].on /\ ("i" \notin ch[Home[u]].flags)
  /\ ~find_ban(ch[Home[u]], u)
  /\ ch' = [s \in 1..2 |-> Joined(ch[s], u)]
  /\ UNCHANGED nick
Parted(c, u) == LET d == [c EXCEPT !.mem[u] = Away] IN IF c.mem[u].delayed THEN CheckDelayedJoins(d) ELSE d
remove_member_from_channel(u) ==
  /\ ch[Home[u]].mem[u].on /\ \E v \in Users \ {u} : ch[1].mem[v].on
  /\ ch' = [s \in 1..2 |-> Parted(ch[s], u)]
  /\ UNCHANGED nick

(* member_can_send_to_channel: his own server asks whether he is banned;   *)
(* if he may speak, both reveal him.                                       *)
Mute(c, u) == c.mem[u].mgr /\ c.apass # None
Asks(c, u) == ~Mute(c, u) /\ ~c.mem[u].op /\ ~c.mem[u].voice /\ "m" \notin c.flags
MaySpeak(c, u) == ~Mute(c, u) /\ (c.mem[u].op \/ c.mem[u].voice \/ ("m" \notin c.flags /\ ~is_banned(c, u)))
Revealed(c, u) == IF c.mem[u].delayed THEN RevealDelayedJoin(c, u) ELSE c
Spoken(c, u) == IF Asks(c, u) THEN Asked(c, u) ELSE c
member_can_send_to_channel(u) ==
  LET h == Home[u]
      c == ch[h]
      said == Spoken(c, u)
  IN  /\ c.mem[u].on
      /\ ch' = IF MaySpeak(c, u) THEN [s \in 1..2 |-> IF s = h THEN Revealed(said, u) ELSE Revealed(ch[s], u)]
               ELSE [ch EXCEPT ![h] = said]
      /\ UNCHANGED nick
(* find_no_nickchange_channel: not where he may not speak, and the answer  *)
(* is kept; set_nick_name: with another nick he is asked again.            *)
ChangeNick(u, n) ==
  LET h == Home[u]
      c == ch[h]
      held == c.mem[u].on /\ ~c.mem[u].op /\ ~c.mem[u].voice
      asked == IF held /\ "m" \notin c.flags THEN Asked(c, u) ELSE c
  IN  /\ n # nick[u] /\ n \in DOMAIN Nick[u]
      /\ \/ /\ held /\ ("m" \in c.flags \/ is_banned(c, u))
            /\ ch' = [ch EXCEPT ![h] = asked]
            /\ UNCHANGED nick
         \/ /\ ~(held /\ ("m" \in c.flags \/ is_banned(c, u)))
            /\ nick' = [nick EXCEPT ![u] = n]
            /\ ch' = [ch EXCEPT ![h].mem[u].valid = FALSE]
(* The channel is 48 hours old; its creation time is the same everywhere. *)
Age ==
  /\ MayAge /\ ~ch[1].old
  /\ ch' = [s \in 1..2 |-> [ch[s] EXCEPT !.old = TRUE]]
  /\ UNCHANGED nick
-----------------------------------------------------------------------------
Args(f) ==
  CASE f = "l" -> Limits [] f \in {"k", "U", "A"} -> Words [] f = "b" -> Masks
    [] f = "o" -> Users \X AskedLevels [] f = "v" -> Users \X {NoLevel} [] f \in Flags -> {None}
Changes(L) == UNION {[dir : {"+", "-"}, f : {f}, arg : Args(f)] : f \in L}

CmInit ==
  LET first == CHOOSE u \in Users : TRUE
      c == [flags |-> {}, was |-> FALSE, old |-> FALSE, limit |-> 0, key |-> None, apass |-> None, upass |-> None, bans |-> <<>>,
            mem |-> [u \in Users |-> IF u = first THEN [Away EXCEPT !.on = TRUE, !.op = TRUE, !.mgr = TRUE] ELSE Away]]
  IN  ch = [s \in 1..2 |-> c] /\ nick = [u \in Users |-> 1]

CmNext ==
  \/ \E u \in Users, L \in LetterSets : \E a, b \in Changes(L) : m_mode(u, <<a, b>>)
  \/ do_clearmode
  \/ \E u \in Users : joinbuf_join(u) \/ remove_member_from_channel(u) \/ member_can_send_to_channel(u)
  \/ \E u \in Users, n \in {1, 2} : ChangeNick(u, n)
  \/ Age
-----------------------------------------------------------------------------
(* Two servers that had the same channel have the same one after any MODE: *)
(* parsing the changes that were passed on gives what parsing the user's   *)
(* own gave, whatever came twice, crossed out or was refused in them       *)
(* (mode_parse, modebuf_flush_int).  Op levels apart, see SameLevels.      *)
SameModes ==
  LET View(c) == [c EXCEPT !.mem = [u \in Users |-> <<@[u].on, @[u].op, @[u].voice, @[u].delayed>>],
                           !.bans = [k \in DOMAIN @ |-> @[k].m]]
  IN  View(ch[1]) = View(ch[2])

(* The levels are the same too, whoever set and removed the password of    *)
(* the channel in between, as long as nobody is given the weakest level by *)
(* name: that one is not written (channel.c:1870), and the other server    *)
(* gives the level after the setter's.  With MAXOPLEVEL among AskedLevels  *)
(* it is false of the code.                                                *)
SameLevels == \A u \in Users : ch[1].mem[u].level = ch[2].mem[u].level

(* No ban on the list covers another, whatever was added and removed at    *)
(* once, and the answers kept with the members are those the list gives    *)
(* now, through changes of bans and of nicks (apply_ban, is_banned).       *)
BansAreCurrent ==
  /\ \A s \in 1..2 : \A j, k \in DOMAIN ch[s].bans : j # k => ~covers(ch[s].bans[j].m, ch[s].bans[k].m)
  /\ \A u \in Users : LET c == ch[Home[u]] IN c.mem[u].on /\ c.mem[u].valid => c.mem[u].banned = find_ban(c, u)

(* +d is shown exactly while joins made under +D are still hidden.         *)
HiddenIsMarked == \A s \in 1..2 : ch[s].was <=> ("D" \notin ch[s].flags /\ find_delayed_joins(ch[s]))
=============================================================================
