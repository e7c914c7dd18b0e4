-------------------------------- MODULE Nick --------------------------------
(***************************************************************************)
(* The users of the network as every server sees them: nicks, numerics and *)
(* timestamps (m_nick.c, m_kill.c, m_quit.c, m_squit.c, m_ghost.c,         *)
(* numnicks.c, set_nick_name and register_user in s_user.c, exit_client in *)
(* s_misc.c, server_estab in s_serv.c, ms_server in m_server.c and the     *)
(* prefix checks of parse_server in parse.c).                              *)
(*                                                                         *)
(* A user is known by its numeric: its server and a slot that is used      *)
(* again once the user is gone.  NICK, QUIT and KILL cross each other on   *)
(* the links, two users may take one nick on two servers, and links break  *)
(* and come back.  The configured links form a tree; link loops are not    *)
(* part of this module.  Timestamps are arbitrary: clocks may differ.      *)
(***************************************************************************)
EXTENDS Naturals, Sequences, FiniteSets

CONSTANTS
  Servers,
  Via,          \* Via[s][x]: the neighbour of s on the path to x; Via[s][s] = s
  Capacity,     \* users of a server that its numerics tell apart: nn_mask + 1
  Nicks,
  Hosts,        \* what a collision compares: IP address and user name
  Ghosting,     \* TRUE when users release registered nicks with GHOST
  MaxTs,        \* bound: timestamps
  MaxOps,       \* bound: sign-ons, nick changes, oper kills and ghost releases
  MaxConnects,  \* bound: link attempts
  MaxBreaks     \* bound: links that break

ASSUME NickAssumption ==
  /\ Via \in [Servers -> [Servers -> Servers]]
  /\ \A s \in Servers : Via[s][s] = s
  /\ Capacity \in Nat \ {0} /\ Nicks # {} /\ Hosts # {}
  /\ Ghosting \in BOOLEAN
  /\ MaxTs \in Nat /\ MaxOps \in Nat /\ MaxConnects \in Nat /\ MaxBreaks \in Nat

VARIABLES
  tab,      \* per server, numeric -> user, for the users it knows
  dormant,  \* per server, the nicks of local connections not yet registered
  last_nn,  \* per server, where it looks for a free numeric next
  known,    \* per server, the servers it has a structure for, itself included
  status,   \* per server and peer, the state of the connection
  chan,     \* per sender and receiver, the messages in flight
  ops, connects, breaks

bounds == <<ops, connects, breaks>>
vars == <<tab, dormant, last_nn, known, status, chan, bounds>>
-----------------------------------------------------------------------------
Slots == 0..Capacity - 1
Numeric == Servers \X Slots
User == [nick : Nicks, ts : 1..MaxTs, host : Hosts]

Msg == [t : {"HELLO", "CLOSE"}]
         \cup [t : {"SERVER", "SQUIT"}, server : Servers]
         \cup [t : {"NICK"}, num : Numeric, user : User]
         \cup [t : {"CHANGE"}, num : Numeric, nick : Nicks, ts : 1..MaxTs]
         \cup [t : {"QUIT"}, num : Numeric]
         \cup [t : {"KILL"}, num : Numeric, from : Servers \cup Numeric]

M(t) == [t |-> t]
Server(x) == [t |-> "SERVER", server |-> x]
Squit(x) == [t |-> "SQUIT", server |-> x]
NewNick(num, u) == [t |-> "NICK", num |-> num, user |-> u]
Change(num, nick, ts) == [t |-> "CHANGE", num |-> num, nick |-> nick, ts |-> ts]
Quit(num) == [t |-> "QUIT", num |-> num]
Kill(from, num) == [t |-> "KILL", num |-> num, from |-> from]

Home(num) == num[1]
(* cli_from(num) at s is its link n. *)
Behind(s, n, num) == Home(num) # s /\ Via[s][Home(num)] = n
(* FindClient: the registered users of s that have the nick (at most one). *)
Holders(s, nick) == {num \in DOMAIN tab[s] : tab[s][num].nick = nick}
Links(s) == {p \in Servers : status[s][p] = "server"}
Without(f, S) == [x \in DOMAIN f \ S |-> f[x]]
With(f, x, v) == [y \in DOMAIN f \cup {x} |-> IF y = x THEN v ELSE f[y]]
(* The servers of the part of the tree that s reaches through x. *)
Beyond(s, x) == {y \in Servers \ {s} : y = x \/ Via[x][y] # Via[x][s]}

Silent == [p \in Servers |-> <<>>]
To(n, q) == [Silent EXCEPT ![n] = q]
(* sendcmdto_serv_butone: every established link but those of the set. *)
ToAllBut(s, S, q) == [p \in Servers |-> IF p \in Links(s) \ S THEN q ELSE <<>>]
(* o1, then o2. *)
Then(o1, o2) == [p \in Servers |-> o1[p] \o o2[p]]
-----------------------------------------------------------------------------
(* s reads the first message of n and writes o. *)
Handle(s, n, o) ==
  chan' = [a \in Servers |-> [b \in Servers |->
    IF a = n /\ b = s THEN Tail(chan[n][s])
    ELSE IF a = s /\ status[b][s] # "none" THEN chan[s][b] \o o[b]
    ELSE chan[a][b]]]

(* s writes o of its own accord. *)
Write(s, o) ==
  chan' = [chan EXCEPT ![s] =
    [b \in Servers |-> IF status[b][s] # "none" THEN @[b] \o o[b] ELSE @[b]]]

SetTab(s, f) == tab' = [tab EXCEPT ![s] = f]

Ignore(s, n) == Handle(s, n, Silent) /\ UNCHANGED <<tab, dormant, last_nn, known, status, bounds>>
-----------------------------------------------------------------------------
(* Local users.                                                            *)

Op == ops < MaxOps /\ ops' = ops + 1

(* m_nick of a connection that is not yet registered: a nick that a        *)
(* registered user has is refused, a dormant one is taken over.            *)
m_nick_first(s, nick) ==
  /\ Op
  /\ Holders(s, nick) = {}
  /\ nick \notin dormant[s]
  /\ dormant' = [dormant EXCEPT ![s] = @ \cup {nick}]
  /\ UNCHANGED <<tab, last_nn, known, status, chan, connects, breaks>>

(* A connection that leaves before it is registered. *)
exit_unregistered(s, nick) ==
  /\ nick \in dormant[s]
  /\ dormant' = [dormant EXCEPT ![s] = @ \ {nick}]
  /\ UNCHANGED <<tab, last_nn, known, status, chan, bounds>>

(* SetLocalNumNick: the first free slot, from last_nn on and around. *)
Turn(s, slot) == (slot + Capacity - last_nn[s]) % Capacity
SetLocalNumNick(s, slot) ==
  /\ <<s, slot>> \notin DOMAIN tab[s]
  /\ \A other \in Slots : Turn(s, other) < Turn(s, slot) => <<s, other>> \in DOMAIN tab[s]
  /\ last_nn' = [last_nn EXCEPT ![s] = (slot + 1) % Capacity]

(* register_user of a local connection: NICK to all links. *)
register_user(s, slot, u) ==
  /\ u.nick \in dormant[s]
  /\ SetLocalNumNick(s, slot)
  /\ dormant' = [dormant EXCEPT ![s] = @ \ {u.nick}]
  /\ SetTab(s, With(tab[s], <<s, slot>>, u))
  /\ Write(s, ToAllBut(s, {}, <<NewNick(<<s, slot>>, u)>>))
  /\ UNCHANGED <<known, status, bounds>>

(* set_nick_name of a local user: its record with the new nick. *)
NewName(s, num, nick, ts) == [nick |-> nick, ts |-> ts, host |-> tab[s][num].host]

(* m_nick of a registered user. *)
m_nick(s, num, nick, ts) ==
  /\ Op
  /\ num \in DOMAIN tab[s] /\ Home(num) = s
  /\ Holders(s, nick) = {}
  /\ dormant' = [dormant EXCEPT ![s] = @ \ {nick}]
  /\ SetTab(s, [tab[s] EXCEPT ![num] = NewName(s, num, nick, ts)])
  /\ Write(s, ToAllBut(s, {}, <<Change(num, nick, ts)>>))
  /\ UNCHANGED <<last_nn, known, status, connects, breaks>>

(* exit_client of a local user. *)
m_quit(s, num) ==
  /\ num \in DOMAIN tab[s] /\ Home(num) = s
  /\ SetTab(s, Without(tab[s], {num}))
  /\ Write(s, ToAllBut(s, {}, <<Quit(num)>>))
  /\ UNCHANGED <<dormant, last_nn, known, status, bounds>>

(* mo_kill of operator num: a local victim just quits, for a remote one    *)
(* the KILL goes to all links.                                             *)
mo_kill(s, num, victim) ==
  /\ Op
  /\ num \in DOMAIN tab[s] /\ Home(num) = s
  /\ victim \in DOMAIN tab[s]
  /\ SetTab(s, Without(tab[s], {victim}))
  /\ Write(s, ToAllBut(s, {}, <<IF Home(victim) = s THEN Quit(victim)
                                                   ELSE Kill(num, victim)>>))
  /\ UNCHANGED <<dormant, last_nn, known, status, connects, breaks>>

(* GHOST, and NICK with "!": the holder of the nick is killed.  The KILL   *)
(* is not sent towards the victim, and its QUIT goes to every link.        *)
GhostKill(s, victim) ==
  Then(ToAllBut(s, IF Home(victim) = s THEN {} ELSE {Via[s][Home(victim)]},
                <<Kill(s, victim)>>),
       ToAllBut(s, {}, <<Quit(victim)>>))

m_ghost(s, num, victim) ==
  /\ Ghosting /\ Op
  /\ num \in DOMAIN tab[s] /\ Home(num) = s
  /\ victim \in DOMAIN tab[s] /\ victim # num
  /\ SetTab(s, Without(tab[s], {victim}))
  /\ Write(s, GhostKill(s, victim))
  /\ UNCHANGED <<dormant, last_nn, known, status, connects, breaks>>

(* m_nick with "!" of a connection that is not yet registered. *)
m_nick_first_ghost(s, nick) ==
  /\ Ghosting /\ Op
  /\ \E victim \in Holders(s, nick) :
       /\ SetTab(s, Without(tab[s], {victim}))
       /\ Write(s, GhostKill(s, victim))
  /\ dormant' = [dormant EXCEPT ![s] = @ \cup {nick}]
  /\ UNCHANGED <<last_nn, known, status, connects, breaks>>

(* Mutant: the released user is sent a KILL and is not exited. *)
GhostIsNotExited(s, num, nick, ts) ==
  /\ Ghosting /\ Op
  /\ num \in DOMAIN tab[s] /\ Home(num) = s
  /\ \E victim \in Holders(s, nick) \ {num} :
       /\ SetTab(s, [tab[s] EXCEPT ![num] = NewName(s, num, nick, ts)])
       /\ Write(s, Then(GhostKill(s, victim),
                        ToAllBut(s, {}, <<Change(num, nick, ts)>>)))
  /\ UNCHANGED <<dormant, last_nn, known, status, connects, breaks>>
(* m_nick with "!" of a registered user. *)
m_nick_ghost(s, num, nick, ts) ==
  /\ Ghosting /\ Op
  /\ num \in DOMAIN tab[s] /\ Home(num) = s
  /\ \E victim \in Holders(s, nick) \ {num} :
       /\ SetTab(s, Without([tab[s] EXCEPT ![num] = NewName(s, num, nick, ts)], {victim}))
       /\ Write(s, Then(GhostKill(s, victim),
                        ToAllBut(s, {}, <<Change(num, nick, ts)>>)))
  /\ UNCHANGED <<dormant, last_nn, known, status, connects, breaks>>
-----------------------------------------------------------------------------
(* What a NICK of user u meets at s: the holder of the nick, and which of  *)
(* the two is killed.  Different user@host: the younger; the same: the     *)
(* older; equal timestamps: both.                                          *)
KillsNew(old, ts, differ) == IF differ THEN ts >= old.ts ELSE ts <= old.ts
KillsOld(old, ts, differ) == ~KillsNew(old, ts, differ) \/ ts = old.ts

(* The KILL of a user that s has not taken in, to where it came from. *)
KillBack(s, n, num) == To(n, <<Kill(s, num)>>)

(* Mutant: lastnick is set for local users only. *)
RenameKeepsTs(f, num, nick, ts) ==
  [f EXCEPT ![num] = [nick |-> nick, ts |-> f[num].ts, host |-> f[num].host]]
(* set_nick_name of a remote user that changes its nick. *)
Rename(f, num, nick, ts) ==
  [f EXCEPT ![num] = [nick |-> nick, ts |-> ts, host |-> f[num].host]]

(* Mutant: the QUIT of the ghost is relayed, the NICK is not. *)
IntroduceHere(s, n, num, u, f, o) ==
  /\ SetTab(s, With(f, num, u))
  /\ Handle(s, n, Then(o, ToAllBut(s, {n}, IF num \in DOMAIN f THEN <<Quit(num)>> ELSE <<>>)))
(* SetRemoteNumNick and register_user: the user that had the numeric is a  *)
(* ghost and is exited; the NICK is relayed.                               *)
Introduce(s, n, num, u, f, o) ==
  LET ghost == num \in DOMAIN f
  IN /\ SetTab(s, With(f, num, u))
     /\ Handle(s, n,
          Then(o, ToAllBut(s, {n}, (IF ghost THEN <<Quit(num)>> ELSE <<>>)
                                     \o <<NewNick(num, u)>>)))

(* register_user when IPcheck can count no more users of that address: the *)
(* user is exited before it counts as one, and only its side hears of it.  *)
Refuse(s, n, num, f, o) ==
  /\ SetTab(s, Without(f, {num}))
  /\ Handle(s, n, Then(o, Then(ToAllBut(s, {n}, IF num \in DOMAIN f THEN <<Quit(num)>> ELSE <<>>),
                               KillBack(s, n, num))))
Admit(s, n, num, u, f, o) ==
  \/ Introduce(s, n, num, u, f, o) /\ UNCHANGED ops
  \/ Refuse(s, n, num, f, o) /\ Op

(* ms_nick from a server: a new user.  The servers agree on what a nick is *)
(* (do_nick_name), so the KILL of a bad one is not met.                    *)
ms_nick_new(s, n, num, u) ==
  \/ /\ ~(Home(num) \in known[s] /\ Behind(s, n, num))
     /\ Ignore(s, n)
  \/ /\ Home(num) \in known[s] /\ Behind(s, n, num)
     /\ dormant' = [dormant EXCEPT ![s] = @ \ {u.nick}]
     /\ \/ /\ Holders(s, u.nick) = {}
           /\ Admit(s, n, num, u, tab[s], Silent)
        \/ \E h \in Holders(s, u.nick) :
             LET old     == tab[s][h]
                 differ  == old.host # u.host
                 back    == IF KillsNew(old, u.ts, differ) THEN KillBack(s, n, num) ELSE Silent
                 all     == IF KillsOld(old, u.ts, differ)
                              THEN ToAllBut(s, {}, <<Kill(s, h)>>) ELSE Silent
                 rest    == IF KillsOld(old, u.ts, differ) THEN Without(tab[s], {h})
                                                           ELSE tab[s]
             IN IF KillsNew(old, u.ts, differ)
                  THEN SetTab(s, rest) /\ Handle(s, n, Then(back, all)) /\ UNCHANGED ops
                  ELSE Admit(s, n, num, u, rest, all)
     /\ UNCHANGED <<last_nn, known, status, connects, breaks>>

(* ms_nick from a user: a change of nick.  An unknown user is killed back  *)
(* if its server is known.                                                 *)
ms_nick_change(s, n, num, nick, ts) ==
  \/ /\ num \notin DOMAIN tab[s]
     /\ Handle(s, n, IF Home(num) \in known[s] /\ Behind(s, n, num)
                       THEN KillBack(s, n, num) ELSE Silent)
     /\ UNCHANGED <<tab, dormant, last_nn, known, status, bounds>>
  \/ /\ num \in DOMAIN tab[s]
     /\ ~Behind(s, n, num) \/ num \in Holders(s, nick)
     /\ Ignore(s, n)
  \/ /\ num \in DOMAIN tab[s] /\ Behind(s, n, num)
     /\ num \notin Holders(s, nick)
     /\ dormant' = [dormant EXCEPT ![s] = @ \ {nick}]
     /\ LET changed == Rename(tab[s], num, nick, ts)
            relay   == ToAllBut(s, {n}, <<Change(num, nick, ts)>>)
        IN \/ /\ Holders(s, nick) = {}
              /\ SetTab(s, changed)
              /\ Handle(s, n, relay)
           \/ \E h \in Holders(s, nick) :
                LET old    == tab[s][h]
                    differ == old.host # tab[s][num].host
                    new    == KillsNew(old, ts, differ)
                    killed == (IF new THEN {num} ELSE {})
                                \cup (IF KillsOld(old, ts, differ) THEN {h} ELSE {})
                    kills  == (IF new THEN <<Kill(s, num)>> ELSE <<>>)
                                \o (IF h \in killed THEN <<Kill(s, h)>> ELSE <<>>)
                IN /\ SetTab(s, Without(changed, killed))
                   /\ Handle(s, n, Then(ToAllBut(s, {}, kills),
                                        IF new THEN Silent ELSE relay))
     /\ UNCHANGED <<last_nn, known, status, bounds>>

(* The prefix x, a server or a user, is known and behind link n. *)
Comes(s, n, x) == \/ x \in known[s] /\ Via[s][x] = n
                  \/ x \in DOMAIN tab[s] /\ Behind(s, n, x)

(* Mutant: a KILL of an unknown user is bounced. *)
BounceUnknown(s, n, from, num) ==
  LET source == IF from \in known[s] \cup DOMAIN tab[s] THEN from ELSE n
  IN \/ /\ ~Comes(s, n, source)
        /\ Ignore(s, n)
     \/ /\ Comes(s, n, source)
        /\ SetTab(s, Without(tab[s], {num}))
        /\ Handle(s, n, Then(To(n, <<Kill(s, num)>>), ToAllBut(s, {n}, <<Kill(source, num)>>)))
        /\ UNCHANGED <<dormant, last_nn, known, status, bounds>>
(* ms_kill: relayed to the other links; the server of the victim bounces   *)
(* it to where it came from.  A KILL with an unknown prefix is taken for   *)
(* one of the link (parse_server).                                         *)
ms_kill(s, n, from, num) ==
  LET source == IF from \in known[s] \cup DOMAIN tab[s] THEN from ELSE n
  IN \/ /\ ~Comes(s, n, source) \/ num \notin DOMAIN tab[s]
        /\ Ignore(s, n)
     \/ /\ Comes(s, n, source) /\ num \in DOMAIN tab[s]
        /\ SetTab(s, Without(tab[s], {num}))
        /\ Handle(s, n, Then(IF Home(num) = s THEN To(n, <<Kill(s, num)>>) ELSE Silent,
                             ToAllBut(s, {n}, <<Kill(source, num)>>)))
        /\ UNCHANGED <<dormant, last_nn, known, status, bounds>>

ms_quit(s, n, num) ==
  \/ /\ num \notin DOMAIN tab[s] \/ ~Behind(s, n, num)
     /\ Ignore(s, n)
  \/ /\ num \in DOMAIN tab[s] /\ Behind(s, n, num)
     /\ SetTab(s, Without(tab[s], {num}))
     /\ Handle(s, n, ToAllBut(s, {n}, <<Quit(num)>>))
     /\ UNCHANGED <<dormant, last_nn, known, status, bounds>>
-----------------------------------------------------------------------------
(* Servers.                                                                *)

(* completed_connection: the connecting side introduces itself. *)
Connect(a, b) ==
  /\ connects < MaxConnects
  /\ a # b /\ Via[a][b] = b
  /\ status[a][b] = "none" /\ status[b][a] = "none"
  /\ status' = [status EXCEPT ![a][b] = "handshake", ![b][a] = "unknown"]
  /\ chan' = [chan EXCEPT ![a][b] = <<M("HELLO")>>, ![b][a] = <<>>]
  /\ connects' = connects + 1
  /\ UNCHANGED <<tab, dormant, last_nn, known, ops, breaks>>

(* Some order of the elements of a finite set: the order of a list. *)
Listing(S) == CHOOSE q \in [1..Cardinality(S) -> S] : \A i, j \in DOMAIN q : i # j => q[i] # q[j]

(* server_estab: all servers, then all users that are not behind n. *)
Burst(s, n) ==
  LET ss == Listing(known[s] \ {s, n})
      us == Listing(DOMAIN tab[s])
  IN [i \in 1..Len(ss) |-> Server(ss[i])]
       \o [i \in 1..Len(us) |-> NewNick(us[i], tab[s][us[i]])]

server_estab(s, n) ==
  /\ status' = [status EXCEPT ![s][n] = "server"]
  /\ known' = [known EXCEPT ![s] = @ \cup {n}]
  /\ Handle(s, n,
       Then(To(n, (IF status[s][n] = "unknown" THEN <<M("HELLO")>> ELSE <<>>) \o Burst(s, n)),
            ToAllBut(s, {n}, <<Server(n)>>)))
  /\ UNCHANGED <<tab, dormant, last_nn, bounds>>

ms_server(s, n, x) ==
  /\ known' = [known EXCEPT ![s] = @ \cup {x}]
  /\ Handle(s, n, ToAllBut(s, {n}, <<Server(x)>>))
  /\ UNCHANGED <<tab, dormant, last_nn, status, bounds>>

(* Mutant: exit_downlinks forgets the users of the servers behind x. *)
ExitServerKeepsUsers(s, x) ==
  /\ known' = [known EXCEPT ![s] = @ \ Beyond(s, x)]
  /\ SetTab(s, Without(tab[s], {num \in DOMAIN tab[s] : Home(num) = x}))
(* exit_client of server x, with the servers and users behind it. *)
ExitServer(s, x) ==
  /\ known' = [known EXCEPT ![s] = @ \ Beyond(s, x)]
  /\ SetTab(s, Without(tab[s], {num \in DOMAIN tab[s] : Home(num) \in Beyond(s, x)}))

ms_squit(s, n, x) ==
  \/ x \notin known[s] /\ Ignore(s, n)
  \/ /\ x \in known[s]
     /\ ExitServer(s, x)
     /\ Handle(s, n, ToAllBut(s, {n}, <<Squit(x)>>))
     /\ UNCHANGED <<dormant, last_nn, status, bounds>>

(* The peer closed the connection. *)
peer_closed(s, n) ==
  /\ status' = [status EXCEPT ![s][n] = "none"]
  /\ IF status[s][n] = "server"
       THEN ExitServer(s, n) /\ Handle(s, n, ToAllBut(s, {n}, <<Squit(n)>>))
       ELSE Handle(s, n, Silent) /\ UNCHANGED <<known, tab>>
  /\ UNCHANGED <<dormant, last_nn, bounds>>

(* s closes its link to n: a ping timeout, a SQUIT of an operator. *)
Break(s, n) ==
  /\ breaks < MaxBreaks /\ breaks' = breaks + 1
  /\ status[s][n] = "server"
  /\ status' = [status EXCEPT ![s][n] = "none"]
  /\ ExitServer(s, n)
  /\ chan' = [a \in Servers |-> [b \in Servers |->
       IF a = n /\ b = s THEN <<>>
       ELSE IF a = s /\ status[b][s] # "none"
              THEN chan[s][b] \o (IF b = n THEN <<M("CLOSE")>>
                                  ELSE IF b \in Links(s) THEN <<Squit(n)>> ELSE <<>>)
       ELSE chan[a][b]]]
  /\ UNCHANGED <<dormant, last_nn, ops, connects>>
-----------------------------------------------------------------------------
Init ==
  /\ tab = [s \in Servers |-> [num \in {} |-> 0]]
  /\ dormant = [s \in Servers |-> {}]
  /\ last_nn = [s \in Servers |-> 0]
  /\ known = [s \in Servers |-> {s}]
  /\ status = [s \in Servers |-> [p \in Servers |-> "none"]]
  /\ chan = [s \in Servers |-> [p \in Servers |-> <<>>]]
  /\ ops = 0 /\ connects = 0 /\ breaks = 0

(* s handles the next message of n. *)
Receive(s, n) ==
  /\ status[s][n] # "none"
  /\ chan[n][s] # <<>>
  /\ LET m == Head(chan[n][s]) IN
       \/ m.t = "HELLO" /\ server_estab(s, n)
       \/ m.t = "CLOSE" /\ peer_closed(s, n)
       \/ m.t = "SERVER" /\ ms_server(s, n, m.server)
       \/ m.t = "SQUIT" /\ ms_squit(s, n, m.server)
       \/ m.t = "NICK" /\ ms_nick_new(s, n, m.num, m.user)
       \/ m.t = "CHANGE" /\ ms_nick_change(s, n, m.num, m.nick, m.ts)
       \/ m.t = "QUIT" /\ ms_quit(s, n, m.num)
       \/ m.t = "KILL" /\ ms_kill(s, n, m.from, m.num)

Local(s) ==
  \/ \E nick \in Nicks : m_nick_first(s, nick)
  \/ \E slot \in Slots, u \in User : register_user(s, slot, u)
  \/ \E num \in Numeric, nick \in Nicks, ts \in 1..MaxTs : m_nick(s, num, nick, ts)
  \/ \E num \in Numeric : m_quit(s, num)
  \/ \E nick \in Nicks : exit_unregistered(s, nick)
  \/ \E num, victim \in Numeric : mo_kill(s, num, victim) \/ m_ghost(s, num, victim)
  \/ \E nick \in Nicks : m_nick_first_ghost(s, nick)
  \/ \E num \in Numeric, nick \in Nicks, ts \in 1..MaxTs : m_nick_ghost(s, num, nick, ts)

Next ==
  \/ \E s \in Servers : Local(s)
  \/ \E s, n \in Servers : Receive(s, n) \/ Connect(s, n) \/ Break(s, n)

Spec == Init /\ [][Next]_vars

(* The event loop reads every socket that has something to read. *)
FairSpec == Spec /\ \A s, n \in Servers : WF_vars(Receive(s, n))
-----------------------------------------------------------------------------
(* Properties.                                                             *)

(* Every variable has its type. *)
TypeOK ==
  /\ DOMAIN tab = Servers
  /\ \A s \in Servers : DOMAIN tab[s] \subseteq Numeric /\ tab[s] \in [DOMAIN tab[s] -> User]
  /\ dormant \in [Servers -> SUBSET Nicks]
  /\ last_nn \in [Servers -> Slots]
  /\ known \in [Servers -> SUBSET Servers]
  /\ status \in [Servers -> [Servers -> {"none", "unknown", "handshake", "server"}]]
  /\ chan \in [Servers -> [Servers -> Seq(Msg)]]
  /\ ops \in 0..MaxOps /\ connects \in 0..MaxConnects /\ breaks \in 0..MaxBreaks

(* A nick names one client of a server, registered or not: the client hash *)
(* never holds a nick twice, whatever collisions and kills cross.          *)
NickIsUnique ==
  \A s \in Servers : \A num \in DOMAIN tab[s] :
    /\ tab[s][num].nick \notin dormant[s]
    /\ \A other \in DOMAIN tab[s] \ {num} : tab[s][other].nick # tab[s][num].nick

(* A user is known only where its server is. *)
NoOrphan == \A s \in Servers : \A num \in DOMAIN tab[s] : Home(num) \in known[s]

Quiet == \A s, n \in Servers : chan[s][n] = <<>>

(* When no message is in flight, two linked servers know the same users,   *)
(* with the same nicks and timestamps: every collision was settled the     *)
(* same way on both sides and nobody is left as a ghost.                   *)
QuietMeansAgreed ==
  Quiet => \A s, n \in Servers : status[s][n] = "server" => tab[s] = tab[n]

(* KILLs, bounced KILLs and QUITs end: the links fall quiet again and      *)
(* again.                                                                  *)
Drains == []<>Quiet

(* m_nick.c:293: a release "propagates the KILL by the network", so on     *)
(* quiet links a user that its own server still has was not released and   *)
(* is known to the linked servers.                                         *)
ReleaseReachesHome ==
  Quiet => \A s, n \in Servers : status[s][n] = "server" =>
             {num \in DOMAIN tab[n] : Home(num) = n} \subseteq DOMAIN tab[s]
=============================================================================
