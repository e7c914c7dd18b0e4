------------------------------- MODULE Gline --------------------------------
(***************************************************************************)
(* Network-wide bans: gline.c, m_gline.c, the burst flags of m_endburst.c  *)
(* and server_estab, gline_lookup as conf_check_client uses it.            *)
(*                                                                         *)
(* One mask is followed on every server: its global G-line, its local      *)
(* G-line and a local user that it matches.  A global G-line is a record   *)
(* that outlives its expiration, so that changes can be ordered by         *)
(* lastmod; a server with a newer record answers an older change with its  *)
(* own.  Expirations travel as remaining seconds, lifetimes as timestamps. *)
(* The servers share one clock (SETTIME keeps TStime together).            *)
(***************************************************************************)
EXTENDS Integers, Sequences

CONSTANTS
  Servers,
  Via,          \* Via[s][x]: the neighbour of s on the path to x; Via[s][s] = s
  Opers,        \* the servers whose operators set G-lines
  Services,     \* the servers to which network services are linked
  Homes,        \* the servers where a user that matches the mask may sign on
  Targets,      \* the servers that are the target of G-line commands for one server
  Reasons,
  None,         \* no record, or a parameter that was not given
  Terms,        \* the numbers of seconds that operators give
  LongTerms,    \* those that services give, which are not limited
  MaxExpire,    \* GLINE_MAX_EXPIRE
  OneMonth,     \* ONE_MONTH
  Start,        \* the clock at the beginning
  MaxNow,       \* bound: the clock
  MaxOps,       \* bound: commands of operators and services
  MaxConnects,  \* bound: link attempts
  Fragile,      \* bound: <<s, n>> when s may close its link to n and connect to n
  MaxBreaks     \* bound: links that break

(* struct Gline: gl_flags & GLINE_ACTIVE, gl_state and the rest. *)
Record == [active : BOOLEAN, state : {"global", "on", "off"}, expire : Int, lastmod : Nat,
           lifetime : Int, reason : Reasons]

ASSUME GlineAssumption ==
  /\ Via \in [Servers -> [Servers -> Servers]]
  /\ \A s \in Servers : Via[s][s] = s
  /\ Opers \subseteq Servers /\ Services \subseteq Servers
  /\ Homes \subseteq Servers /\ Targets \subseteq Servers
  /\ Reasons # {} /\ None \notin Reasons /\ None \notin Record /\ None \notin Servers
  /\ Terms \subseteq Int /\ LongTerms \subseteq Int
  /\ MaxExpire \in Nat /\ OneMonth \in Nat
  /\ Start \in Nat \ {0, 1} /\ MaxNow \in Nat
  /\ Fragile \subseteq {e \in Servers \X Servers : e[1] # e[2]}
  /\ MaxOps \in Nat /\ MaxConnects \in Nat /\ MaxBreaks \in Nat

VARIABLES
  gl,      \* per server, its global G-line of the mask
  lgl,     \* per server, when its local G-line of the mask ends; 0: there is none
  user,    \* per server, whether a local user that matches is on
  now,     \* TStime()
  status,  \* per server and peer, the state of the connection
  chan,    \* per sender and receiver, the messages in flight
  author,  \* history: the first server that changed the G-line
  clean,   \* history: see QuietMeansAgreed
  ops, connects, breaks

bounds == <<ops, connects, breaks>>
history == <<author, clean>>
vars == <<gl, lgl, user, now, status, chan, history, bounds>>
-----------------------------------------------------------------------------
Max(a, b) == IF a > b THEN a ELSE b

GlineIsActive(g) == (g.active /\ g.state # "off") \/ g.state = "on"

(* gliter: what is left of a record when it is next looked at. *)
gliter(g) ==
  IF g = None \/ g.lifetime <= now \/ (g.expire < now - OneMonth /\ g.lastmod < now - OneMonth)
    THEN None
  ELSE IF g.expire > now THEN g
  ELSE [g EXCEPT !.active = FALSE, !.state = "global"]

(* gline_find, for the global and for the local G-line of the mask. *)
gline_find(s) == gliter(gl[s])
LocalFound(s) == lgl[s] > now

(* gline_lookup: an active G-line of either kind that matches the user. *)
gline_lookup(s) ==
  LocalFound(s) \/ (gline_find(s) # None /\ GlineIsActive(gline_find(s)))
-----------------------------------------------------------------------------
M(t) == [t |-> t]
(* %Tu and atoi: a negative number of seconds arrives as -1. *)
Remaining(e) == Max(e - now, -1)
Full(op, g, force) ==
  [t |-> "GL", op |-> op, rel |-> Remaining(g.expire), lastmod |-> g.lastmod,
   lifetime |-> g.lifetime, reason |-> g.reason, force |-> force]
Short(op, lastmod, force) == [t |-> "SHORT", op |-> op, lastmod |-> lastmod, force |-> force]
ForOne(target, op, rel) == [t |-> "ONE", target |-> target, op |-> op, rel |-> rel]
(* Mutant: the state on this server is sent for the network's. *)
SignOfLocal(g) == IF GlineIsActive(g) THEN "+" ELSE "-"
(* GlineIsRemActive *)
Sign(g) == IF g.active THEN "+" ELSE "-"

Linked == {"burst", "ack", "server"}
IsBurstOrBurstAck(s, n) == status[s][n] \in {"burst", "ack"}

Silent == [p \in Servers |-> <<>>]
To(n, q) == [Silent EXCEPT ![n] = q]
(* sendcmdto_serv_butone *)
ToAllBut(s, n, q) ==
  [p \in Servers |-> IF status[s][p] \in Linked /\ p # n THEN q ELSE <<>>]

(* s has read the first message of n, or (n = s) a command of a local      *)
(* client, and writes o; what is written to a closed connection is lost.   *)
Emit(s, n, o) ==
  chan' = [a \in Servers |-> [b \in Servers |->
    IF a = n /\ b = s /\ n # s THEN Tail(chan[n][s])
    ELSE IF a = s /\ status[b][s] # "none" THEN chan[s][b] \o o[b]
    ELSE chan[a][b]]]

SetGline(s, g) == gl' = [gl EXCEPT ![s] = g]

(* Mutant: the network's view of the G-line decides, not the server's own. *)
RemActiveDecides(s, g) == user' = [user EXCEPT ![s] = @ /\ ~g.active]
(* do_gline: local users that match an active G-line are disconnected. *)
do_gline(s, g) == user' = [user EXCEPT ![s] = @ /\ ~GlineIsActive(g)]

(* Nothing is done but what looking the record up has done. *)
Ignored(s, n) == SetGline(s, gline_find(s)) /\ Emit(s, n, Silent) /\ UNCHANGED <<user, lgl>>
-----------------------------------------------------------------------------
(* A change p: act is "+", "-", ">", "<" or "modify" (GLINE_MODIFY),       *)
(* expire and lifetime are 0 and reason None when they were not given, force says     *)
(* that a server is the source.                                            *)

BadExpire(p) == ~p.force /\ (p.expire <= now \/ p.expire > now + MaxExpire)

(* gline_add of a global G-line. *)
gline_add(s, n, p) ==
  \/ BadExpire(p) /\ Ignored(s, n)
  \/ /\ ~BadExpire(p)
     /\ LET g == [active |-> p.act = "+" /\ p.expire > now, state |-> "global",
                  expire |-> p.expire, lastmod |-> p.lastmod,
                  lifetime |-> IF p.lifetime = 0 THEN p.expire ELSE p.lifetime,
                  reason |-> p.reason]
        IN /\ SetGline(s, g)
           /\ Emit(s, n, ToAllBut(s, n, <<Full(Sign(g), g, p.force)>>))
           /\ do_gline(s, g)
     /\ UNCHANGED lgl

IsLocalAct(act) == act \in {">", "<"}

(* What gline_modify makes of the parts of a change to g. *)
NewExpire(g, p) == IF p.expire = g.expire THEN 0 ELSE p.expire
NewLifetime(g, p) == Max(Max(p.lifetime, g.lifetime), NewExpire(g, p))
NewReason(g, p) == IF p.reason = None THEN g.reason ELSE p.reason
NewAction(g, p) ==
  IF \/ p.act = "+" /\ g.active
     \/ p.act = "-" /\ ~g.active
     \/ p.act = ">" /\ g.state = "on"
     \/ p.act = "<" /\ g.state = "off"
     \/ Max(g.expire, NewExpire(g, p)) <= now
    THEN "modify" ELSE p.act
Changes(g, p) ==
  \/ NewAction(g, p) # "modify" \/ NewExpire(g, p) # 0
  \/ NewLifetime(g, p) > g.lifetime \/ NewReason(g, p) # g.reason

(* Mutant: an update resets the local state. *)
ModifiedForgetsLocal(g, p) ==
  [active |-> IF NewAction(g, p) \in {"+", "-"} THEN p.act = "+" ELSE g.active,
   state |-> CASE NewAction(g, p) = ">" -> "on" [] NewAction(g, p) = "<" -> "off"
               [] OTHER -> "global",
   expire |-> IF NewExpire(g, p) = 0 THEN g.expire ELSE p.expire,
   lastmod |-> IF IsLocalAct(p.act) THEN g.lastmod ELSE p.lastmod,
   lifetime |-> NewLifetime(g, p),
   reason |-> NewReason(g, p)]
Modified(g, p) ==
  [active |-> IF NewAction(g, p) \in {"+", "-"} THEN p.act = "+" ELSE g.active,
   state |-> CASE NewAction(g, p) = ">" -> "on" [] NewAction(g, p) = "<" -> "off"
               [] NewAction(g, p) = "modify" -> g.state [] OTHER -> "global",
   expire |-> IF NewExpire(g, p) = 0 THEN g.expire ELSE p.expire,
   lastmod |-> IF IsLocalAct(p.act) THEN g.lastmod ELSE p.lastmod,
   lifetime |-> NewLifetime(g, p),
   reason |-> NewReason(g, p)]

Older(g, p) == ~IsLocalAct(p.act) /\ g.lastmod > p.lastmod
(* Mutant: a change of the same second is accepted. *)
RefusedNotSame(g, p) == (p.expire # 0 /\ BadExpire(p)) \/ ~Changes(g, p)
Refused(g, p) ==
  \/ ~IsLocalAct(p.act) /\ g.lastmod = p.lastmod
  \/ p.expire # 0 /\ BadExpire(p)
  \/ ~Changes(g, p)

(* gline_resend: the newer record, unless a burst is under way. *)
gline_resend(s, n, g) ==
  /\ SetGline(s, g)
  /\ Emit(s, n, IF n # s /\ IsBurstOrBurstAck(s, n) THEN Silent
                ELSE To(n, <<Full(Sign(g), g, TRUE)>>))
  /\ UNCHANGED <<user, lgl>>

gline_modify(s, n, g, p) ==
  \/ Older(g, p) /\ gline_resend(s, n, g)
  \/ ~Older(g, p) /\ Refused(g, p) /\ Ignored(s, n)
  \/ /\ ~Older(g, p) /\ ~Refused(g, p)
     /\ LET h == Modified(g, p)
        IN /\ SetGline(s, h)
           /\ Emit(s, n, IF IsLocalAct(p.act) THEN Silent
                         ELSE ToAllBut(s, n, <<Full(NewAction(g, p), h, p.force)>>))
           /\ do_gline(s, h)
     /\ UNCHANGED lgl
-----------------------------------------------------------------------------
(* Local G-lines: gline_add and gline_destroy with GLINE_LOCAL. *)
local_add(s, n, expire) ==
  /\ SetGline(s, gline_find(s))
  /\ Emit(s, n, Silent)
  /\ IF LocalFound(s) \/ expire <= now \/ expire > now + MaxExpire
       THEN UNCHANGED <<lgl, user>>
       ELSE lgl' = [lgl EXCEPT ![s] = expire] /\ user' = [user EXCEPT ![s] = FALSE]

local_destroy(s, n) ==
  /\ lgl' = [lgl EXCEPT ![s] = 0]
  /\ SetGline(s, gline_find(s)) /\ Emit(s, n, Silent) /\ UNCHANGED user

(* A change that is meant for one server. *)
Single(s, n, op, expire) ==
  \/ op = "+" /\ local_add(s, n, expire)
  \/ op = "-" /\ local_destroy(s, n)
  \/ /\ op \in {">", "<"}
     /\ IF gline_find(s) = None THEN Ignored(s, n)
        ELSE gline_modify(s, n, gline_find(s),
               [act |-> op, expire |-> 0, lastmod |-> 0, lifetime |-> 0, reason |-> None,
                force |-> FALSE])
-----------------------------------------------------------------------------
(* m_gline.c.                                                              *)

(* ms_gline: GL * with all its parameters; a G-line that is not there      *)
(* cannot be modified and is activated.  ms_gline also reads a GL * that   *)
(* lacks the lifetime or the reason (m_gline.c:251-267).  No server sends  *)
(* one: gline_propagate, gline_modify, gline_burst and gline_resend give   *)
(* all parameters, and ms_gline itself passes on lastmod alone; services   *)
(* that leave them out are not modelled.                                   *)
ms_gline_full(s, n, m) ==
  LET p(act) == [act |-> act, expire |-> m.rel + now, lastmod |-> m.lastmod,
                 lifetime |-> m.lifetime, reason |-> m.reason, force |-> m.force]
  IN \/ gline_find(s) = None /\ gline_add(s, n, p(IF m.op = "modify" THEN "+" ELSE m.op))
     \/ gline_find(s) # None /\ gline_modify(s, n, gline_find(s), p(m.op))

(* ms_gline: GL * with lastmod only; passed on when the G-line is unknown. *)
ms_gline_short(s, n, m) ==
  \/ /\ gline_find(s) = None
     /\ SetGline(s, None)
     /\ Emit(s, n, ToAllBut(s, n, <<m>>))
     /\ UNCHANGED <<user, lgl>>
  \/ /\ gline_find(s) # None
     /\ gline_modify(s, n, gline_find(s),
          [act |-> m.op, expire |-> 0, lastmod |-> m.lastmod, lifetime |-> 0, reason |-> None,
           force |-> m.force])

(* ms_gline with a target: routed, or applied where it arrives. *)
ms_gline_one(s, n, m) ==
  \/ m.target = s /\ Single(s, n, m.op, m.rel + now)
  \/ /\ m.target # s
     /\ Emit(s, n, IF status[s][Via[s][m.target]] \in Linked
                     THEN To(Via[s][m.target], <<m>>) ELSE Silent)
     /\ UNCHANGED <<gl, lgl, user>>

Op == /\ ops < MaxOps /\ ops' = ops + 1
      /\ UNCHANGED <<now, status, connects, breaks>>

Authored(s) ==
  /\ author' = IF author = None THEN s ELSE author
  /\ clean' = (clean /\ author' = s)

(* GLINE <mask> * <expire> [<reason>] or GLINE +<mask> * [<expire> <reason>] *)
OperForm(act, term, reason) ==
  IF act = "modify" THEN term # None ELSE term = None <=> reason = None

(* mo_gline with target "*". *)
mo_gline(s, act, term, reason) ==
  LET p == [act |-> act, expire |-> IF term = None THEN 0 ELSE now + term, lastmod |-> now,
            lifetime |-> 0, reason |-> reason, force |-> FALSE]
  IN /\ s \in Opers /\ Op
     /\ OperForm(act, term, reason)
     /\ \/ gline_find(s) = None /\ act # "modify" /\ term # None /\ gline_add(s, s, p)
        \/ gline_find(s) # None /\ gline_modify(s, s, gline_find(s), p)
     /\ Authored(s)

(* mo_gline for one server, this one or another. *)
mo_gline_one(s, target, op, term) ==
  /\ s \in Opers /\ Op
  /\ \/ target = s /\ Single(s, s, op, now + term)
     \/ /\ target # s /\ status[s][Via[s][target]] \in Linked
        /\ Emit(s, s, To(Via[s][target], <<ForOne(target, op, Max(term, -1))>>))
        /\ UNCHANGED <<gl, lgl, user>>
  /\ UNCHANGED history

(* A GL of the network services, which are linked to s (external): with    *)
(* all parameters, or with lastmod only.                                   *)
services_full(s, act, term, reason) ==
  /\ s \in Services /\ Op
  /\ ms_gline_full(s, s, [t |-> "GL", op |-> act, rel |-> term, lastmod |-> now,
                          lifetime |-> now + Max(term, 1), reason |-> reason, force |-> TRUE])
  /\ Authored(s)

services_short(s, act) ==
  /\ s \in Services /\ Op
  /\ ms_gline_short(s, s, Short(act, now, TRUE))
  /\ clean' = FALSE /\ UNCHANGED author
-----------------------------------------------------------------------------
(* Users, links and time.                                                  *)

(* conf_check_client at registration. *)
register_user(s) ==
  /\ s \in Homes /\ ~user[s] /\ ~gline_lookup(s)
  /\ user' = [user EXCEPT ![s] = TRUE]
  /\ UNCHANGED <<gl, lgl, now, status, chan, history, bounds>>

m_quit(s) ==
  /\ user[s]
  /\ user' = [user EXCEPT ![s] = FALSE]
  /\ UNCHANGED <<gl, lgl, now, status, chan, history, bounds>>

Connect(a, b) ==
  /\ connects < MaxConnects
  /\ <<a, b>> \in Fragile /\ Via[a][b] = b
  /\ status[a][b] = "none" /\ status[b][a] = "none"
  /\ status' = [status EXCEPT ![a][b] = "handshake", ![b][a] = "unknown"]
  /\ chan' = [chan EXCEPT ![a][b] = <<M("HELLO")>>, ![b][a] = <<>>]
  /\ connects' = connects + 1
  /\ UNCHANGED <<gl, lgl, user, now, history, ops, breaks>>

(* gline_burst *)
gline_burst(s) ==
  LET g == gline_find(s) IN IF g = None THEN <<>> ELSE <<Full(Sign(g), g, TRUE)>>

server_estab(s, n) ==
  /\ status' = [status EXCEPT ![s][n] = "burst"]
  /\ SetGline(s, gline_find(s))
  /\ Emit(s, n, To(n, (IF status[s][n] = "unknown" THEN <<M("HELLO")>> ELSE <<>>)
                        \o gline_burst(s) \o <<M("EOB")>>))
  /\ UNCHANGED <<lgl, user>>

ms_end_of_burst(s, n) ==
  /\ status' = [status EXCEPT ![s][n] = "ack"]
  /\ Emit(s, n, To(n, <<M("EOB_ACK")>>))
  /\ UNCHANGED <<gl, lgl, user>>

ms_end_of_burst_ack(s, n) ==
  /\ status' = [status EXCEPT ![s][n] = IF @ = "ack" THEN "server" ELSE @]
  /\ Emit(s, n, Silent)
  /\ UNCHANGED <<gl, lgl, user>>

peer_closed(s, n) ==
  /\ status' = [status EXCEPT ![s][n] = "none"]
  /\ Emit(s, n, Silent)
  /\ UNCHANGED <<gl, lgl, user>>

Receive(s, n) ==
  /\ status[s][n] # "none"
  /\ chan[n][s] # <<>>
  /\ LET m == Head(chan[n][s]) IN
       \/ m.t = "HELLO" /\ server_estab(s, n)
       \/ m.t = "CLOSE" /\ peer_closed(s, n)
       \/ m.t = "EOB" /\ ms_end_of_burst(s, n)
       \/ m.t = "EOB_ACK" /\ ms_end_of_burst_ack(s, n)
       \/ m.t = "GL" /\ ms_gline_full(s, n, m) /\ UNCHANGED status
       \/ m.t = "SHORT" /\ ms_gline_short(s, n, m) /\ UNCHANGED status
       \/ m.t = "ONE" /\ ms_gline_one(s, n, m) /\ UNCHANGED status
  /\ UNCHANGED <<now, history, bounds>>

(* s closes its link to n. *)
Break(s, n) ==
  /\ <<s, n>> \in Fragile /\ breaks < MaxBreaks /\ breaks' = breaks + 1
  /\ status[s][n] \in Linked
  /\ status' = [status EXCEPT ![s][n] = "none"]
  /\ chan' = [chan EXCEPT ![n][s] = <<>>,
                          ![s][n] = IF status[n][s] = "none" THEN @ ELSE @ \o <<M("CLOSE")>>]
  /\ UNCHANGED <<gl, lgl, user, now, history, ops, connects>>

Quiet == \A s, n \in Servers : chan[s][n] = <<>>

Tick ==
  /\ now < MaxNow /\ now' = now + 1
  /\ clean' = (clean /\ Quiet)
  /\ UNCHANGED <<gl, lgl, user, status, chan, author, bounds>>

(* The network after its first bursts, before the mask is banned. *)
Init ==
  /\ gl = [s \in Servers |-> None]
  /\ lgl = [s \in Servers |-> 0]
  /\ user = [s \in Servers |-> FALSE]
  /\ now = Start
  /\ status = [s \in Servers |-> [p \in Servers |->
                 IF p # s /\ Via[s][p] = p THEN "server" ELSE "none"]]
  /\ chan = [s \in Servers |-> [p \in Servers |-> <<>>]]
  /\ author = None /\ clean = TRUE
  /\ ops = 0 /\ connects = 0 /\ breaks = 0

Commands(s) ==
  \/ \E act \in {"modify", "+", "-"}, term \in Terms \cup {None}, reason \in Reasons \cup {None} :
       mo_gline(s, act, term, reason)
  \/ \E target \in Targets, op \in {"+", "-", ">", "<"}, term \in Terms :
       mo_gline_one(s, target, op, term)
  \/ \E act \in {"modify", "+", "-"}, term \in LongTerms, reason \in Reasons :
       services_full(s, act, term, reason)
  \/ \E act \in {"+", "-"} : services_short(s, act)

Next ==
  \/ \E s \in Servers : Commands(s) \/ register_user(s) \/ m_quit(s)
  \/ \E s, n \in Servers : Receive(s, n) \/ Connect(s, n) \/ Break(s, n)
  \/ Tick

Spec == Init /\ [][Next]_vars
-----------------------------------------------------------------------------
(* Properties.                                                             *)

Msg == [t : {"HELLO", "CLOSE", "EOB", "EOB_ACK"}]
         \cup [t : {"GL"}, op : {"modify", "+", "-"}, rel : Int, lastmod : Nat, lifetime : Int,
               reason : Reasons, force : BOOLEAN]
         \cup [t : {"SHORT"}, op : {"+", "-"}, lastmod : Nat, force : BOOLEAN]
         \cup [t : {"ONE"}, target : Servers, op : {"+", "-", ">", "<"}, rel : Int]

(* Every variable has its type. *)
TypeOK ==
  /\ gl \in [Servers -> Record \cup {None}]
  /\ lgl \in [Servers -> Int]
  /\ user \in [Servers -> BOOLEAN]
  /\ now \in Nat /\ now >= Start
  /\ status \in [Servers -> [Servers -> {"none", "unknown", "handshake"} \cup Linked]]
  /\ chan \in [Servers -> [Servers -> Seq(Msg)]]
  /\ author \in Servers \cup {None} /\ clean \in BOOLEAN
  /\ ops \in 0..MaxOps /\ connects \in 0..MaxConnects /\ breaks \in 0..MaxBreaks

(* No user that an active G-line of its server matches stays on, whatever  *)
(* order global and local changes, bursts and expirations come in.         *)
BannedAreGone == \A s \in Servers : gline_lookup(s) => ~user[s]

(* readme.gline: lastmod is "a monotonically increasing serial number" and *)
(* lifetime "monotonically increasing": while a record lives (gliter would *)
(* not free it), an older or equal change never replaces what a newer one  *)
(* said.                                                                   *)
LastmodGrows ==
  [][\A s \in Servers : gline_find(s) # None /\ gl'[s] # None =>
       /\ gl'[s].lastmod >= gl[s].lastmod
       /\ gl'[s].lifetime >= gl[s].lifetime
       /\ gl'[s].lastmod = gl[s].lastmod =>
            /\ gl'[s].expire = gl[s].expire /\ gl'[s].reason = gl[s].reason
            /\ gl'[s].active = gl[s].active \/ gl[s].expire <= now]_vars

(* readme.gline: the local state of a G-line "persists until there is a    *)
(* global state change to the G-line, or until the G-line expires".        *)
LocalStateHolds ==
  [][\A s \in Servers :
       gl[s] # None /\ gl[s].state # "global" /\ gl[s].expire > now /\ gl[s].lifetime > now =>
         gl'[s] # None /\ (gl'[s].state # "global" \/ gl'[s].active # gl[s].active)]_vars

(* What servers agree on: the G-line as long as it runs. *)
Content(s) ==
  LET g == gline_find(s)
  IN IF g = None \/ g.expire <= now THEN None
     ELSE [active |-> g.active, expire |-> g.expire, reason |-> g.reason]

(* When no message is in flight, linked servers have the same G-line: the  *)
(* newest change won everywhere, across splits and bursts.  Only as long   *)
(* as messages arrive within the second, all changes come from one server  *)
(* and none uses the short form: see the hazards for what else may happen. *)
QuietMeansAgreed ==
  Quiet /\ clean => \A s, n \in Servers : status[s][n] \in Linked => Content(s) = Content(n)
=============================================================================
