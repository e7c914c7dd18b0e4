----------------------------- MODULE UpingProofs -----------------------------
(***************************************************************************)
(* Pings are owned (uping.c), for any number of operators, pings and       *)
(* packets.                                                                *)
(*                                                                         *)
(* The invariant that is proved says what a ping on the list still waits   *)
(* for: its socket and its killer always, its sender until the last packet *)
(* was sent.  Whichever callback then ends the ping, two facts about the   *)
(* three tests of uping_end give the rest: the event of the callback that  *)
(* runs is the only one left at its end, and it frees the ping; without a  *)
(* callback the last of the three frees it.                                *)
(***************************************************************************)
EXTENDS Uping, FiniteSetTheorems, TLAPS

Ping == [client : Clients, sent : Nat, got : Nat, count : Counts, pend : SUBSET {"socket", "sender", "killer"}]
Types ==
  /\ DOMAIN ping \subseteq Pings
  /\ ping = [p \in DOMAIN ping |-> ping[p]]
  /\ \A p \in DOMAIN ping : ping[p] \in Ping
  /\ flagged \subseteq Clients
Waits == \A p \in DOMAIN ping : {"socket", "killer"} \subseteq ping[p].pend
Owned == \A p \in DOMAIN ping : ping[p].client \in online \cap flagged
Has(c) == \E p \in DOMAIN ping : Of(c) = {p}
OnePing == \A c \in flagged : Has(c)
PingInv == Types /\ ~misused /\ Waits /\ Owned /\ OnePing
-----------------------------------------------------------------------------
(* A ping that is not freed, with the events P left. *)
Life(P, l) == [pend |-> P, later |-> l, freed |-> FALSE, bad |-> FALSE]
(* A ping that is freed and was not used since. *)
Over(l) == [pend |-> {}, later |-> l, freed |-> TRUE, bad |-> FALSE]

(* The event of the callback that runs is marked, and stays.               *)
LEMMA DropOwn ==
  ASSUME NEW P, NEW run \in P, NEW l \in BOOLEAN
  PROVE  Drop(Life(P, l), run, run) = Life(P, TRUE)
BY DEF Drop, Del, Mark, Life

(* Another event goes, as long as it is not the last.                      *)
LEMMA DropOther ==
  ASSUME NEW P, NEW g, NEW run, g # run, NEW l \in BOOLEAN, P \ {g} # {}
  PROVE  Drop(Life(P, l), g, run) = Life(P \ {g}, l)
<1>1. Life(P, l).pend = P /\ Life(P, l).later = l /\ Life(P, l).freed = FALSE /\ Life(P, l).bad = FALSE
  BY DEF Life
<1>2. CASE g \notin P
  <2>1. P \ {g} = P
    BY <1>2
  <2> QED
    BY <1>1, <1>2, <2>1 DEF Drop, Touched, Life
<1>3. CASE g \in P
  BY <1>1, <1>3 DEF Drop, Del, Destroy, Life
<1> QED
  BY <1>2, <1>3

(* The last event that is destroyed frees the ping.                        *)
LEMMA DestroyLast ==
  ASSUME NEW g, NEW l \in BOOLEAN
  PROVE  Destroy(Life({g}, l), g) = Over(l)
<1>1. Life({g}, l).pend = {g} /\ Life({g}, l).later = l /\ Life({g}, l).freed = FALSE /\ Life({g}, l).bad = FALSE
  BY DEF Life
<1>2. {g} \ {g} = {}
  OBVIOUS
<1> QED
  BY <1>1, <1>2 DEF Destroy, Over

(* A callback of the ping ends it: its own event is left, marked, and the  *)
(* ping is not freed; after the callback it is, and was not used since.    *)
LEMMA EndInCallback ==
  ASSUME NEW P \in SUBSET {"socket", "sender", "killer"}, {"socket", "killer"} \subseteq P, NEW run \in P
  PROVE  /\ uping_end(Life(P, FALSE), run) = Life({run}, TRUE)
         /\ After(Life({run}, TRUE), run) = Over(TRUE)
<1>4. After(Life({run}, TRUE), run) = Over(TRUE)
  <2>1. Life({run}, TRUE).later = TRUE
    BY DEF Life
  <2> QED
    BY <2>1, DestroyLast DEF After
<1>1. CASE run = "socket"
  <2>1. P \ {"sender"} # {} /\ (P \ {"sender"}) \ {"killer"} = {"socket"}
    BY <1>1
  <2>2. Drop(Life(P, FALSE), "socket", run) = Life(P, TRUE)
    BY <1>1, DropOwn
  <2>3. Drop(Life(P, TRUE), "sender", run) = Life(P \ {"sender"}, TRUE)
    BY <1>1, <2>1, DropOther
  <2>4. Drop(Life(P \ {"sender"}, TRUE), "killer", run) = Life((P \ {"sender"}) \ {"killer"}, TRUE)
    BY <1>1, <2>1, DropOther, ZenonT(60)
  <2> QED
    BY <1>1, <1>4, <2>1, <2>2, <2>3, <2>4 DEF uping_end
<1>2. CASE run = "sender"
  <2>1. P \ {"socket"} # {} /\ "sender" \in P \ {"socket"} /\ (P \ {"socket"}) \ {"killer"} = {"sender"}
    BY <1>2
  <2>2. Drop(Life(P, FALSE), "socket", run) = Life(P \ {"socket"}, FALSE)
    BY <1>2, <2>1, DropOther
  <2>3. Drop(Life(P \ {"socket"}, FALSE), "sender", run) = Life(P \ {"socket"}, TRUE)
    BY <1>2, <2>1, DropOwn
  <2>4. Drop(Life(P \ {"socket"}, TRUE), "killer", run) = Life((P \ {"socket"}) \ {"killer"}, TRUE)
    BY <1>2, <2>1, DropOther, ZenonT(60)
  <2> QED
    BY <1>2, <1>4, <2>1, <2>2, <2>3, <2>4 DEF uping_end
<1>3. CASE run = "killer"
  <2>1. P \ {"socket"} # {} /\ (P \ {"socket"}) \ {"sender"} = {"killer"}
    BY <1>3
  <2>2. Drop(Life(P, FALSE), "socket", run) = Life(P \ {"socket"}, FALSE)
    BY <1>3, <2>1, DropOther
  <2>3. Drop(Life(P \ {"socket"}, FALSE), "sender", run) = Life((P \ {"socket"}) \ {"sender"}, FALSE)
    BY <1>3, <2>1, DropOther
  <2>4. Drop(Life({"killer"}, FALSE), "killer", run) = Life({"killer"}, TRUE)
    BY <1>3, DropOwn
  <2> QED
    BY <1>3, <1>4, <2>1, <2>2, <2>3, <2>4 DEF uping_end
<1> QED
  BY <1>1, <1>2, <1>3, <1>4

(* Whatever ends the ping outside of its callbacks frees it, once.         *)
LEMMA EndOutside ==
  ASSUME NEW P \in SUBSET {"socket", "sender", "killer"}, {"socket", "killer"} \subseteq P
  PROVE  uping_end(Life(P, FALSE), "none") = Over(FALSE)
<1>1. "killer" \in P \ {"socket"} /\ (P \ {"socket"}) \ {"sender"} = {"killer"}
  <2>1. "killer" # "socket" /\ "killer" # "sender"
    OBVIOUS
  <2>2. \A x : x \in (P \ {"socket"}) \ {"sender"} <=> x = "killer"
    BY <2>1
  <2> QED
    BY <2>1, <2>2
<1>2. Drop(Life(P, FALSE), "socket", "none") = Life(P \ {"socket"}, FALSE)
  <2>1. P \ {"socket"} # {} /\ "socket" # "none"
    BY <1>1
  <2> QED
    BY <2>1, DropOther
<1>3. Drop(Life(P \ {"socket"}, FALSE), "sender", "none") = Life({"killer"}, FALSE)
  <2>1. (P \ {"socket"}) \ {"sender"} # {} /\ "sender" # "none"
    BY <1>1
  <2>2. Drop(Life(P \ {"socket"}, FALSE), "sender", "none") = Life((P \ {"socket"}) \ {"sender"}, FALSE)
    BY <2>1, DropOther
  <2> QED
    BY <1>1, <2>2
<1>4. Drop(Life({"killer"}, FALSE), "killer", "none") = Over(FALSE)
  <2>1. Life({"killer"}, FALSE).pend = {"killer"}
    BY DEF Life
  <2> QED
    BY <2>1, DestroyLast DEF Drop, Del
<1> QED
  BY <1>2, <1>3, <1>4 DEF uping_end
-----------------------------------------------------------------------------
(* The parts of a step: pings go, are changed where they are, or one is    *)
(* added; online and flagged follow.                                       *)

(* A ping ends in one of its callbacks: nothing is misused.                *)
LEMMA EndIsClean ==
  ASSUME PingInv, NEW p \in DOMAIN ping, NEW run \in ping[p].pend, End(p, run)
  PROVE  ~misused'
<1>1. ping[p].pend \in SUBSET {"socket", "sender", "killer"} /\ {"socket", "killer"} \subseteq ping[p].pend
  BY DEF PingInv, Types, Waits, Ping
<1>2. Alive(p) = Life(ping[p].pend, FALSE)
  BY DEF Alive, Life
<1> DEFINE r == uping_end(Alive(p), run)
           e == After(r, run)
<1>3. r = Life({run}, TRUE) /\ e = Over(TRUE)
  BY <1>1, <1>2, EndInCallback
<1>4. misused' = (misused \/ r.freed \/ e.bad \/ ~e.freed)
  BY DEF End
<1> HIDE DEF r, e
<1>5. r.freed = FALSE /\ e.bad = FALSE /\ e.freed = TRUE
  BY <1>3 DEF Life, Over
<1> QED
  BY <1>4, <1>5 DEF PingInv

(* Pings that are cancelled are freed.                                     *)
LEMMA CancelIsClean ==
  ASSUME PingInv, NEW ps \in SUBSET DOMAIN ping
  PROVE  ~Cancelled(ps)
<1> SUFFICES ASSUME NEW p \in ps PROVE uping_end(Alive(p), "none").freed /\ ~uping_end(Alive(p), "none").bad
  BY DEF Cancelled
<1>1. ping[p].pend \in SUBSET {"socket", "sender", "killer"} /\ {"socket", "killer"} \subseteq ping[p].pend
  BY DEF PingInv, Types, Waits, Ping
<1>2. Alive(p) = Life(ping[p].pend, FALSE)
  BY DEF Alive, Life
<1>3. uping_end(Alive(p), "none") = Over(FALSE)
  BY <1>1, <1>2, EndOutside
<1> QED
  BY <1>3 DEF Over

(* The pings of a client go, all of them, with his flag; the others stay.  *)
LEMMA ClientLeaves ==
  ASSUME PingInv, NEW c \in Clients, ping' = Without(Of(c)), flagged' = flagged \ {c},
         online' \in {online, online \ {c}}, ~misused'
  PROVE  PingInv'
<1>1. DOMAIN ping' = DOMAIN ping \ Of(c) /\ \A p \in DOMAIN ping' : ping'[p] = ping[p] /\ ping[p].client # c
  BY DEF Without, Of
<1>2. Types'
  <2>1. ping' = [p \in DOMAIN ping' |-> ping'[p]]
    BY DEF Without
  <2> QED
    BY <1>1, <2>1 DEF PingInv, Types
<1>3. Waits' /\ Owned'
  BY <1>1 DEF PingInv, Waits, Owned
<1>4. OnePing'
  <2> SUFFICES ASSUME NEW d \in flagged' PROVE Has(d)'
    BY DEF OnePing
  <2>1. d \in flagged /\ d # c
    OBVIOUS
  <2>2. PICK p \in DOMAIN ping : Of(d) = {p}
    BY <2>1 DEF PingInv, OnePing, Has
  <2>3. p \in DOMAIN ping'
    BY <1>1, <2>1, <2>2 DEF Of
  <2>4. Of(d)' = Of(d)
    BY <1>1, <2>1 DEF Of
  <2> QED
    BY <2>2, <2>3, <2>4 DEF Has
<1> QED
  BY <1>2, <1>3, <1>4 DEF PingInv

(* A client without the flag has no ping, one with it has the one ping.    *)
LEMMA PingsOf ==
  ASSUME PingInv, NEW c
  PROVE  /\ c \notin flagged => Of(c) = {}
         /\ \A p \in DOMAIN ping : ping[p].client \in Clients /\ Of(ping[p].client) = {p}
<1>1. c \notin flagged => Of(c) = {}
  BY DEF PingInv, Owned, Of
<1>2. ASSUME NEW p \in DOMAIN ping PROVE ping[p].client \in Clients /\ Of(ping[p].client) = {p}
  <2>1. ping[p].client \in Clients /\ ping[p].client \in flagged /\ p \in Of(ping[p].client)
    BY DEF PingInv, Types, Owned, Of, Ping
  <2> QED
    BY <2>1 DEF PingInv, OnePing, Has
<1> QED
  BY <1>1, <1>2

(* Whichever of its callbacks ends a ping.                                 *)
LEMMA EndKeeps ==
  ASSUME PingInv, NEW p \in DOMAIN ping, NEW run \in ping[p].pend, End(p, run), UNCHANGED online
  PROVE  PingInv'
<1>1. ping[p].client \in Clients /\ Of(ping[p].client) = {p}
  BY PingsOf
<1>2. ping' = Without(Of(ping[p].client)) /\ flagged' = flagged \ {ping[p].client}
  BY <1>1 DEF End
<1> QED
  BY <1>1, <1>2, EndIsClean, ClientLeaves

(* A ping is changed where it is, with its client and its other events.    *)
LEMMA PingChanges ==
  ASSUME PingInv, NEW p \in DOMAIN ping, NEW q \in Ping,
         q.client = ping[p].client, {"socket", "killer"} \subseteq q.pend,
         ping' = [ping EXCEPT ![p] = q], UNCHANGED <<flagged, online>>, ~misused'
  PROVE  PingInv'
<1>1. DOMAIN ping' = DOMAIN ping /\ ping'[p] = q /\ \A x \in DOMAIN ping : x # p => ping'[x] = ping[x]
  BY DEF PingInv, Types
<1>2. Types'
  <2>1. ping' = [x \in DOMAIN ping' |-> ping'[x]]
    BY DEF PingInv, Types
  <2> QED
    BY <1>1, <2>1 DEF PingInv, Types
<1>3. Waits' /\ Owned'
  BY <1>1 DEF PingInv, Waits, Owned
<1>4. \A c : Of(c)' = Of(c)
  BY <1>1 DEF Of
<1>5. OnePing'
  BY <1>1, <1>4 DEF PingInv, OnePing, Has
<1> QED
  BY <1>2, <1>3, <1>5 DEF PingInv

(* The sender's last packet destroys its own event only.                   *)
LEMMA SenderGone ==
  ASSUME NEW P \in SUBSET {"socket", "sender", "killer"}, {"socket", "killer"} \subseteq P, "sender" \in P
  PROVE  LET r == After(Del(Life(P, FALSE), "sender", "sender"), "sender")
         IN  r.pend = P \ {"sender"} /\ r.freed = FALSE
<1>1. Del(Life(P, FALSE), "sender", "sender") = Life(P, TRUE)
  BY DEF Del, Mark, Life
<1>2. Life(P, TRUE).later = TRUE /\ Life(P, TRUE).pend = P /\ Life(P, TRUE).freed = FALSE
  BY DEF Life
<1>3. "socket" \in P \ {"sender"}
  OBVIOUS
<1>4. P \ {"sender"} # {}
  BY <1>3
<1>5. Destroy(Life(P, TRUE), "sender").pend = P \ {"sender"} /\ Destroy(Life(P, TRUE), "sender").freed = FALSE
  BY <1>2, <1>4 DEF Destroy
<1> QED
  BY <1>1, <1>2, <1>5 DEF After

(* The sender: a packet, the last packet, or an error.                     *)
LEMMA SenderKeeps ==
  ASSUME PingInv, NEW p \in DOMAIN ping, NEW ok \in BOOLEAN, uping_sender_callback(p, ok)
  PROVE  PingInv'
<1>1. "sender" \in ping[p].pend /\ UNCHANGED online
  BY DEF uping_sender_callback
<1>2. CASE ~ok
  <2>1. End(p, "sender")
    BY <1>2 DEF uping_sender_callback
  <2> QED
    BY <1>1, <2>1, EndKeeps
<1>3. CASE ok
  <2> DEFINE last == ping[p].sent + 1 = ping[p].count
             r == IF last THEN After(Del(Alive(p), "sender", "sender"), "sender") ELSE Alive(p)
             q == [ping[p] EXCEPT !.sent = @ + 1, !.pend = r.pend]
  <2>1. /\ ping' = [ping EXCEPT ![p].sent = @ + 1, ![p].pend = r.pend]
        /\ misused' = (misused \/ r.freed) /\ UNCHANGED flagged
    BY <1>3 DEF uping_sender_callback
  <2>2. /\ ping[p] \in Ping /\ ping[p].pend \in SUBSET {"socket", "sender", "killer"}
        /\ {"socket", "killer"} \subseteq ping[p].pend
    BY DEF PingInv, Types, Waits, Ping
  <2>3. r.pend \in {ping[p].pend, ping[p].pend \ {"sender"}} /\ r.freed = FALSE
    <3>1. Alive(p) = Life(ping[p].pend, FALSE)
      BY DEF Alive, Life
    <3>2. Alive(p).pend = ping[p].pend /\ Alive(p).freed = FALSE
      BY DEF Alive
    <3>3. CASE last
      BY <1>1, <2>2, <3>1, <3>3, SenderGone
    <3>4. CASE ~last
      BY <3>2, <3>4
    <3> QED
      BY <3>3, <3>4
  <2> HIDE DEF r, last
  <2>4. ping' = [ping EXCEPT ![p] = q]
    BY <2>1
  <2>5. q \in Ping /\ q.client = ping[p].client /\ q.pend = r.pend
    <3>1. r.pend \in SUBSET {"socket", "sender", "killer"}
      BY <2>2, <2>3
    <3>2. ping[p].sent + 1 \in Nat
      BY <2>2 DEF Ping
    <3> QED
      BY <2>2, <3>1, <3>2 DEF Ping
  <2>6. {"socket", "killer"} \subseteq q.pend
    BY <2>2, <2>3, <2>5
  <2>7. UNCHANGED <<flagged, online>> /\ ~misused'
    BY <1>1, <2>1, <2>3 DEF PingInv
  <2> HIDE DEF q
  <2> QED
    BY <2>4, <2>5, <2>6, <2>7, PingChanges
<1> QED
  BY <1>2, <1>3

(* A reply, the last reply, or an error.                                   *)
LEMMA ReadKeeps ==
  ASSUME PingInv, NEW p \in DOMAIN ping, NEW ok \in BOOLEAN, uping_read_callback(p, ok)
  PROVE  PingInv'
<1>1. UNCHANGED online
  BY DEF uping_read_callback
<1>2. ping[p] \in Ping /\ {"socket", "killer"} \subseteq ping[p].pend
  BY DEF PingInv, Types, Waits
<1>3. CASE ping' = [ping EXCEPT ![p].got = @ + 1] /\ UNCHANGED <<flagged, misused>>
  <2> DEFINE q == [ping[p] EXCEPT !.got = @ + 1]
  <2>1. ping' = [ping EXCEPT ![p] = q]
    BY <1>3
  <2>2. q \in Ping /\ q.client = ping[p].client /\ q.pend = ping[p].pend
    BY <1>2 DEF Ping
  <2>3. ~misused'
    BY <1>3 DEF PingInv
  <2> HIDE DEF q
  <2> QED
    BY <1>1, <1>2, <1>3, <2>1, <2>2, <2>3, PingChanges, ZenonT(60)
<1>4. CASE End(p, "socket")
  BY <1>1, <1>2, <1>4, EndKeeps
<1> QED
  BY <1>3, <1>4 DEF uping_read_callback

(* A client goes: his pings end if he has the flag, and he has none        *)
(* otherwise.                                                              *)
LEMMA ExitKeeps ==
  ASSUME PingInv, NEW c \in Clients, exit_one_client(c)
  PROVE  PingInv'
<1>1. online' = online \ {c}
  BY DEF exit_one_client
<1>2. CASE c \in flagged
  <2>1. Of(c) \in SUBSET DOMAIN ping
    BY DEF Of
  <2>2. ~Cancelled(Of(c))
    BY <2>1, CancelIsClean
  <2>3. ping' = Without(Of(c)) /\ flagged' = flagged \ {c} /\ misused' = (misused \/ Cancelled(Of(c)))
    BY <1>2 DEF exit_one_client, uping_cancel
  <2>4. ~misused'
    BY <2>2, <2>3 DEF PingInv
  <2> QED
    BY <1>1, <2>3, <2>4, ClientLeaves
<1>3. CASE c \notin flagged
  <2>1. UNCHANGED <<ping, flagged, misused>>
    BY <1>3 DEF exit_one_client
  <2>2. Types' /\ Waits' /\ ~misused'
    BY <2>1 DEF PingInv, Types, Waits
  <2>3. Owned'
    BY <1>1, <1>3, <2>1 DEF PingInv, Owned
  <2>4. OnePing'
    BY <2>1 DEF PingInv, OnePing, Has, Of
  <2> QED
    BY <2>2, <2>3, <2>4 DEF PingInv
<1> QED
  BY <1>2, <1>3

(* A ping is added for a client that is here, whose other one has ended.   *)
LEMMA PingAdded ==
  ASSUME PingInv, NEW c \in online, c \in Clients, NEW p \in Pings, p \notin DOMAIN ping \ Of(c),
         NEW q \in Ping, q.client = c, {"socket", "killer"} \subseteq q.pend,
         ping' = [x \in (DOMAIN ping \ Of(c)) \cup {p} |-> IF x = p THEN q ELSE ping[x]],
         flagged' = flagged \cup {c}, UNCHANGED online, ~misused'
  PROVE  PingInv'
<1>1. /\ DOMAIN ping' = (DOMAIN ping \ Of(c)) \cup {p} /\ ping'[p] = q
      /\ \A x \in DOMAIN ping \ Of(c) : ping'[x] = ping[x] /\ ping[x].client # c /\ x # p
  BY DEF Of
<1>2. Types'
  <2>1. ping' = [x \in DOMAIN ping' |-> ping'[x]]
    OBVIOUS
  <2> QED
    BY <1>1, <2>1 DEF PingInv, Types
<1>3. Waits' /\ Owned'
  BY <1>1 DEF PingInv, Waits, Owned
<1>4. OnePing'
  <2>1. Of(c)' = {p}
    BY <1>1 DEF Of
  <2>2. \A d : d # c => Of(d)' = Of(d)
    BY <1>1 DEF Of
  <2> SUFFICES ASSUME NEW d \in flagged' PROVE Has(d)'
    BY DEF OnePing
  <2>3. CASE d = c
    BY <1>1, <2>1, <2>3 DEF Has
  <2>4. CASE d # c
    <3>1. PICK x \in DOMAIN ping : Of(d) = {x}
      BY <2>4 DEF PingInv, OnePing, Has
    <3>2. x \in DOMAIN ping'
      BY <1>1, <2>4, <3>1 DEF Of
    <3> QED
      BY <2>2, <2>4, <3>1, <3>2 DEF Has
  <2> QED
    BY <2>3, <2>4
<1> QED
  BY <1>2, <1>3, <1>4 DEF PingInv

(* UPING: the ping under way ends, another begins if there is a socket.    *)
LEMMA ServerKeeps ==
  ASSUME PingInv, NEW c \in Clients, NEW p \in Pings, NEW n \in Counts, NEW sock \in BOOLEAN,
         uping_server(c, p, n, sock)
  PROVE  PingInv'
<1> DEFINE old == IF c \in flagged THEN Of(c) ELSE {}
           kept == Without(old)
           new == [client |-> c, sent |-> 0, got |-> 0, count |-> n, pend |-> {"socket"} \cup {"sender", "killer"}]
<1>1. /\ c \in online /\ p \notin DOMAIN ping \ Of(c) /\ UNCHANGED online
      /\ ping' = IF sock THEN [x \in DOMAIN kept \cup {p} |-> IF x = p THEN new ELSE kept[x]] ELSE kept
      /\ flagged' = IF sock THEN flagged \cup {c} ELSE flagged \ {c}
      /\ misused' = (misused \/ Cancelled(old))
  BY DEF uping_server
<1>2. old = Of(c)
  BY PingsOf
<1>3. Of(c) \in SUBSET DOMAIN ping
  BY DEF Of
<1>4. ~misused'
  BY <1>1, <1>2, <1>3, CancelIsClean DEF PingInv
<1>5. CASE sock
  <2>1. DOMAIN kept = DOMAIN ping \ Of(c) /\ \A x \in DOMAIN kept : kept[x] = ping[x]
    BY <1>2 DEF Without
  <2>2. new \in Ping /\ new.client = c /\ {"socket", "killer"} \subseteq new.pend
    BY DEF Ping
  <2> HIDE DEF new
  <2>3. ping' = [x \in (DOMAIN ping \ Of(c)) \cup {p} |-> IF x = p THEN new ELSE ping[x]]
    BY <1>1, <1>5, <2>1
  <2>4. flagged' = flagged \cup {c}
    BY <1>1, <1>5
  <2> QED
    BY <1>1, <1>4, <2>2, <2>3, <2>4, PingAdded
<1>6. CASE ~sock
  BY <1>1, <1>2, <1>4, <1>6, ClientLeaves
<1> QED
  BY <1>5, <1>6

(* Every step keeps the invariant.                                         *)
LEMMA StepKeeps ==
  ASSUME PingInv, [UpNext]_zvars
  PROVE  PingInv'
<1>1. CASE UNCHANGED zvars
  BY <1>1 DEF zvars, PingInv, Types, Waits, Owned, OnePing, Has, Of
<1>2. ASSUME NEW c \in Clients, exit_one_client(c) PROVE PingInv'
  BY <1>2, ExitKeeps
<1>3. ASSUME NEW c \in Clients, Return(c) PROVE PingInv'
  BY <1>3 DEF Return, PingInv, Types, Waits, Owned, OnePing, Has, Of
<1>4. ASSUME NEW c \in Clients, NEW p \in Pings, NEW n \in Counts, NEW s \in BOOLEAN, uping_server(c, p, n, s)
      PROVE  PingInv'
  BY <1>4, ServerKeeps
<1>5. ASSUME NEW p \in DOMAIN ping, uping_killer_callback(p) PROVE PingInv'
  BY <1>5, EndKeeps DEF uping_killer_callback, PingInv, Waits
<1>6. ASSUME NEW p \in DOMAIN ping, NEW ok \in BOOLEAN, uping_sender_callback(p, ok) \/ uping_read_callback(p, ok)
      PROVE  PingInv'
  BY <1>6, SenderKeeps, ReadKeeps
<1> QED
  BY <1>1, <1>2, <1>3, <1>4, <1>5, <1>6 DEF UpNext

(* A ping belongs to a client that is here and carries the flag, one to a  *)
(* client, and whatever ends it (its timers, its socket, its count, a      *)
(* second UPING, the exit of the client) its memory is freed once, after   *)
(* its last use.                                                           *)
THEOREM EveryPingOwned == UpSpec => []PingsAreOwned
<1>1. UpInit => PingInv
  BY DEF UpInit, PingInv, Types, Waits, Owned, OnePing, Has
<1>2. PingInv => PingsAreOwned
  <2> SUFFICES ASSUME PingInv, NEW c \in flagged PROVE Cardinality(Of(c)) = 1
    BY DEF PingInv, PingsAreOwned, Owned
  <2>1. PICK p \in DOMAIN ping : Of(c) = {p}
    BY DEF PingInv, OnePing, Has
  <2> QED
    BY <2>1, FS_Singleton
<1> QED
  BY <1>1, <1>2, StepKeeps, PTL DEF UpSpec
=============================================================================
