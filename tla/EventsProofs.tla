---------------------------- MODULE EventsProofs ----------------------------
(***************************************************************************)
(* The event loop holds only what is alive and its timers are in order     *)
(* (ircd_events.c, engine_epoll.c), for any number of sockets, timers and  *)
(* calls from a callback.                                                  *)
(*                                                                         *)
(* The invariant that is proved counts the references: one for the socket  *)
(* that engine_loop has in hand, two while its callback runs, none for any *)
(* other; a deleted socket is always the one in hand.  The kernel reports  *)
(* a socket once, so that the place that engine_delete fills is the only   *)
(* one; and the mark of a timer says that its callback is running.         *)
(***************************************************************************)
EXTENDS Events, SequenceTheorems, FiniteSetTheorems, NaturalsInduction, TLAPS

Kinds == {"ABSOLUTE", "RELATIVE", "PERIODIC"}
Sock == [active : BOOLEAN, destroy : BOOLEAN, error : BOOLEAN, ref : Nat, state : States, want : SUBSET {"IN", "OUT"}]
Timer == [active : BOOLEAN, marked : BOOLEAN, readd : BOOLEAN, type : Kinds, value : Nat, expire : Nat]
Report == [s : Socks, k : SUBSET {"IN", "OUT", "ERR", "HUP"}]

(* The loop starts with one listener and one timer, a process has finitely *)
(* many sockets, and callbacks use the events, kinds and times that the    *)
(* code knows.                                                             *)
Usual ==
  /\ 1 \in Socks /\ IsFiniteSet(Socks) /\ 1 \in Timers
  /\ Wants \subseteq SUBSET {"IN", "OUT"} /\ Types \subseteq Kinds /\ Delays \subseteq Nat

TypesOK ==
  /\ sock \in [Socks -> Sock] /\ timer \in [Timers -> Timer]
  /\ queue \in Seq(Timers) /\ events \in Seq(Report)
  /\ at \in {"wait", "events", "gen", "call", "timers", "tcall"} /\ now \in Nat
Held(s) == IF in = s /\ at = "gen" THEN 1 ELSE IF in = s /\ at = "call" THEN 2 ELSE 0
Counted ==
  /\ at \in {"gen", "call"} => in \in Socks
  /\ \A s \in Socks : sock[s].ref = Held(s) /\ (sock[s].destroy \/ Held(s) > 0 => sock[s].active /\ Held(s) > 0)
Reported ==
  /\ \A k \in DOMAIN events : Open(events[k].s)
  /\ \A j, k \in DOMAIN events : j # k => events[j].s # events[k].s
  /\ at \in {"wait", "timers", "tcall"} => events = <<>>
Marked ==
  /\ at = "tcall" => in \in Timers
  /\ \A t \in Timers : timer[t].marked <=> at = "tcall" /\ in = t
  /\ \A t \in Timers : timer[t].marked => timer[t].active
EvInv == TypesOK /\ Counted /\ Reported /\ Marked /\ TimersInOrder
SockInv == sock \in [Socks -> Sock] /\ events \in Seq(Report) /\ Counted /\ Reported
TimerInv == timer \in [Timers -> Timer] /\ queue \in Seq(Timers) /\ Marked /\ TimersInOrder
-----------------------------------------------------------------------------
(* A set of numbers that is not empty has a smallest one.                  *)
LEMMA Smallest ==
  ASSUME NEW T \in SUBSET Nat, T # {}
  PROVE  \E x \in T : \A y \in T : x <= y
<1>1. PICK x \in T : \A y \in T : ~ (<<y, x>> \in OpToRel(<, Nat))
  BY NatLessThanWellFounded, WFMin, ZenonT(60)
<1>2. \A y \in T : ~ (y < x)
  BY <1>1 DEF OpToRel
<1> QED
  BY <1>2

(* What RemoveAt returns.                                                  *)
LEMMA RemoveAtIs ==
  ASSUME NEW S, NEW q \in Seq(S), NEW k \in 1..Len(q)
  PROVE  /\ RemoveAt(q, k) \in Seq(S) /\ Len(RemoveAt(q, k)) = Len(q) - 1
         /\ \A i \in 1..(Len(q) - 1) : RemoveAt(q, k)[i] = IF i < k THEN q[i] ELSE q[i + 1]
<1> DEFINE a == SubSeq(q, 1, k - 1)
           b == SubSeq(q, k + 1, Len(q))
<1>1. a \in Seq(S) /\ Len(a) = k - 1 /\ \A i \in 1..(k - 1) : a[i] = q[i]
  BY SubSeqProperties
<1>2. b \in Seq(S) /\ Len(b) = Len(q) - k /\ \A i \in 1..(Len(q) - k) : b[i] = q[k + i]
  BY SubSeqProperties
<1>3. RemoveAt(q, k) = a \o b
  BY DEF RemoveAt
<1> HIDE DEF a, b
<1>4. /\ a \o b \in Seq(S) /\ Len(a \o b) = Len(a) + Len(b)
      /\ \A i \in 1..(Len(a) + Len(b)) : (a \o b)[i] = IF i <= Len(a) THEN a[i] ELSE b[i - Len(a)]
  BY <1>1, <1>2, ConcatProperties
<1> QED
  BY <1>1, <1>2, <1>3, <1>4, SMTT(60)

(* What InsertAt returns.                                                  *)
LEMMA InsertAtIs ==
  ASSUME NEW S, NEW q \in Seq(S), NEW n \in 1..(Len(q) + 1), NEW t \in S
  PROVE  /\ InsertAt(q, n, t) \in Seq(S) /\ Len(InsertAt(q, n, t)) = Len(q) + 1
         /\ \A i \in 1..(Len(q) + 1) : InsertAt(q, n, t)[i] = IF i < n THEN q[i] ELSE IF i = n THEN t ELSE q[i - 1]
<1> DEFINE a == SubSeq(q, 1, n - 1)
           b == SubSeq(q, n, Len(q))
           c == a \o <<t>>
<1>1. a \in Seq(S) /\ Len(a) = n - 1 /\ \A i \in 1..(n - 1) : a[i] = q[i]
  BY SubSeqProperties
<1>2. b \in Seq(S) /\ Len(b) = Len(q) - n + 1 /\ \A i \in 1..(Len(q) - n + 1) : b[i] = q[n - 1 + i]
  BY SubSeqProperties
<1>3. InsertAt(q, n, t) = c \o b
  BY DEF InsertAt
<1>4. <<t>> \in Seq(S) /\ Len(<<t>>) = 1 /\ <<t>>[1] = t
  OBVIOUS
<1> HIDE DEF a, b
<1>5. c \in Seq(S) /\ Len(c) = n /\ \A i \in 1..n : c[i] = IF i <= n - 1 THEN a[i] ELSE <<t>>[i - (n - 1)]
  BY <1>1, <1>4, ConcatProperties
<1>6. \A i \in 1..n : c[i] = IF i < n THEN q[i] ELSE t
  BY <1>1, <1>4, <1>5
<1> HIDE DEF c
<1>7. /\ c \o b \in Seq(S) /\ Len(c \o b) = Len(c) + Len(b)
      /\ \A i \in 1..(Len(c) + Len(b)) : (c \o b)[i] = IF i <= Len(c) THEN c[i] ELSE b[i - Len(c)]
  BY <1>2, <1>5, ConcatProperties, ZenonT(60)
<1> QED
  BY <1>2, <1>3, <1>5, <1>6, <1>7
-----------------------------------------------------------------------------
(* The queue q is in order by the timers f. *)
Sorted(q, f) == \A i, j \in 1..Len(q) : i < j => q[i] # q[j] /\ f[q[i]].expire <= f[q[j]].expire
On(q, t) == \E k \in 1..Len(q) : q[k] = t

(* gen_dequeue takes out the timer and nothing else.                       *)
LEMMA Dequeued ==
  ASSUME NEW q \in Seq(Timers), NEW f, Sorted(q, f), NEW t \in Timers
  PROVE  /\ gen_dequeue(q, t) \in Seq(Timers) /\ Sorted(gen_dequeue(q, t), f)
         /\ \A u \in Timers : On(gen_dequeue(q, t), u) <=> On(q, u) /\ u # t
<1>0. DOMAIN q = 1..Len(q) /\ Len(q) \in Nat
  OBVIOUS
<1>1. CASE ~ On(q, t)
  <2>1. gen_dequeue(q, t) = q
    BY <1>0, <1>1 DEF gen_dequeue, On
  <2> QED
    BY <1>1, <2>1 DEF On
<1>2. CASE On(q, t)
  <2> DEFINE k == CHOOSE x \in DOMAIN q : q[x] = t
             r == RemoveAt(q, k)
  <2>1. gen_dequeue(q, t) = r
    BY <1>0, <1>2 DEF gen_dequeue, On
  <2>2. k \in 1..Len(q) /\ q[k] = t
    BY <1>0, <1>2 DEF On
  <2> HIDE DEF k
  <2>3. /\ r \in Seq(Timers) /\ Len(r) = Len(q) - 1
        /\ \A i \in 1..(Len(q) - 1) : r[i] = IF i < k THEN q[i] ELSE q[i + 1]
    BY <2>2, RemoveAtIs
  <2> HIDE DEF r
  <2>4. Sorted(r, f)
    <3> SUFFICES ASSUME NEW i \in 1..Len(r), NEW j \in 1..Len(r), i < j
                 PROVE  r[i] # r[j] /\ f[r[i]].expire <= f[r[j]].expire
      BY DEF Sorted
    <3> DEFINE a == IF i < k THEN i ELSE i + 1
               b == IF j < k THEN j ELSE j + 1
    <3>1. a \in 1..Len(q) /\ b \in 1..Len(q) /\ a < b /\ r[i] = q[a] /\ r[j] = q[b]
      BY <1>0, <2>2, <2>3
    <3> QED
      BY <3>1 DEF Sorted
  <2>5. ASSUME NEW u \in Timers
        PROVE  On(r, u) <=> On(q, u) /\ u # t
    <3>1. ASSUME NEW i \in 1..Len(r), r[i] = u
          PROVE  On(q, u) /\ u # t
      <4> DEFINE a == IF i < k THEN i ELSE i + 1
      <4>1. a \in 1..Len(q) /\ q[a] = u /\ (a < k \/ k < a)
        BY <1>0, <2>2, <2>3, <3>1
      <4> QED
        BY <2>2, <4>1 DEF On, Sorted
    <3>2. ASSUME NEW i \in 1..Len(q), q[i] = u, u # t
          PROVE  On(r, u)
      <4> DEFINE a == IF i < k THEN i ELSE i - 1
      <4>1. i # k
        BY <2>2, <3>2
      <4>2. a \in 1..Len(r) /\ r[a] = q[i]
        BY <1>0, <2>2, <2>3, <4>1
      <4> QED
        BY <3>2, <4>2 DEF On
    <3> QED
      BY <3>1, <3>2 DEF On
  <2> QED
    BY <2>1, <2>3, <2>4, <2>5
<1> QED
  BY <1>1, <1>2

(* timer_enqueue puts the timer at its place.                              *)
LEMMA Enqueued ==
  ASSUME now \in Nat, NEW q \in Seq(Timers), NEW f \in [Timers -> Timer], Sorted(q, f), NEW t \in Timers, ~On(q, t)
  PROVE  LET r == timer_enqueue(f, q, t)
         IN  /\ r.tms \in [Timers -> Timer]
             /\ r.tms = [f EXCEPT ![t].expire = Expire(f[t])]
             /\ r.q \in Seq(Timers) /\ Sorted(r.q, r.tms)
             /\ \A u \in Timers : On(r.q, u) <=> On(q, u) \/ u = t
<1> DEFINE e == Expire(f[t])
           n == CHOOSE x \in 1..(Len(q) + 1) : Place(f, q, e, x)
           g == [f EXCEPT ![t].expire = e]
           r == InsertAt(q, n, t)
<1>0. DOMAIN q = 1..Len(q) /\ Len(q) \in Nat /\ \A i \in 1..Len(q) : q[i] \in Timers /\ f[q[i]].expire \in Nat
  BY DEF Timer
<1>1. e \in Nat
  BY DEF Timer, Expire
<1>2. n \in 1..(Len(q) + 1) /\ Place(f, q, e, n)
  <2> HIDE DEF e
  <2> DEFINE T == {x \in 1..(Len(q) + 1) : x <= Len(q) => e < f[q[x]].expire}
  <2>1. T \in SUBSET Nat /\ Len(q) + 1 \in T
    BY <1>0
  <2>2. PICK x \in T : \A y \in T : x <= y
    BY <2>1, Smallest
  <2>3. x \in 1..(Len(q) + 1) /\ (x <= Len(q) => e < f[q[x]].expire)
    BY <2>2
  <2>4. ASSUME NEW k \in 1..(x - 1)
        PROVE  f[q[k]].expire <= e
    <3>1. k \in 1..(Len(q) + 1) /\ k <= Len(q) /\ ~ (x <= k)
      BY <1>0, <2>3
    <3>2. k \notin T
      BY <2>2, <3>1
    <3> QED
      BY <1>0, <1>1, <3>1, <3>2
  <2>5. Place(f, q, e, x)
    BY <2>3, <2>4 DEF Place
  <2> QED
    BY <2>3, <2>5
<1>3. timer_enqueue(f, q, t) = [tms |-> g, q |-> r]
  BY DEF timer_enqueue
<1> HIDE DEF e, n
<1>4. /\ r \in Seq(Timers) /\ Len(r) = Len(q) + 1
      /\ \A i \in 1..(Len(q) + 1) : r[i] = IF i < n THEN q[i] ELSE IF i = n THEN t ELSE q[i - 1]
  BY <1>2, InsertAtIs
<1>5. g \in [Timers -> Timer] /\ g[t].expire = e /\ \A u \in Timers : u # t => g[u] = f[u]
  BY <1>1 DEF Timer
<1> HIDE DEF g, r
<1>6. \A i \in 1..Len(q) : q[i] # t /\ g[q[i]].expire = f[q[i]].expire
  BY <1>0, <1>5 DEF On
<1>7. \A i \in 1..Len(q) : IF i < n THEN f[q[i]].expire <= e ELSE e < f[q[i]].expire
  <2> SUFFICES ASSUME NEW i \in 1..Len(q)
               PROVE  IF i < n THEN f[q[i]].expire <= e ELSE e < f[q[i]].expire
    OBVIOUS
  <2>1. CASE i < n
    BY <1>0, <1>2, <2>1 DEF Place
  <2>2. CASE i = n
    BY <1>0, <1>2, <2>2 DEF Place
  <2>3. CASE i > n
    <3>1. e < f[q[n]].expire /\ n \in 1..Len(q)
      BY <1>0, <1>2, <2>3 DEF Place
    <3>2. f[q[n]].expire <= f[q[i]].expire
      BY <2>3, <3>1 DEF Sorted
    <3> QED
      BY <1>0, <1>1, <1>2, <2>3, <3>1, <3>2
  <2> QED
    BY <1>0, <1>2, <2>1, <2>2, <2>3
<1>8. Sorted(r, g)
  <2> SUFFICES ASSUME NEW i \in 1..Len(r), NEW j \in 1..Len(r), i < j
               PROVE  r[i] # r[j] /\ g[r[i]].expire <= g[r[j]].expire
    BY DEF Sorted
  <2>1. CASE i = n
    <3>1. j - 1 \in 1..Len(q) /\ r[i] = t /\ r[j] = q[j - 1] /\ ~(j - 1 < n)
      BY <1>0, <1>2, <1>4, <2>1
    <3> QED
      BY <1>0, <1>1, <1>5, <1>6, <1>7, <3>1, SMTT(60)
  <2>2. CASE j = n
    <3>1. i \in 1..Len(q) /\ r[j] = t /\ r[i] = q[i] /\ i < n
      BY <1>0, <1>2, <1>4, <2>2
    <3> QED
      BY <1>0, <1>1, <1>5, <1>6, <1>7, <3>1
  <2>3. CASE i # n /\ j # n
    <3> DEFINE a == IF i < n THEN i ELSE i - 1
               b == IF j < n THEN j ELSE j - 1
    <3>1. a \in 1..Len(q) /\ b \in 1..Len(q) /\ a < b /\ r[i] = q[a] /\ r[j] = q[b]
      BY <1>0, <1>2, <1>4, <2>3
    <3>2. q[a] # q[b] /\ f[q[a]].expire <= f[q[b]].expire
      BY <3>1 DEF Sorted
    <3> QED
      BY <1>6, <3>1, <3>2
  <2> QED
    BY <2>1, <2>2, <2>3
<1>9. ASSUME NEW u \in Timers
      PROVE  On(r, u) <=> On(q, u) \/ u = t
  <2>1. ASSUME NEW i \in 1..Len(r), r[i] = u
        PROVE  On(q, u) \/ u = t
    <3>1. i = n \/ (i < n /\ i \in 1..Len(q)) \/ (i > n /\ i - 1 \in 1..Len(q))
      BY <1>0, <1>2, <1>4
    <3>2. CASE i = n
      BY <1>0, <1>2, <1>4, <2>1, <3>2
    <3>3. CASE i < n /\ i \in 1..Len(q)
      <4>1. q[i] = u
        BY <1>0, <1>2, <1>4, <2>1, <3>3
      <4> QED
        BY <3>3, <4>1 DEF On
    <3>4. CASE i > n /\ i - 1 \in 1..Len(q)
      <4>1. q[i - 1] = u
        BY <1>0, <1>2, <1>4, <2>1, <3>4
      <4> QED
        BY <3>4, <4>1 DEF On
    <3> QED
      BY <3>1, <3>2, <3>3, <3>4
  <2>2. On(r, t)
    <3>1. n \in 1..Len(r) /\ r[n] = t
      BY <1>0, <1>2, <1>4
    <3> QED
      BY <3>1 DEF On
  <2>3. ASSUME NEW i \in 1..Len(q), q[i] = u
        PROVE  On(r, u)
    <3> DEFINE a == IF i < n THEN i ELSE i + 1
    <3>1. a \in 1..Len(r) /\ r[a] = u
      BY <1>0, <1>2, <1>4, <2>3
    <3> QED
      BY <3>1 DEF On
  <2> QED
    BY <2>1, <2>2, <2>3 DEF On
<1> QED
  BY <1>3, <1>4, <1>5, <1>8, <1>9 DEF g, e
-----------------------------------------------------------------------------
(* A timer that is not on the queue has no part in its order.              *)
LEMMA Elsewhere ==
  ASSUME NEW q \in Seq(Timers), NEW f, NEW g, NEW t, ~On(q, t), Sorted(q, f),
         \A u \in Timers : u # t => g[u].expire = f[u].expire
  PROVE  Sorted(q, g)
<1>1. \A i \in 1..Len(q) : q[i] \in Timers /\ q[i] # t
  BY DEF On
<1> QED
  BY <1>1 DEF Sorted

(* TimersInOrder in the words of the lemmas.                               *)
LEMMA InOrder ==
  ASSUME queue \in Seq(Timers)
  PROVE  TimersInOrder <=> Sorted(queue, timer) /\ \A t \in Timers : On(queue, t) <=> timer[t].active /\ ~timer[t].marked
<1>1. DOMAIN queue = 1..Len(queue)
  OBVIOUS
<1> QED
  BY <1>1 DEF TimersInOrder, Sorted, On

(* And after a step.                                                       *)
LEMMA InOrderNext ==
  ASSUME queue' \in Seq(Timers), Sorted(queue', timer'),
         \A t \in Timers : On(queue', t) <=> timer'[t].active /\ ~timer'[t].marked
  PROVE  TimersInOrder'
<1>1. DOMAIN queue' = 1..Len(queue')
  OBVIOUS
<1> QED
  BY <1>1 DEF TimersInOrder, Sorted, On

(* The timers when t is queued: what timer_add, timer_chg and timer_ran    *)
(* have in common.                                                         *)
LEMMA SetQueued ==
  ASSUME now \in Nat, NEW q \in Seq(Timers), NEW f \in [Timers -> Timer], NEW t \in Timers, Sorted(q, f),
         \A u \in Timers : u # t => (On(q, u) <=> f[u].active /\ ~f[u].marked),
         ~On(q, t), f[t].active, ~f[t].marked,
         SetTimers(timer_enqueue(f, q, t))
  PROVE  /\ timer' \in [Timers -> Timer] /\ queue' \in Seq(Timers) /\ TimersInOrder'
         /\ \A u \in Timers : timer'[u].active = f[u].active /\ timer'[u].marked = f[u].marked
<1> DEFINE r == timer_enqueue(f, q, t)
<1>1. /\ r.tms \in [Timers -> Timer] /\ r.tms = [f EXCEPT ![t].expire = Expire(f[t])]
      /\ r.q \in Seq(Timers) /\ Sorted(r.q, r.tms)
      /\ \A u \in Timers : On(r.q, u) <=> On(q, u) \/ u = t
  BY Enqueued
<1>2. timer' = r.tms /\ queue' = r.q
  BY DEF SetTimers
<1> HIDE DEF r
<1>3. \A u \in Timers : timer'[u].active = f[u].active /\ timer'[u].marked = f[u].marked
  BY <1>1, <1>2 DEF Timer
<1>4. \A u \in Timers : On(queue', u) <=> timer'[u].active /\ ~timer'[u].marked
  BY <1>1, <1>2, <1>3
<1> QED
  BY <1>1, <1>2, <1>3, <1>4, InOrderNext

(* timer_add keeps the order, marked or not.                               *)
LEMMA AddStep ==
  ASSUME Usual, TimerInv, now \in Nat, NEW t \in Timers, NEW ty \in Types, NEW v \in Delays, timer_add(t, ty, v),
         at' = at, in' = in
  PROVE  TimerInv'
<1> DEFINE tm == [timer[t] EXCEPT !.active = TRUE, !.readd = @ \/ timer[t].marked, !.type = ty, !.value = v, !.expire = 0]
           f == [timer EXCEPT ![t] = tm]
<1>1. /\ tm \in Timer /\ tm.active /\ tm.marked = timer[t].marked
  BY ZenonT(60) DEF Usual, TimerInv, Timer
<1>2. (IF tm.marked THEN SetTimers([tms |-> f, q |-> queue]) ELSE SetTimers(timer_enqueue(f, queue, t)))
  BY DEF timer_add
<1>3. DOMAIN queue = 1..Len(queue) /\ queue \in Seq(Timers)
  BY DEF TimerInv
<1>4. ~On(queue, t)
  BY <1>3 DEF timer_add, On
<1> HIDE DEF tm
<1>5. f \in [Timers -> Timer] /\ f[t] = tm /\ \A u \in Timers : u # t => f[u] = timer[u]
  BY <1>1 DEF TimerInv
<1> HIDE DEF f
<1>6. Sorted(queue, timer) /\ \A u \in Timers : On(queue, u) <=> timer[u].active /\ ~timer[u].marked
  BY <1>3, InOrder DEF TimerInv
<1>7. Sorted(queue, f)
  BY <1>3, <1>4, <1>5, <1>6, Elsewhere
<1>8. /\ timer' \in [Timers -> Timer] /\ queue' \in Seq(Timers) /\ TimersInOrder'
      /\ \A u \in Timers : timer'[u].active = f[u].active /\ timer'[u].marked = f[u].marked
  <2>1. CASE tm.marked
    <3>1. timer' = f /\ queue' = queue
      BY <1>2, <2>1 DEF SetTimers
    <3>2. \A u \in Timers : On(queue', u) <=> timer'[u].active /\ ~timer'[u].marked
      BY <1>4, <1>5, <1>6, <2>1, <3>1
    <3> QED
      BY <1>3, <1>5, <1>7, <3>1, <3>2, InOrderNext
  <2>2. CASE ~tm.marked
    <3>1. f[t].active /\ ~f[t].marked
      BY <1>1, <1>5, <2>2
    <3>2. \A u \in Timers : u # t => (On(queue, u) <=> f[u].active /\ ~f[u].marked)
      BY <1>5, <1>6
    <3> QED
      BY <1>2, <1>3, <1>4, <1>5, <1>7, <2>2, <3>1, <3>2, SetQueued
  <2> QED
    BY <2>1, <2>2
<1>9. Marked'
  <2>1. \A u \in Timers : timer'[u].marked = timer[u].marked /\ (timer[u].active => timer'[u].active)
    BY <1>1, <1>5, <1>8
  <2> QED
    BY <2>1 DEF TimerInv, Marked
<1> QED
  BY <1>8, <1>9 DEF TimerInv

(* timer_chg takes a timer out and puts it back at its new place.          *)
LEMMA ChgStep ==
  ASSUME Usual, TimerInv, now \in Nat, NEW t \in Timers, NEW ty \in Types, NEW v \in Nat, timer_chg(t, ty, v),
         at' = at, in' = in
  PROVE  TimerInv'
<1> DEFINE tm == [timer[t] EXCEPT !.readd = @ \/ timer[t].marked, !.type = ty, !.value = v, !.expire = 0]
           f == [timer EXCEPT ![t] = tm]
           q == gen_dequeue(queue, t)
<1>1. /\ timer[t].active
      /\ IF timer[t].marked THEN SetTimers([tms |-> f, q |-> queue]) ELSE SetTimers(timer_enqueue(f, q, t))
  BY DEF timer_chg
<1>2. /\ f \in [Timers -> Timer] /\ f[t].active = timer[t].active /\ f[t].marked = timer[t].marked
      /\ \A u \in Timers : u # t => f[u] = timer[u]
  <2>1. tm \in Timer /\ tm.active = timer[t].active /\ tm.marked = timer[t].marked
    BY ZenonT(60) DEF Usual, TimerInv, Timer
  <2> HIDE DEF tm
  <2> QED
    BY <2>1 DEF TimerInv
<1> HIDE DEF f
<1>3. DOMAIN queue = 1..Len(queue) /\ queue \in Seq(Timers)
  BY DEF TimerInv
<1>4. Sorted(queue, timer) /\ \A u \in Timers : On(queue, u) <=> timer[u].active /\ ~timer[u].marked
  BY <1>3, InOrder DEF TimerInv
<1>5. /\ timer' \in [Timers -> Timer] /\ queue' \in Seq(Timers) /\ TimersInOrder'
      /\ \A u \in Timers : timer'[u].active = f[u].active /\ timer'[u].marked = f[u].marked
  <2>1. CASE timer[t].marked
    <3>1. timer' = f /\ queue' = queue
      BY <1>1, <2>1 DEF SetTimers
    <3>2. ~On(queue, t)
      BY <1>4, <2>1
    <3>3. Sorted(queue, f)
      BY <1>2, <1>3, <1>4, <3>2, Elsewhere
    <3>4. \A u \in Timers : On(queue', u) <=> timer'[u].active /\ ~timer'[u].marked
      BY <1>2, <1>4, <3>1
    <3> QED
      BY <1>2, <1>3, <3>1, <3>3, <3>4, InOrderNext
  <2>2. CASE ~timer[t].marked
    <3>1. /\ q \in Seq(Timers) /\ Sorted(q, timer)
          /\ \A u \in Timers : On(q, u) <=> On(queue, u) /\ u # t
      BY <1>3, <1>4, Dequeued
    <3> HIDE DEF q
    <3>2. ~On(q, t) /\ Sorted(q, f)
      BY <1>2, <3>1, Elsewhere
    <3>3. \A u \in Timers : u # t => (On(q, u) <=> f[u].active /\ ~f[u].marked)
      BY <1>2, <1>4, <3>1
    <3>4. SetTimers(timer_enqueue(f, q, t)) /\ f[t].active /\ ~f[t].marked
      BY <1>1, <1>2, <2>2
    <3> QED
      BY <1>2, <3>1, <3>2, <3>3, <3>4, SetQueued
  <2> QED
    BY <2>1, <2>2
<1>6. Marked'
  <2>1. \A u \in Timers : timer'[u].marked = timer[u].marked /\ timer'[u].active = timer[u].active
    BY <1>2, <1>5
  <2> QED
    BY <2>1 DEF TimerInv, Marked
<1> QED
  BY <1>5, <1>6 DEF TimerInv

(* timer_del takes it out for good, or leaves that to timer_ran.           *)
LEMMA DelStep ==
  ASSUME TimerInv, NEW t \in Timers, timer_del(t), at' = at, in' = in
  PROVE  TimerInv'
<1>3. DOMAIN queue = 1..Len(queue) /\ queue \in Seq(Timers)
  BY DEF TimerInv
<1>4. Sorted(queue, timer) /\ \A u \in Timers : On(queue, u) <=> timer[u].active /\ ~timer[u].marked
  BY <1>3, InOrder DEF TimerInv
<1>5. CASE timer[t].marked
  <2>1. timer' = [timer EXCEPT ![t].readd = FALSE] /\ queue' = queue
    BY <1>5 DEF timer_del
  <2>2. /\ timer' \in [Timers -> Timer]
        /\ \A u \in Timers : timer'[u].marked = timer[u].marked /\ timer'[u].active = timer[u].active /\ timer'[u].expire = timer[u].expire
    BY <2>1, ZenonT(60) DEF TimerInv, Timer
  <2>3. Sorted(queue', timer')
    BY <1>3, <1>4, <2>1, <2>2 DEF Sorted
  <2>4. \A u \in Timers : On(queue', u) <=> timer'[u].active /\ ~timer'[u].marked
    BY <1>4, <2>1, <2>2
  <2>5. Marked'
    BY <2>2 DEF TimerInv, Marked
  <2> QED
    BY <1>3, <2>1, <2>2, <2>3, <2>4, <2>5, InOrderNext DEF TimerInv
<1>6. CASE ~timer[t].marked
  <2>1. timer' = [timer EXCEPT ![t] = NoTimer] /\ queue' = gen_dequeue(queue, t)
    BY <1>6 DEF timer_del
  <2>2. NoTimer \in Timer /\ ~NoTimer.active /\ ~NoTimer.marked
    BY DEF NoTimer, Timer, Kinds
  <2>3. /\ timer' \in [Timers -> Timer] /\ timer'[t] = NoTimer
        /\ \A u \in Timers : u # t => timer'[u] = timer[u]
    BY <2>1, <2>2 DEF TimerInv
  <2>4. /\ queue' \in Seq(Timers) /\ Sorted(queue', timer)
        /\ \A u \in Timers : On(queue', u) <=> On(queue, u) /\ u # t
    BY <1>3, <1>4, <2>1, Dequeued
  <2>5. Sorted(queue', timer')
    BY <2>3, <2>4, Elsewhere, ZenonT(60)
  <2>6. \A u \in Timers : On(queue', u) <=> timer'[u].active /\ ~timer'[u].marked
    BY <1>4, <2>2, <2>3, <2>4
  <2>7. Marked'
    BY <1>6, <2>2, <2>3 DEF TimerInv, Marked
  <2> QED
    BY <2>3, <2>4, <2>5, <2>6, <2>7, InOrderNext DEF TimerInv
<1> QED
  BY <1>5, <1>6

(* The order of the timers as long as no timer's callback starts or ends.  *)
LEMMA NoTimerRuns ==
  ASSUME TimerInv, UNCHANGED <<timer, queue>>, at # "tcall", at' # "tcall"
  PROVE  TimerInv'
BY DEF TimerInv, Marked, TimersInOrder

(* A timer that is due leaves the queue for its callback.                  *)
LEMMA RunStep ==
  ASSUME TimerInv, timer_run
  PROVE  TimerInv'
<1>1. CASE ~Due
  BY <1>1, NoTimerRuns DEF timer_run
<1>2. CASE Due
  <2> DEFINE t == Head(queue)
             tm == [timer[t] EXCEPT !.marked = TRUE, !.readd = @ \/ timer[t].type = "PERIODIC"]
  <2>1. /\ in' = t /\ queue' = Tail(queue) /\ at' = "tcall" /\ at = "timers" /\ queue # <<>>
        /\ timer' = [timer EXCEPT ![Head(queue)].marked = TRUE, ![Head(queue)].readd = @ \/ timer[Head(queue)].type = "PERIODIC"]
    BY <1>2 DEF timer_run, Due
  <2>2. queue \in Seq(Timers) /\ t \in Timers /\ t = queue[1] /\ queue' \in Seq(Timers) /\ Len(queue) \in Nat \ {0}
        /\ Len(queue') = Len(queue) - 1 /\ \A i \in 1..Len(queue') : queue'[i] = queue[i + 1]
    BY <2>1, HeadTailProperties DEF TimerInv
  <2>3. tm \in Timer /\ tm.active = timer[t].active /\ tm.marked
    BY <2>2, ZenonT(60) DEF TimerInv, Timer
  <2>4. timer' = [timer EXCEPT ![t] = tm]
    BY <2>1, <2>2 DEF TimerInv, Timer
  <2> HIDE DEF tm, t
  <2>5. timer' \in [Timers -> Timer] /\ timer'[t] = tm /\ \A u \in Timers : u # t => timer'[u] = timer[u]
    BY <2>2, <2>3, <2>4 DEF TimerInv
  <2>6. Sorted(queue, timer) /\ \A u \in Timers : On(queue, u) <=> timer[u].active /\ ~timer[u].marked
    BY <2>2, InOrder DEF TimerInv
  <2>7. \A u \in Timers : On(queue', u) <=> On(queue, u) /\ u # t
    <3> SUFFICES ASSUME NEW u \in Timers
                 PROVE  On(queue', u) <=> On(queue, u) /\ u # t
      OBVIOUS
    <3>1. ASSUME NEW i \in 1..Len(queue'), queue'[i] = u
          PROVE  On(queue, u) /\ u # t
      <4>1. i + 1 \in 1..Len(queue) /\ queue[i + 1] = u /\ 1 \in 1..Len(queue) /\ 1 < i + 1
        BY <2>2, <3>1
      <4> QED
        BY <2>2, <2>6, <4>1 DEF On, Sorted
    <3>2. ASSUME NEW i \in 1..Len(queue), queue[i] = u, u # t
          PROVE  On(queue', u)
      <4>1. i # 1
        BY <2>2, <3>2
      <4>2. i - 1 \in 1..Len(queue') /\ queue'[i - 1] = u
        BY <2>2, <3>2, <4>1
      <4> QED
        BY <4>2 DEF On
    <3> QED
      BY <3>1, <3>2 DEF On
  <2>8. Sorted(queue', timer)
    <3> SUFFICES ASSUME NEW i \in 1..Len(queue'), NEW j \in 1..Len(queue'), i < j
                 PROVE  queue'[i] # queue'[j] /\ timer[queue'[i]].expire <= timer[queue'[j]].expire
      BY DEF Sorted
    <3>1. i + 1 \in 1..Len(queue) /\ j + 1 \in 1..Len(queue) /\ i + 1 < j + 1
      BY <2>2
    <3> QED
      BY <2>2, <2>6, <3>1 DEF Sorted
  <2>9. Sorted(queue', timer')
    BY <2>2, <2>5, <2>7, <2>8, Elsewhere, SMTT(60)
  <2>10. On(queue, t)
    BY <2>2 DEF On
  <2>11. \A u \in Timers : On(queue', u) <=> timer'[u].active /\ ~timer'[u].marked
    BY <2>3, <2>5, <2>6, <2>7
  <2>12. Marked'
    <3>1. \A u \in Timers : ~timer[u].marked
      BY <2>1 DEF TimerInv, Marked
    <3> QED
      BY <2>1, <2>2, <2>3, <2>5, <2>6, <2>10, <3>1 DEF Marked
  <2> QED
    BY <2>2, <2>5, <2>9, <2>11, <2>12, InOrderNext DEF TimerInv
<1> QED
  BY <1>1, <1>2

(* The callback has returned: the timer is queued again, or gone.          *)
LEMMA RanStep ==
  ASSUME TimerInv, now \in Nat, timer_ran
  PROVE  TimerInv'
<1>1. at = "tcall" /\ at' = "timers" /\ in \in Timers /\ queue \in Seq(Timers)
  BY DEF timer_ran, TimerInv, Marked
<1>2. timer[in].marked /\ timer[in].active /\ \A u \in Timers : u # in => ~timer[u].marked
  BY <1>1 DEF TimerInv, Marked
<1>3. Sorted(queue, timer) /\ \A u \in Timers : On(queue, u) <=> timer[u].active /\ ~timer[u].marked
  BY <1>1, InOrder DEF TimerInv
<1>4. ~On(queue, in)
  BY <1>1, <1>2, <1>3
<1>5. CASE timer[in].readd
  <2> DEFINE tm == [timer[in] EXCEPT !.marked = FALSE, !.readd = FALSE]
             f == [timer EXCEPT ![in] = tm]
  <2>1. tm \in Timer /\ tm.active /\ ~tm.marked
    BY <1>1, <1>2 DEF TimerInv, Timer
  <2>2. f = [timer EXCEPT ![in].marked = FALSE, ![in].readd = FALSE]
    BY <1>1 DEF TimerInv, Timer
  <2>3. SetTimers(timer_enqueue(f, queue, in))
    BY <1>5, <2>2 DEF timer_ran
  <2> HIDE DEF tm
  <2>4. f \in [Timers -> Timer] /\ f[in] = tm /\ \A u \in Timers : u # in => f[u] = timer[u]
    BY <1>1, <2>1 DEF TimerInv
  <2> HIDE DEF f
  <2>5. Sorted(queue, f)
    BY <1>1, <1>3, <1>4, <2>4, Elsewhere
  <2>6. \A u \in Timers : u # in => (On(queue, u) <=> f[u].active /\ ~f[u].marked)
    BY <1>3, <2>4
  <2>7. /\ timer' \in [Timers -> Timer] /\ queue' \in Seq(Timers) /\ TimersInOrder'
        /\ \A u \in Timers : timer'[u].active = f[u].active /\ timer'[u].marked = f[u].marked
    BY <1>1, <1>4, <2>1, <2>3, <2>4, <2>5, <2>6, SetQueued
  <2>8. \A u \in Timers : ~timer'[u].marked
    BY <1>2, <2>1, <2>4, <2>7
  <2> QED
    BY <1>1, <2>7, <2>8 DEF TimerInv, Marked
<1>6. CASE ~timer[in].readd
  <2>1. timer' = [timer EXCEPT ![in] = NoTimer] /\ queue' = queue
    BY <1>6 DEF timer_ran
  <2>2. NoTimer \in Timer /\ ~NoTimer.active /\ ~NoTimer.marked
    BY DEF NoTimer, Timer, Kinds
  <2>3. timer' \in [Timers -> Timer] /\ timer'[in] = NoTimer /\ \A u \in Timers : u # in => timer'[u] = timer[u]
    BY <1>1, <2>1, <2>2 DEF TimerInv
  <2>4. Sorted(queue', timer')
    BY <1>1, <1>3, <1>4, <2>1, <2>3, Elsewhere, ZenonT(60)
  <2>5. \A u \in Timers : On(queue', u) <=> timer'[u].active /\ ~timer'[u].marked
    BY <1>3, <1>4, <2>1, <2>2, <2>3
  <2>6. Marked'
    BY <1>1, <1>2, <2>2, <2>3 DEF Marked
  <2> QED
    BY <1>1, <2>1, <2>3, <2>4, <2>5, <2>6, InOrderNext DEF TimerInv
<1> QED
  BY <1>5, <1>6
-----------------------------------------------------------------------------
(* A change of one socket that keeps its count.                            *)
LEMMA Recounted ==
  ASSUME SockInv, NEW s \in Socks, NEW r \in Sock, sock' = [sock EXCEPT ![s] = r], at' = at, in' = in,
         r.ref = Held(s), r.destroy \/ Held(s) > 0 => r.active /\ Held(s) > 0
  PROVE  sock' \in [Socks -> Sock] /\ Counted' /\ sock'[s] = r /\ \A u \in Socks : u # s => sock'[u] = sock[u]
<1>1. sock' \in [Socks -> Sock] /\ sock'[s] = r /\ \A u \in Socks : u # s => sock'[u] = sock[u]
  BY DEF SockInv
<1>2. \A u \in Socks : Held(u)' = Held(u)
  BY DEF Held
<1> QED
  BY <1>1, <1>2 DEF SockInv, Counted

(* engine_delete forgets what was reported of s and keeps the rest.        *)
LEMMA Deleted ==
  ASSUME SockInv, NEW s \in Socks, events' = epoll_delete(s)
  PROVE  /\ events' \in Seq(Report)
         /\ \A k \in 1..Len(events') : events'[k].s # s /\ \E j \in 1..Len(events) : events[j] = events'[k]
         /\ \A j, k \in 1..Len(events') : j # k => events'[j].s # events'[k].s
         /\ events = <<>> => events' = <<>>
<1>1. events \in Seq(Report) /\ DOMAIN events = 1..Len(events) /\ Len(events) \in Nat
  BY DEF SockInv
<1>2. \A j, k \in 1..Len(events) : j # k => events[j].s # events[k].s
  BY <1>1 DEF SockInv, Reported
<1>3. CASE ~ \E k \in DOMAIN events : events[k].s = s
  <2>1. events' = events
    BY <1>3 DEF epoll_delete
  <2> QED
    BY <1>1, <1>2, <1>3, <2>1
<1>4. CASE \E k \in DOMAIN events : events[k].s = s
  <2> DEFINE n == ReportOf(s)
             e == [events EXCEPT ![n] = Head(events)]
  <2>1. n \in 1..Len(events) /\ events[n].s = s
    BY <1>1, <1>4 DEF ReportOf
  <2>2. events' = Tail(e)
    BY <1>4 DEF epoll_delete
  <2>3. Head(events) = events[1] /\ Head(events) \in Report /\ events # <<>>
    BY <1>1, <2>1
  <2> HIDE DEF n
  <2>4. e \in Seq(Report) /\ Len(e) = Len(events) /\ \A i \in 1..Len(events) : e[i] = IF i = n THEN events[1] ELSE events[i]
    BY <1>1, <2>1, <2>3, ExceptSeq
  <2> HIDE DEF e
  <2>5. /\ events' \in Seq(Report) /\ Len(events') = Len(events) - 1
        /\ \A i \in 1..(Len(events) - 1) : events'[i] = e[i + 1]
    <3>1. e # <<>>
      BY <2>1, <2>4
    <3> QED
      BY <2>2, <2>4, <3>1, HeadTailProperties
  <2> DEFINE p(i) == IF i + 1 = n THEN 1 ELSE i + 1
  <2>6. \A i \in 1..Len(events') : p(i) \in 1..Len(events) /\ p(i) # n /\ events'[i] = events[p(i)]
    BY <1>1, <2>1, <2>4, <2>5
  <2>7. \A j, k \in 1..Len(events') : j # k => p(j) # p(k)
    BY <1>1, <2>5
  <2> HIDE DEF p
  <2>8. \A k \in 1..Len(events') : events'[k].s # s /\ \E j \in 1..Len(events) : events[j] = events'[k]
    BY <1>2, <2>1, <2>6
  <2>9. \A j, k \in 1..Len(events') : j # k => events'[j].s # events'[k].s
    BY <1>2, <2>6, <2>7, SMTT(60)
  <2> QED
    BY <2>3, <2>5, <2>8, <2>9
<1> QED
  BY <1>3, <1>4

(* Every call that a callback makes for a socket keeps the counts, and     *)
(* leaves reports only of sockets that are open.                           *)
LEMMA SockCalls ==
  ASSUME Usual, SockInv, NEW s \in Socks, at' = at, in' = in,
         \/ \E st \in States : socket_add(s, st)
         \/ socket_del(s)
         \/ \E ok \in BOOLEAN : socket_state(s, ok)
         \/ \E ok \in BOOLEAN, W \in Wants : socket_events(s, W, ok)
  PROVE  SockInv'
<1>1. sock[s] \in Sock /\ sock[s].ref = Held(s) /\ (sock[s].destroy \/ Held(s) > 0 => sock[s].active /\ Held(s) > 0)
  BY DEF SockInv, Counted
<1>2. events \in Seq(Report) /\ DOMAIN events = 1..Len(events)
  BY DEF SockInv
<1>3. \A k \in 1..Len(events) : events[k].s \in Socks /\ sock[events[k].s].active /\ ~sock[events[k].s].destroy
  <2>1. \A k \in 1..Len(events) : events[k] \in Report
    BY <1>2
  <2>2. \A k \in 1..Len(events) : events[k].s \in Socks
    BY <2>1 DEF Report
  <2>3. \A k \in 1..Len(events) : Open(events[k].s)
    BY <1>2 DEF SockInv, Reported
  <2> QED
    BY <2>2, <2>3 DEF Open
<1>4. \A j, k \in 1..Len(events) : j # k => events[j].s # events[k].s
  BY <1>2 DEF SockInv, Reported
<1>5. Held(s) \in Nat
  BY DEF Held
<1>6. ASSUME NEW r \in Sock, sock' = [sock EXCEPT ![s] = r], events' = events, r.ref = sock[s].ref, r.active, r.destroy = sock[s].destroy
      PROVE  SockInv'
  <2>1. sock' \in [Socks -> Sock] /\ Counted' /\ sock'[s] = r /\ \A u \in Socks : u # s => sock'[u] = sock[u]
    BY <1>1, <1>6, Recounted
  <2>2. \A k \in 1..Len(events) : sock'[events[k].s].active /\ ~sock'[events[k].s].destroy
    BY <1>3, <1>6, <2>1
  <2>3. Reported'
    BY <1>2, <1>6, <2>2 DEF SockInv, Reported, Open
  <2> QED
    BY <1>2, <1>6, <2>1, <2>3 DEF SockInv
<1>7. CASE \E st \in States : socket_add(s, st)
  <2>1. PICK st \in States : socket_add(s, st)
    BY <1>7
  <2> DEFINE r == [NoSock EXCEPT !.active = TRUE, !.state = st, !.want = {"IN"}]
  <2>2. r \in Sock /\ r.active /\ r.ref = 0 /\ r.destroy = FALSE
    BY DEF NoSock, Sock, States
  <2>3. ~sock[s].active /\ sock' = [sock EXCEPT ![s] = r] /\ events' = events
    BY <2>1, ZenonT(60) DEF socket_add
  <2>4. sock[s].ref = 0 /\ sock[s].destroy = FALSE
    BY <1>1, <1>5, <2>3 DEF Sock
  <2> HIDE DEF r
  <2> QED
    BY <1>6, <2>2, <2>3, <2>4
<1>8. CASE \E ok \in BOOLEAN : socket_state(s, ok)
  <2>0. PICK ok \in BOOLEAN : socket_state(s, ok)
    BY <1>8
  <2> DEFINE r == [sock[s] EXCEPT !.state = "CONNECTED", !.error = ~ok]
  <2>1. r \in Sock /\ r.active = sock[s].active /\ r.ref = sock[s].ref /\ r.destroy = sock[s].destroy
    BY <1>1 DEF Sock, States
  <2>2. sock' = [sock EXCEPT ![s] = r] /\ sock[s].active /\ events' = events
    BY <2>0 DEF socket_state
  <2> HIDE DEF r
  <2> QED
    BY <1>6, <2>1, <2>2
<1>9. CASE \E ok \in BOOLEAN, W \in Wants : socket_events(s, W, ok)
  <2>1. PICK ok \in BOOLEAN, W \in Wants : socket_events(s, W, ok)
    BY <1>9
  <2> DEFINE r == [sock[s] EXCEPT !.want = W, !.error = ~ok]
  <2>2. r \in Sock /\ r.active = sock[s].active /\ r.ref = sock[s].ref /\ r.destroy = sock[s].destroy
    BY <1>1 DEF Sock, Usual
  <2>3. sock' = [sock EXCEPT ![s] = r] /\ sock[s].active /\ events' = events
    BY <2>1 DEF socket_events
  <2> HIDE DEF r
  <2> QED
    BY <1>6, <2>2, <2>3
<1>10. CASE socket_del(s)
  <2> DEFINE r == IF sock[s].ref = 0 THEN NoSock ELSE [sock[s] EXCEPT !.destroy = TRUE]
  <2>1. sock[s].active /\ ~sock[s].destroy /\ events' = epoll_delete(s) /\ sock' = [sock EXCEPT ![s] = r]
    BY <1>10 DEF socket_del, Open, Destroyed
  <2>2. r \in Sock /\ r.ref = Held(s) /\ (r.destroy \/ Held(s) > 0 => r.active /\ Held(s) > 0)
    <3>1. CASE sock[s].ref = 0
      BY <1>1, <3>1 DEF NoSock, Sock, States
    <3>2. CASE sock[s].ref # 0
      <4>1. r \in Sock /\ r.ref = sock[s].ref /\ r.active = sock[s].active
        BY <1>1, <3>2 DEF Sock
      <4> QED
        BY <1>1, <1>5, <2>1, <3>2, <4>1
    <3> QED
      BY <3>1, <3>2
  <2> HIDE DEF r
  <2>3. sock' \in [Socks -> Sock] /\ Counted' /\ sock'[s] = r /\ \A u \in Socks : u # s => sock'[u] = sock[u]
    BY <2>1, <2>2, Recounted
  <2>4. /\ events' \in Seq(Report)
        /\ \A k \in 1..Len(events') : events'[k].s # s /\ \E j \in 1..Len(events) : events[j] = events'[k]
        /\ \A j, k \in 1..Len(events') : j # k => events'[j].s # events'[k].s
        /\ events = <<>> => events' = <<>>
    BY <2>1, Deleted
  <2>5. DOMAIN events' = 1..Len(events')
    BY <2>4
  <2>6. \A k \in 1..Len(events') : sock'[events'[k].s].active /\ ~sock'[events'[k].s].destroy
    BY <1>3, <2>3, <2>4
  <2>7. Reported'
    BY <2>4, <2>5, <2>6 DEF SockInv, Reported, Open
  <2> QED
    BY <2>3, <2>4, <2>7 DEF SockInv
<1> QED
  BY <1>7, <1>8, <1>9, <1>10

(* The kernel reports some of the sockets that are open, each once.        *)
LEMMA WaitStep ==
  ASSUME Usual, SockInv, epoll_wait
  PROVE  SockInv'
<1>1. at = "wait" /\ at' = "events" /\ sock' = sock /\ in' = in
  BY DEF epoll_wait
<1>2. PICK A \in SUBSET {s \in Socks : Open(s) /\ Reports(s) # {}} :
        \E f \in [A -> SUBSET {"IN", "OUT", "ERR", "HUP"}], q \in SetToSeqs(A) :
          events' = [k \in DOMAIN q |-> [s |-> q[k], k |-> f[q[k]]]]
  BY DEF epoll_wait
<1>3. PICK f \in [A -> SUBSET {"IN", "OUT", "ERR", "HUP"}], q \in SetToSeqs(A) :
        events' = [k \in DOMAIN q |-> [s |-> q[k], k |-> f[q[k]]]]
  BY <1>2
<1> DEFINE n == Cardinality(A)
<1>4. n \in Nat
  <2>1. A \in SUBSET Socks
    BY <1>2
  <2> QED
    BY <2>1, FS_Subset, FS_CardinalityType DEF Usual
<1>5. q \in [1..n -> A] /\ \A i, j \in 1..n : i # j => q[i] # q[j]
  BY <1>3 DEF SetToSeqs
<1> HIDE DEF n
<1>6. events' \in [1..n -> Report] /\ \A k \in 1..n : events'[k].s = q[k]
  <2>1. \A k \in 1..n : [s |-> q[k], k |-> f[q[k]]] \in Report
    BY <1>2, <1>3, <1>5 DEF Report
  <2> QED
    BY <1>3, <1>5, <2>1
<1>7. events' \in Seq(Report) /\ DOMAIN events' = 1..n
  BY <1>4, <1>6, IsASeq
<1>8. Reported'
  BY <1>1, <1>2, <1>5, <1>6, <1>7, SMTT(60) DEF Reported, Open
<1>9. Counted'
  BY <1>1 DEF SockInv, Counted, Held
<1> QED
  BY <1>1, <1>7, <1>8, <1>9 DEF SockInv

(* The loop takes the next report, calls back, returns and lets go: one    *)
(* reference for the socket in hand, two during its callback.              *)
LEMMA LoopSteps ==
  ASSUME SockInv, engine_loop \/ event_generate \/ event_execute \/ EventsDone
  PROVE  SockInv'
<1>1. events \in Seq(Report) /\ DOMAIN events = 1..Len(events) /\ sock \in [Socks -> Sock]
  BY DEF SockInv
<1>2. \A k \in 1..Len(events) : events[k].s \in Socks /\ sock[events[k].s].active /\ ~sock[events[k].s].destroy
  <2>1. \A k \in 1..Len(events) : events[k] \in Report
    BY <1>1
  <2>2. \A k \in 1..Len(events) : events[k].s \in Socks
    BY <2>1 DEF Report
  <2>3. \A k \in 1..Len(events) : Open(events[k].s)
    BY <1>1 DEF SockInv, Reported
  <2> QED
    BY <2>2, <2>3 DEF Open
<1>3. \A j, k \in 1..Len(events) : j # k => events[j].s # events[k].s
  BY <1>1 DEF SockInv, Reported
<1>4. \A s \in Socks : sock[s] \in Sock /\ sock[s].ref = Held(s) /\ (sock[s].destroy \/ Held(s) > 0 => sock[s].active /\ Held(s) > 0)
  BY <1>1 DEF SockInv, Counted
<1>5. CASE engine_loop
  <2> DEFINE s == Head(events).s
             r == [sock[s] EXCEPT !.ref = 1]
  <2>1. at = "events" /\ events # <<>> /\ events' = Tail(events) /\ at' = "gen" /\ in' = s /\ sock' = [sock EXCEPT ![s].ref = @ + 1]
    BY <1>5 DEF engine_loop, gen_ref_inc
  <2>2. /\ s = events[1].s /\ s \in Socks /\ Len(events) \in Nat \ {0}
        /\ events' \in Seq(Report) /\ Len(events') = Len(events) - 1 /\ \A i \in 1..Len(events') : events'[i] = events[i + 1]
    BY <1>1, <1>2, <2>1, HeadTailProperties
  <2> HIDE DEF s
  <2>3. sock[s].active /\ ~sock[s].destroy /\ sock[s].ref = 0
    BY <1>2, <1>4, <2>1, <2>2 DEF Held
  <2>4. r \in Sock /\ r.active = sock[s].active /\ r.destroy = sock[s].destroy /\ r.ref = 1
    BY <1>4, <2>2, <2>3, ZenonT(60) DEF Sock
  <2>5. sock' = [sock EXCEPT ![s] = r]
    <3>1. sock[s].ref + 1 = 1
      BY <2>3
    <3> QED
      BY <2>1, <3>1
  <2> HIDE DEF r
  <2>6. sock' \in [Socks -> Sock] /\ sock'[s] = r /\ \A u \in Socks : u # s => sock'[u] = sock[u]
    BY <1>1, <2>2, <2>4, <2>5
  <2>7. \A u \in Socks : Held(u)' = IF u = s THEN 1 ELSE 0
    BY <2>1 DEF Held
  <2>8. \A u \in Socks : Held(u) = 0
    BY <2>1 DEF Held
  <2>9. Counted'
    BY <1>4, <2>1, <2>2, <2>3, <2>4, <2>6, <2>7, <2>8 DEF Counted
  <2>10. DOMAIN events' = 1..Len(events') /\ \A k \in 1..Len(events') : k + 1 \in 1..Len(events)
    BY <2>2
  <2>11. \A k \in 1..Len(events') : sock'[events'[k].s].active /\ ~sock'[events'[k].s].destroy
    <3> SUFFICES ASSUME NEW k \in 1..Len(events')
                 PROVE  sock'[events'[k].s].active /\ ~sock'[events'[k].s].destroy
      OBVIOUS
    <3>1. events'[k] = events[k + 1] /\ k + 1 \in 1..Len(events) /\ 1 \in 1..Len(events) /\ k + 1 # 1
      BY <2>2, <2>10
    <3>2. events[k + 1].s # s
      BY <1>3, <2>2, <3>1
    <3> QED
      BY <1>2, <2>6, <3>1, <3>2
  <2>12. \A j, k \in 1..Len(events') : j # k => events'[j].s # events'[k].s
    BY <1>3, <2>2, <2>10, SMTT(60)
  <2>13. Reported'
    BY <2>1, <2>10, <2>11, <2>12 DEF Reported, Open
  <2> QED
    BY <2>2, <2>6, <2>9, <2>13 DEF SockInv
<1>6. ASSUME at \in {"gen", "call"}, at' \in {"gen", "call", "events"}, events' = events,
             NEW r \in Sock, sock' = [sock EXCEPT ![in] = r], at' # "events" => in' = in,
             r.ref = (IF at' = "gen" THEN 1 ELSE IF at' = "call" THEN 2 ELSE 0),
             r.destroy \/ at' # "events" => r.active /\ at' # "events",
             ~sock[in].destroy => r.active /\ ~r.destroy
      PROVE  SockInv'
  <2>1. in \in Socks
    BY <1>6 DEF SockInv, Counted
  <2>2. sock' \in [Socks -> Sock] /\ sock'[in] = r /\ \A u \in Socks : u # in => sock'[u] = sock[u]
    BY <1>1, <1>6, <2>1
  <2>3. \A u \in Socks : u # in => Held(u) = 0 /\ Held(u)' = 0
    BY <1>6 DEF Held
  <2>4. Held(in)' = r.ref
    BY <1>6 DEF Held
  <2>5. Counted'
    <3>1. at' \in {"gen", "call"} => in' \in Socks
      BY <1>6, <2>1
    <3>2. ASSUME NEW u \in Socks, u # in
          PROVE  sock'[u].ref = Held(u)' /\ (sock'[u].destroy \/ Held(u)' > 0 => sock'[u].active /\ Held(u)' > 0)
      BY <1>4, <2>2, <2>3, <3>2
    <3>3. Held(in)' = (IF at' = "gen" THEN 1 ELSE IF at' = "call" THEN 2 ELSE 0)
      BY <1>6, <2>4
    <3>4. sock'[in].ref = Held(in)' /\ (sock'[in].destroy \/ Held(in)' > 0 => sock'[in].active /\ Held(in)' > 0)
      BY <1>6, <2>2, <2>4, <3>3
    <3>5. \A u \in Socks : sock'[u].ref = Held(u)' /\ (sock'[u].destroy \/ Held(u)' > 0 => sock'[u].active /\ Held(u)' > 0)
      <4> SUFFICES ASSUME NEW u \in Socks
                   PROVE  sock'[u].ref = Held(u)' /\ (sock'[u].destroy \/ Held(u)' > 0 => sock'[u].active /\ Held(u)' > 0)
        OBVIOUS
      <4>1. CASE u = in
        <5>1. Held(u)' = r.ref
          BY <1>6, <4>1 DEF Held
        <5> QED
          BY <1>6, <2>2, <4>1, <5>1
      <4> QED
        BY <3>2, <4>1
    <3> QED
      BY <3>1, <3>5 DEF Counted
  <2>6. \A k \in 1..Len(events) : sock'[events[k].s].active /\ ~sock'[events[k].s].destroy
    BY <1>2, <1>6, <2>2
  <2>7. Reported'
    BY <1>1, <1>3, <1>6, <2>6 DEF Reported, Open
  <2> QED
    BY <1>1, <1>6, <2>2, <2>5, <2>7 DEF SockInv
<1>7. at \in {"gen", "call"} => in \in Socks /\ sock[in] \in Sock /\ sock[in].active /\ sock[in].ref = IF at = "gen" THEN 1 ELSE 2
  BY <1>4 DEF SockInv, Counted, Held
<1>8. CASE event_generate
  <2>1. at = "gen" /\ events' = events /\ in' = in
    BY <1>8 DEF event_generate
  <2>2. CASE sock[in].destroy
    <3>1. sock' = sock /\ at' = at
      BY <1>8, <2>2 DEF event_generate
    <3>2. sock' = [sock EXCEPT ![in] = sock[in]]
      BY <1>1, <3>1
    <3> QED
      BY <1>6, <1>7, <2>1, <2>2, <3>1, <3>2
  <2>3. CASE ~sock[in].destroy
    <3> DEFINE b == sock[in].error \/ Head(todo) = "ERROR"
               r == [sock[in] EXCEPT !.ref = 2, !.error = b]
    <3>1. at' = "call" /\ sock' = [[sock EXCEPT ![in].ref = @ + 1] EXCEPT ![in].error = @ \/ Head(todo) = "ERROR"]
      BY <1>8, <2>3 DEF event_generate, gen_ref_inc
    <3>2. b \in BOOLEAN
      OBVIOUS
    <3>3. sock' = [sock EXCEPT ![in] = r]
      <4>1. sock[in].ref + 1 = 2
        BY <1>7, <2>1
      <4>2. [sock EXCEPT ![in].ref = @ + 1] = [sock EXCEPT ![in].ref = 2]
        BY <4>1
      <4> QED
        BY <1>1, <1>7, <2>1, <3>1, <4>2 DEF Sock
    <3> HIDE DEF b
    <3>4. r \in Sock /\ r.active = sock[in].active /\ r.destroy = sock[in].destroy /\ r.ref = 2
      BY <1>7, <2>1, <3>2 DEF Sock
    <3> HIDE DEF r
    <3> QED
      BY <1>6, <1>7, <2>1, <2>3, <3>1, <3>3, <3>4
  <2> QED
    BY <2>2, <2>3
<1>9. CASE event_execute
  <2> DEFINE r == [sock[in] EXCEPT !.ref = @ - 1]
  <2>1. at = "call" /\ at' = "gen" /\ events' = events /\ in' = in /\ sock' = gen_ref_dec(sock, in)
    BY <1>9 DEF event_execute
  <2>2. sock' = [sock EXCEPT ![in] = r]
    BY <1>7, <2>1 DEF gen_ref_dec
  <2>3. r \in Sock /\ r.active = sock[in].active /\ r.destroy = sock[in].destroy /\ r.ref = 1
    BY <1>7, <2>1 DEF Sock
  <2> HIDE DEF r
  <2> QED
    BY <1>6, <1>7, <2>1, <2>2, <2>3
<1>10. CASE EventsDone
  <2> DEFINE r == IF sock[in].destroy THEN NoSock ELSE [sock[in] EXCEPT !.ref = @ - 1]
  <2>1. at = "gen" /\ at' = "events" /\ events' = events /\ sock' = gen_ref_dec(sock, in)
    BY <1>10 DEF EventsDone
  <2>2. sock' = [sock EXCEPT ![in] = r]
    BY <1>7, <2>1 DEF gen_ref_dec
  <2>3. r \in Sock /\ ~r.destroy /\ r.ref = 0 /\ (~sock[in].destroy => r.active)
    <3>1. CASE sock[in].destroy
      BY <3>1 DEF NoSock, Sock, States
    <3>2. CASE ~sock[in].destroy
      BY <1>7, <2>1, <3>2 DEF Sock
    <3> QED
      BY <3>1, <3>2
  <2> HIDE DEF r
  <2> QED
    BY <1>6, <1>7, <2>1, <2>2, <2>3
<1> QED
  BY <1>5, <1>8, <1>9, <1>10
-----------------------------------------------------------------------------
(* The loop starts with one listener and one timer.                        *)
LEMMA StartInv ==
  ASSUME Usual, EvInit
  PROVE  EvInv
<1>1. TypesOK
  <2>1. NoSock \in Sock /\ [NoSock EXCEPT !.active = TRUE, !.state = "LISTENING"] \in Sock
    BY DEF Sock, NoSock, States
  <2>2. sock \in [Socks -> Sock]
    BY <2>1 DEF EvInit
  <2>3. NoTimer \in Timer /\ [NoTimer EXCEPT !.active = TRUE, !.value = 1, !.expire = 1] \in Timer
    BY DEF Timer, NoTimer, Kinds
  <2>4. timer \in [Timers -> Timer]
    BY <2>3 DEF EvInit
  <2> QED
    BY <2>2, <2>4 DEF EvInit, Usual, TypesOK
<1>2. /\ \A s \in Socks : sock[s].ref = 0 /\ ~sock[s].destroy
      /\ \A t \in Timers : ~timer[t].marked /\ (timer[t].active <=> t = 1)
  BY DEF Usual, EvInit, NoSock, NoTimer
<1>3. queue = <<1>> /\ DOMAIN queue = {1} /\ events = <<>> /\ at = "wait"
  BY DEF EvInit
<1>4. Counted
  BY <1>2, <1>3 DEF Counted, Held
<1>5. Reported
  BY <1>3 DEF Reported
<1>6. Marked
  BY <1>2, <1>3 DEF Marked
<1>7. TimersInOrder
  BY <1>2, <1>3 DEF TimersInOrder
<1> QED
  BY <1>1, <1>4, <1>5, <1>6, <1>7 DEF EvInv

(* Every step of the loop and every call of a callback keep the invariant. *)
LEMMA StepInv ==
  ASSUME Usual, EvInv, [EvNext]_evars
  PROVE  EvInv'
<1>0. /\ SockInv /\ TimerInv /\ now \in Nat
      /\ at \in {"wait", "events", "gen", "call", "timers", "tcall"}
  BY DEF EvInv, SockInv, TimerInv, TypesOK
<1> SUFFICES /\ SockInv' /\ TimerInv' /\ now' \in Nat
             /\ at' \in {"wait", "events", "gen", "call", "timers", "tcall"}
  BY DEF EvInv, SockInv, TimerInv, TypesOK
<1>1. ASSUME UNCHANGED <<sock, events, at, in>>
      PROVE  SockInv'
  BY <1>0, <1>1 DEF SockInv, Counted, Held, Reported, Open
<1>2. ASSUME UNCHANGED <<sock, events>>, at \notin {"gen", "call"}, at' \notin {"gen", "call"},
             at' \in {"wait", "timers", "tcall"} => events = <<>>
      PROVE  SockInv'
  BY <1>0, <1>2 DEF SockInv, Counted, Held, Reported, Open
<1>3. ASSUME UNCHANGED <<timer, queue, at, in>>
      PROVE  TimerInv'
  BY <1>0, <1>3 DEF TimerInv, Marked, TimersInOrder
<1>4. CASE UNCHANGED evars
  BY <1>0, <1>1, <1>3, <1>4 DEF evars
<1>5. CASE HandlerCalls
  <2>1. at' = at /\ in' = in /\ now' = now
    BY <1>5 DEF HandlerCalls
  <2>2. ASSUME NEW s \in Socks,
               \/ \E st \in States : socket_add(s, st)
               \/ socket_del(s)
               \/ \E ok \in BOOLEAN : socket_state(s, ok)
               \/ \E ok \in BOOLEAN, W \in Wants : socket_events(s, W, ok)
        PROVE  SockInv' /\ TimerInv'
    <3>1. UNCHANGED <<timer, queue>>
      BY <2>2, ZenonT(60) DEF socket_add, socket_del, socket_state, socket_events
    <3> QED
      BY <1>0, <1>3, <2>1, <2>2, <3>1, SockCalls
  <2>3. ASSUME NEW t \in Timers, NEW ty \in Types, NEW v \in Delays, timer_add(t, ty, v)
        PROVE  SockInv' /\ TimerInv'
    <3>1. UNCHANGED <<sock, events>>
      BY <2>3 DEF timer_add
    <3> QED
      BY <1>0, <1>1, <2>1, <2>3, <3>1, AddStep
  <2>4. ASSUME NEW t \in Timers, timer_del(t)
        PROVE  SockInv' /\ TimerInv'
    <3>1. UNCHANGED <<sock, events>>
      BY <2>4 DEF timer_del
    <3> QED
      BY <1>0, <1>1, <2>1, <2>4, <3>1, DelStep
  <2>5. ASSUME NEW t \in Timers, NEW ty \in Types \ {"PERIODIC"}, NEW v \in Delays,
               timer_chg(t, ty, IF ty = "ABSOLUTE" THEN now + v ELSE v)
        PROVE  SockInv' /\ TimerInv'
    <3>1. UNCHANGED <<sock, events>>
      BY <2>5 DEF timer_chg
    <3>2. (IF ty = "ABSOLUTE" THEN now + v ELSE v) \in Nat
      BY <1>0, <2>5 DEF Usual
    <3> QED
      BY <1>0, <1>1, <2>1, <2>5, <3>1, <3>2, ChgStep
  <2>6. SockInv' /\ TimerInv'
    BY <1>5, <2>2, <2>3, <2>4, <2>5 DEF HandlerCalls
  <2> QED
    BY <1>0, <2>1, <2>6
<1>6. CASE epoll_wait
  <2>1. at = "wait" /\ at' = "events" /\ now' \in {now, now + 1} /\ UNCHANGED <<timer, queue>>
    BY <1>6 DEF epoll_wait
  <2> QED
    BY <1>0, <1>6, <2>1, WaitStep, NoTimerRuns
<1>7. CASE engine_loop \/ event_generate \/ event_execute \/ EventsDone
  <2>1. /\ at \in {"events", "gen", "call"} /\ at' \in {"events", "gen", "call"}
        /\ UNCHANGED <<timer, queue, now>>
    BY <1>7 DEF engine_loop, event_generate, event_execute, EventsDone
  <2> QED
    BY <1>0, <1>7, <2>1, LoopSteps, NoTimerRuns
<1>8. CASE ToTimers
  BY <1>0, <1>2, <1>8, NoTimerRuns DEF ToTimers
<1>9. CASE timer_run
  <2>1. at = "timers" /\ at' \in {"tcall", "wait"} /\ UNCHANGED <<sock, events, now>>
    BY <1>9 DEF timer_run
  <2>2. events = <<>>
    BY <1>0, <2>1 DEF SockInv, Reported
  <2> QED
    BY <1>0, <1>2, <1>9, <2>1, <2>2, RunStep
<1>10. CASE timer_ran
  <2>1. at = "tcall" /\ at' = "timers" /\ UNCHANGED <<sock, events, now>>
    BY <1>10 DEF timer_ran
  <2>2. events = <<>>
    BY <1>0, <2>1 DEF SockInv, Reported
  <2> QED
    BY <1>0, <1>2, <1>10, <2>1, <2>2, RanStep
<1> QED
  BY <1>4, <1>5, <1>6, <1>7, <1>8, <1>9, <1>10 DEF EvNext

(* The invariant says what EventsHold says.                                *)
LEMMA InvHolds ==
  ASSUME EvInv
  PROVE  EventsHold
<1>1. \A k \in DOMAIN events : Open(events[k].s)
  BY DEF EvInv, Reported
<1>2. at \in {"gen", "call"} => sock[in].active /\ sock[in].ref = IF at = "call" THEN 2 ELSE 1
  BY DEF EvInv, Counted, Held
<1>3. at = "wait" => \A s \in Socks : ~sock[s].destroy /\ sock[s].ref = 0
  BY DEF EvInv, Counted, Held
<1> QED
  BY <1>1, <1>2, <1>3 DEF EvInv, EventsHold, HeldIsAlive

(* Whatever callbacks delete, add and change, the loop never holds a       *)
(* socket that was told ET_DESTROY, leaves none untold, and keeps every    *)
(* armed timer once and in order (gen_ref_dec, engine_delete, timer_run).  *)
THEOREM LoopHolds == EvSpec => []EventsHold
<1>0. Usual
  BY EventsAssumption DEF Usual, Kinds
<1>1. EvInit => EvInv
  BY <1>0, StartInv
<1>2. EvInv /\ [EvNext]_evars => EvInv'
  BY <1>0, StepInv
<1>3. EvInv => EventsHold
  BY <1>0, InvHolds
<1> QED
  BY <1>1, <1>2, <1>3, PTL DEF EvSpec
=============================================================================
