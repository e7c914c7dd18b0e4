------------------------------- MODULE Events -------------------------------
(***************************************************************************)
(* The event loop: ircd_events.c and engine_epoll.c.  The loop asks the    *)
(* kernel for events, gives each to the callback of its socket, then runs  *)
(* the timers that are due.  A callback may close, add or change any       *)
(* socket and any timer, those that the loop is busy with included; a      *)
(* socket is kept until nobody holds it (gh_ref) and then told ET_DESTROY, *)
(* after which its memory may go.                                          *)
(***************************************************************************)
EXTENDS Naturals, Sequences, SequencesExt

CONSTANTS
  Socks, Timers,
  Wants,       \* sets of events that callbacks ask for
  Types,       \* kinds of timers that callbacks use
  Delays,      \* and their values
  MaxTime,     \* bound: clock
  MaxCalls     \* bound: calls to this module from one callback

(* The loop starts with one listener and one timer; a process has finitely *)
(* many sockets; events, kinds of timers and times are those of the code.  *)
ASSUME EventsAssumption ==
  /\ 1 \in Socks /\ IsFiniteSet(Socks) /\ 1 \in Timers
  /\ Wants \subseteq SUBSET {"IN", "OUT"} /\ Types \subseteq {"ABSOLUTE", "RELATIVE", "PERIODIC"} /\ Delays \subseteq Nat

VARIABLES
  sock,      \* the sockets
  timer,     \* the timers
  queue,     \* evInfo.gens.g_timer, by expiration
  events,    \* events[0..events_used-1] of engine_loop, the last first
  todo,      \* events still to be generated for the socket in hand
  at,        \* where the loop is: wait, events, gen, call, timers or tcall
  in,        \* the socket or the timer in hand
  calls, now

evars == <<sock, timer, queue, events, todo, at, in, calls, now>>
-----------------------------------------------------------------------------
States == {"CONNECTING", "LISTENING", "CONNECTED"}
NoSock == [active |-> FALSE, destroy |-> FALSE, error |-> FALSE, ref |-> 0, state |-> "CONNECTED", want |-> {}]
NoTimer == [active |-> FALSE, marked |-> FALSE, readd |-> FALSE, type |-> "ABSOLUTE", value |-> 0, expire |-> 0]

(* event_generate of ET_DESTROY: the callback may free what it is given. *)
Destroyed(s) == [sock EXCEPT ![s] = NoSock]

gen_ref_inc(f, s) == [f EXCEPT ![s].ref = @ + 1]
gen_ref_dec(f, s) ==
  IF f[s].ref = 1 /\ f[s].destroy THEN [f EXCEPT ![s] = NoSock] ELSE [f EXCEPT ![s].ref = @ - 1]

(* set_events: what the kernel is asked to report. *)
epoll_set_events(s) ==
  CASE sock[s].state = "CONNECTING" -> {"OUT"}
    [] sock[s].state = "LISTENING" -> {"IN"}
    [] sock[s].state = "CONNECTED" -> sock[s].want
Open(s) == sock[s].active /\ ~sock[s].destroy
(* A report with ERR, or with HUP, is handled the same whatever else is in it. *)
Reports(s) == ((SUBSET epoll_set_events(s)) \ {{}}) \cup {{"ERR"}, {"HUP"}}
-----------------------------------------------------------------------------
(* Sockets: what a callback may call. *)
socket_add(s, st) ==
  /\ ~sock[s].active
  /\ sock' = [sock EXCEPT ![s] = [NoSock EXCEPT !.active = TRUE, !.state = st, !.want = {"IN"}]]
  /\ UNCHANGED <<timer, queue, events>>

(* engine_delete: what the kernel has reported of s is forgotten, the last *)
(* of events[] takes its place.                                            *)
ReportOf(s) == CHOOSE k \in DOMAIN events : events[k].s = s
epoll_delete(s) ==
  IF \E k \in DOMAIN events : events[k].s = s
  THEN Tail([events EXCEPT ![ReportOf(s)] = Head(events)])
  ELSE events
socket_del(s) ==
  /\ Open(s)
  /\ events' = epoll_delete(s)
  /\ sock' = IF sock[s].ref = 0 THEN Destroyed(s) ELSE [sock EXCEPT ![s].destroy = TRUE]
  /\ UNCHANGED <<timer, queue>>

(* When epoll_ctl refuses a change (ok is FALSE) an ET_ERROR is generated  *)
(* at once, inside the callback that is running: what its own callback     *)
(* calls is among the calls that follow.                                   *)
socket_state(s, ok) ==
  /\ sock[s].active /\ sock[s].state = "CONNECTING" /\ ~sock[s].destroy /\ ~sock[s].error
  /\ sock' = [sock EXCEPT ![s].state = "CONNECTED", ![s].error = ~ok]
  /\ UNCHANGED <<timer, queue, events>>

socket_events(s, W, ok) ==
  /\ sock[s].active /\ ~sock[s].destroy /\ ~sock[s].error /\ sock[s].want # W
  /\ sock' = [sock EXCEPT ![s].want = W, ![s].error = ~ok]
  /\ UNCHANGED <<timer, queue, events>>
-----------------------------------------------------------------------------
(* Timers. *)

Expire(tm) == IF tm.type = "ABSOLUTE" THEN tm.value ELSE tm.value + now
(* A timer goes before the first one that expires later: at place n. *)
Place(tms, q, e, n) ==
  /\ \A k \in 1..(n - 1) : tms[q[k]].expire <= e
  /\ n <= Len(q) => e < tms[q[n]].expire
timer_enqueue(tms, q, t) ==
  LET e == Expire(tms[t])
  IN  [tms |-> [tms EXCEPT ![t].expire = e],
       q |-> InsertAt(q, CHOOSE n \in 1..(Len(q) + 1) : Place(tms, q, e, n), t)]
gen_dequeue(q, t) ==
  IF \E k \in DOMAIN q : q[k] = t THEN RemoveAt(q, CHOOSE k \in DOMAIN q : q[k] = t) ELSE q
SetTimers(r) == timer' = r.tms /\ queue' = r.q

(* Mutant: a timer that is running is queued at once as well. *)
AddQueuesMarked(t, ty, v) ==
  /\ ~\E k \in DOMAIN queue : queue[k] = t
  /\ LET tm == [timer[t] EXCEPT !.active = TRUE, !.readd = @ \/ timer[t].marked, !.type = ty, !.value = v, !.expire = 0]
     IN  SetTimers(timer_enqueue([timer EXCEPT ![t] = tm], queue, t))
  /\ UNCHANGED <<sock, events>>
(* Callers see to it that the timer is not on the queue. *)
timer_add(t, ty, v) ==
  /\ ~\E k \in DOMAIN queue : queue[k] = t
  /\ LET tm == [timer[t] EXCEPT !.active = TRUE, !.readd = @ \/ timer[t].marked, !.type = ty, !.value = v, !.expire = 0]
         tms == [timer EXCEPT ![t] = tm]
     IN  IF tm.marked THEN SetTimers([tms |-> tms, q |-> queue]) ELSE SetTimers(timer_enqueue(tms, queue, t))
  /\ UNCHANGED <<sock, events>>

timer_del(t) ==
  /\ timer[t].active
  /\ IF timer[t].marked THEN timer' = [timer EXCEPT ![t].readd = FALSE] /\ UNCHANGED queue
     ELSE timer' = [timer EXCEPT ![t] = NoTimer] /\ queue' = gen_dequeue(queue, t)
  /\ UNCHANGED <<sock, events>>

timer_chg(t, ty, v) ==
  /\ timer[t].active /\ timer[t].type # "PERIODIC"
  /\ LET tm == [timer[t] EXCEPT !.readd = @ \/ timer[t].marked, !.type = ty, !.value = v, !.expire = 0]
         tms == [timer EXCEPT ![t] = tm]
     IN  IF timer[t].marked THEN SetTimers([tms |-> tms, q |-> queue])
         ELSE SetTimers(timer_enqueue(tms, gen_dequeue(queue, t), t))
  /\ UNCHANGED <<sock, events>>
-----------------------------------------------------------------------------
(* A callback is running, of a socket or of a timer. *)
HandlerCalls ==
  /\ at \in {"call", "tcall"} /\ calls < MaxCalls /\ calls' = calls + 1
  /\ \/ \E s \in Socks :
          \/ \E st \in States : socket_add(s, st)
          \/ socket_del(s)
          \/ \E ok \in BOOLEAN : socket_state(s, ok) \/ \E W \in Wants : socket_events(s, W, ok)
     \/ \E t \in Timers :
          \/ \E ty \in Types, v \in Delays : timer_add(t, ty, v)
          \/ timer_del(t)
          \/ \E ty \in Types \ {"PERIODIC"}, v \in Delays : timer_chg(t, ty, IF ty = "ABSOLUTE" THEN now + v ELSE v)
  /\ UNCHANGED <<todo, at, in, now>>

(* The engine. *)
epoll_wait ==
  /\ at = "wait" /\ at' = "events"
  /\ now < MaxTime /\ now' \in {now, now + 1}
  /\ \E A \in SUBSET {s \in Socks : Open(s) /\ Reports(s) # {}} :
       \E f \in [A -> SUBSET {"IN", "OUT", "ERR", "HUP"}], q \in SetToSeqs(A) :
         /\ \A s \in A : f[s] \in Reports(s)
         /\ events' = [k \in DOMAIN q |-> [s |-> q[k], k |-> f[q[k]]]]
  /\ UNCHANGED <<sock, timer, queue, todo, in, calls>>

(* The events that a report becomes, by the state of the socket; of an     *)
(* error nothing if getsockopt has none.                                   *)
Generates(s, k) ==
  IF "ERR" \in k THEN {<<"ERROR">>, <<>>}
  ELSE IF "HUP" \in k THEN {<<"EOF">>}
  ELSE {CASE sock[s].state = "CONNECTING" -> IF "OUT" \in k THEN <<"CONNECT">> ELSE <<>>
         [] sock[s].state = "LISTENING" -> IF "IN" \in k THEN <<"ACCEPT">> ELSE <<>>
         [] sock[s].state = "CONNECTED" ->
              (IF "IN" \in k THEN <<"READ">> ELSE <<>>) \o (IF "OUT" \in k THEN <<"WRITE">> ELSE <<>>)}
engine_loop ==
  /\ at = "events" /\ events # <<>>
  /\ LET e == Head(events)
     IN  sock' = gen_ref_inc(sock, e.s) /\ in' = e.s /\ todo' \in Generates(e.s, e.k)
  /\ events' = Tail(events) /\ at' = "gen"
  /\ UNCHANGED <<timer, queue, calls, now>>

(* event_generate, up to the callback: nothing is generated any more for a *)
(* socket that was deleted.                                                *)
event_generate ==
  /\ at = "gen" /\ todo # <<>> /\ todo' = Tail(todo)
  /\ IF sock[in].destroy THEN UNCHANGED <<sock, at, calls>>
     ELSE /\ sock' = [gen_ref_inc(sock, in) EXCEPT ![in].error = @ \/ Head(todo) = "ERROR"]
          /\ at' = "call" /\ calls' = 0
  /\ UNCHANGED <<timer, queue, events, in, now>>
(* The callback returns to event_execute. *)
event_execute ==
  /\ at = "call" /\ at' = "gen"
  /\ sock' = gen_ref_dec(sock, in)
  /\ calls' = 0
  /\ UNCHANGED <<timer, queue, events, todo, in, now>>
EventsDone ==
  /\ at = "gen" /\ todo = <<>> /\ at' = "events"
  /\ sock' = gen_ref_dec(sock, in) /\ in' = 0
  /\ UNCHANGED <<timer, queue, events, todo, calls, now>>

ToTimers ==
  /\ at = "events" /\ events = <<>> /\ at' = "timers"
  /\ UNCHANGED <<sock, timer, queue, events, todo, in, calls, now>>
Due == queue # <<>> /\ timer[Head(queue)].expire <= now
timer_run ==
  /\ at = "timers"
  /\ IF Due
     THEN /\ in' = Head(queue) /\ queue' = Tail(queue) /\ at' = "tcall" /\ calls' = 0
          /\ timer' = [timer EXCEPT ![Head(queue)].marked = TRUE,
                                    ![Head(queue)].readd = @ \/ timer[Head(queue)].type = "PERIODIC"]
     ELSE at' = "wait" /\ UNCHANGED <<in, queue, calls, timer>>
  /\ UNCHANGED <<sock, events, todo, now>>
(* The callback of a timer returns: the timer is queued again or destroyed. *)
timer_ran ==
  /\ at = "tcall" /\ at' = "timers"
  /\ IF timer[in].readd
     THEN SetTimers(timer_enqueue([timer EXCEPT ![in].marked = FALSE, ![in].readd = FALSE], queue, in))
     ELSE timer' = [timer EXCEPT ![in] = NoTimer] /\ UNCHANGED queue
  /\ in' = 0 /\ calls' = 0
  /\ UNCHANGED <<sock, events, todo, now>>
-----------------------------------------------------------------------------
EvInit ==
  /\ sock = [s \in Socks |-> IF s = 1 THEN [NoSock EXCEPT !.active = TRUE, !.state = "LISTENING"] ELSE NoSock]
  /\ timer = [t \in Timers |-> IF t = 1 THEN [NoTimer EXCEPT !.active = TRUE, !.value = 1, !.expire = 1] ELSE NoTimer]
  /\ queue = <<1>> /\ events = <<>> /\ todo = <<>> /\ at = "wait" /\ in = 0 /\ calls = 0 /\ now = 0

EvNext ==
  \/ HandlerCalls
  \/ epoll_wait
  \/ engine_loop
  \/ event_generate
  \/ event_execute
  \/ EventsDone
  \/ ToTimers
  \/ timer_run
  \/ timer_ran

EvSpec == EvInit /\ [][EvNext]_evars
-----------------------------------------------------------------------------
(* The loop never holds, runs or has a report of a socket that was told    *)
(* ET_DESTROY, whatever callbacks delete (socket_del, engine_delete,       *)
(* gen_ref_dec); and between two rounds no deleted socket is left untold.  *)
HeldIsAlive ==
  /\ \A k \in DOMAIN events : Open(events[k].s)
  /\ at \in {"gen", "call"} => sock[in].active /\ sock[in].ref = IF at = "call" THEN 2 ELSE 1
  /\ at = "wait" => \A s \in Socks : ~sock[s].destroy /\ sock[s].ref = 0

(* The queue holds each armed timer once, in the order of expiration; the  *)
(* timer whose callback is running is not on it, though the callback may   *)
(* have added, changed or deleted it (timer_add, timer_run).               *)
TimersInOrder ==
  /\ \A i, j \in DOMAIN queue : i < j => queue[i] # queue[j] /\ timer[queue[i]].expire <= timer[queue[j]].expire
  /\ \A t \in Timers : (\E k \in DOMAIN queue : queue[k] = t) <=> (timer[t].active /\ ~timer[t].marked)

(* What the loop holds is alive and the timers are in order, though        *)
(* handlers delete, add and change sockets and timers while the loop is    *)
(* busy with them (event_execute, timer_run).                              *)
EventsHold == HeldIsAlive /\ TimersInOrder
=============================================================================
