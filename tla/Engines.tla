------------------------------ MODULE Engines -------------------------------
(***************************************************************************)
(* The other engines of the event loop: engine_poll.c, engine_select.c,    *)
(* engine_kqueue.c and engine_devpoll.c (engine_epoll.c is in Events).     *)
(* Each keeps a table of sockets and a copy of what the kernel is to       *)
(* report, changed by differences; while a round of reports is handled the *)
(* callbacks add, change and delete sockets, and descriptors are reused.   *)
(***************************************************************************)
EXTENDS Naturals, Sequences, FiniteSets, SequencesExt

CONSTANTS
  EngineSet,   \* engines: poll, select, kqueue, devpoll
  Structs,     \* struct Socket
  Fds,         \* descriptors, 1..n; also the slots of the poll engine
  Calls        \* bound: calls of a callback

(* Descriptors are 1 to n, 0 is no socket; the listening socket is there.  *)
ASSUME EnginesAssumption ==
  /\ IsFiniteSet(Fds) /\ Fds = 1..Cardinality(Fds) /\ 1 \in Fds
  /\ Structs \subseteq Nat \ {0} /\ 1 \in Structs
  /\ EngineSet \subseteq {"poll", "select", "kqueue", "devpoll"}

VARIABLES
  eng,       \* the engine
  sk,        \* the sockets
  list,      \* sockList, by slot (poll) or by descriptor
  top,       \* poll_count, highest_fd + 1
  mask,      \* pollfdList[].events, the global sets, the kernel's filters
  rev,       \* pollfdList[].revents, read_set and write_set: [who, k]
  evs,       \* events of kqueue and polls of /dev/poll: [fd, k, who]
  step,      \* wait, scan, gen or call
  i, nfds,   \* of engine_loop
  hand,      \* the socket in hand
  plan,      \* what is still done with it
  used       \* calls made by the callback that runs

gvars == <<eng, sk, list, top, mask, rev, evs, step, i, nfds, hand, plan, used>>
-----------------------------------------------------------------------------
NoSocket == [active |-> FALSE, destroy |-> FALSE, ref |-> 0, state |-> "CONNECTED", want |-> {}, fd |-> 0, slot |-> 0]
Opened(st, fd, k) == [active |-> TRUE, destroy |-> FALSE, ref |-> 0, state |-> st, want |-> {"IN"}, fd |-> fd, slot |-> k]
Live(s) == sk[s].active /\ ~sk[s].destroy
Scans == eng \in {"poll", "select"}

state_to_events(s) ==
  CASE sk[s].state = "CONNECTING" -> {"OUT"} [] sk[s].state = "LISTENING" -> {"IN"} [] OTHER -> sk[s].want
(* The bits that differ between what was wanted and what is wanted are     *)
(* turned over; /dev/poll forgets the descriptor and writes the whole mask.*)
set_or_clear(m, clear, set) == (m \ (clear \ set)) \cup (set \ clear)
set_events(set) == set
Changed(m, clear, set) == IF eng = "devpoll" THEN set_events(set) ELSE set_or_clear(m, clear, set)

(* engine_add: the first free slot of poll's list, if there is one; the    *)
(* others have one for each descriptor.                                    *)
PollSlot ==
  IF \E k \in 1..top : list[k] = 0 THEN CHOOSE k \in 1..top : list[k] = 0 /\ \A j \in 1..(k - 1) : list[j] # 0
  ELSE top + 1
SlotOf(fd) == IF eng = "poll" THEN PollSlot ELSE fd
engine_add(s, fd, st) ==
  LET k == SlotOf(fd)
      w == IF st = "CONNECTING" THEN {"OUT"} ELSE {"IN"}
  IN  /\ ~sk[s].active /\ \A t \in Structs : Live(t) => sk[t].fd # fd
      /\ k \in Fds /\ list[k] = 0
      /\ sk' = [sk EXCEPT ![s] = Opened(st, fd, k)]
      /\ list' = [list EXCEPT ![k] = s]
      /\ top' = IF k > top THEN k ELSE top
      /\ mask' = [mask EXCEPT ![k] = Changed(@, {}, w)]
      /\ UNCHANGED <<rev, evs>>
engine_state(s) ==
  /\ Live(s) /\ sk[s].state = "CONNECTING"
  /\ mask' = [mask EXCEPT ![sk[s].slot] = Changed(@, {"OUT"}, sk[s].want)]
  /\ sk' = [sk EXCEPT ![s].state = "CONNECTED"]
  /\ UNCHANGED <<list, top, rev, evs>>
engine_events(s, W) ==
  /\ Live(s) /\ sk[s].state = "CONNECTED" /\ sk[s].want # W
  /\ mask' = [mask EXCEPT ![sk[s].slot] = Changed(@, sk[s].want, W)]
  /\ sk' = [sk EXCEPT ![s].want = W]
  /\ UNCHANGED <<list, top, rev, evs>>

(* The entries of a deleted socket are overwritten by the last one, which  *)
(* is then not looked at.                                                  *)
Overwrite(q, fd) ==
  LET Step(a, k) == IF k <= Len(a) /\ a[k].fd = fd
                    THEN SubSeq([a EXCEPT ![k] = a[Len(a)]], 1, Len(a) - 1) ELSE a
  IN  FoldLeft(Step, q, [k \in DOMAIN q |-> k])
Trimmed(l, n) == IF \E k \in 1..n : l[k] # 0 THEN CHOOSE k \in 1..n : l[k] # 0 /\ \A j \in (k + 1)..n : l[j] = 0 ELSE 0
(* Mutant: what the socket wanted stays in the table. *)
DeleteKeepsMask(s) ==
  LET k == sk[s].slot
      l == [list EXCEPT ![k] = 0]
  IN  /\ Live(s)
      /\ list' = l /\ top' = Trimmed(l, top)
      /\ mask' = mask
      /\ evs' = Overwrite(evs, sk[s].fd)
      /\ sk' = IF sk[s].ref = 0 THEN [sk EXCEPT ![s] = NoSocket] ELSE [sk EXCEPT ![s].destroy = TRUE]
      /\ UNCHANGED rev
(* engine_delete; the owner closes the descriptor, socket_del frees the    *)
(* structure unless it is held.                                            *)
engine_delete(s) ==
  LET k == sk[s].slot
      l == [list EXCEPT ![k] = 0]
  IN  /\ Live(s)
      /\ list' = l /\ top' = Trimmed(l, top)
      /\ mask' = [mask EXCEPT ![k] = {}]
      /\ evs' = Overwrite(evs, sk[s].fd)
      /\ sk' = IF sk[s].ref = 0 THEN [sk EXCEPT ![s] = NoSocket] ELSE [sk EXCEPT ![s].destroy = TRUE]
      /\ UNCHANGED rev
-----------------------------------------------------------------------------
(* The kernel's answer: each slot's part of what was asked, a hang-up, or  *)
(* nothing.  poll() counts the slots and writes no entry past poll_count,  *)
(* select() counts the bits; kqueue reports each filter by itself.         *)
Answers(k) == IF list[k] = 0 THEN {{}} ELSE (SUBSET mask[k]) \cup (IF eng \in {"poll", "devpoll"} THEN {{"HUP"}} ELSE {})
Quiet == [k \in Fds |-> [who |-> 0, k |-> {}]]
PollReports(f) == [k \in Fds |-> IF k <= top THEN [who |-> list[k], k |-> f[k]] ELSE rev[k]]
SelectReports(f) == [k \in Fds |-> [who |-> list[k], k |-> f[k]]]
Ready(f) == {x \in Fds \X {"IN", "OUT", "HUP"} : x[2] \in f[x[1]]}
KqueueReports(f) == {[fd |-> x[1], k |-> {x[2]}, who |-> list[x[1]]] : x \in Ready(f)}
DevpollReports(f) == {[fd |-> k, k |-> f[k], who |-> list[k]] : k \in {x \in Fds : f[x] # {}}}
SelectCount(f) == Cardinality(IF eng = "select" THEN Ready(f) ELSE {x[1] : x \in Ready(f)})
engine_wait ==
  /\ step = "wait" /\ step' = "scan" /\ i' = 1
  /\ \E f \in [Fds -> SUBSET {"IN", "OUT", "HUP"}] :
       /\ \A k \in Fds : f[k] \in Answers(k)
       /\ nfds' = IF Scans THEN SelectCount(f) ELSE nfds
       /\ rev' = CASE eng = "poll" -> PollReports(f) [] eng = "select" -> SelectReports(f) [] OTHER -> rev
       /\ evs' \in CASE eng = "kqueue" -> SetToSeqs(KqueueReports(f)) [] eng = "devpoll" -> SetToSeqs(DevpollReports(f))
                     [] OTHER -> {evs}
  /\ UNCHANGED <<eng, sk, list, top, mask, hand, plan, used>>

(* What is done with a socket that was reported with k; "dec" is the       *)
(* gen_ref_dec at the end, which some paths of each engine do not reach:   *)
(* a hang-up, a connection made (select), nothing to read after all.       *)
Only(k, e, ev) == IF e \in k THEN <<ev, "dec">> ELSE <<"dec">>
Connected(k, peek) ==
  LET out == IF "OUT" \in k THEN <<"WRITE">> ELSE <<>>
  IN  IF "IN" \notin k THEN out \o <<"dec">> ELSE IF peek = "AGAIN" THEN <<>> ELSE <<peek>> \o out \o <<"dec">>
PollPlan(st, k, peek) ==
  IF "HUP" \in k THEN <<"EOF">>
  ELSE CASE st = "CONNECTING" -> Only(k, "OUT", "CONNECT")
         [] st = "LISTENING" -> Only(k, "IN", "ACCEPT")
         [] st = "CONNECTED" -> Connected(k, peek)
SelectPlan(st, k, peek) ==
  CASE st = "CONNECTING" -> IF "OUT" \in k THEN <<"CONNECT">> ELSE <<"dec">>
    [] st = "LISTENING" -> Only(k, "IN", "ACCEPT")
    [] st = "CONNECTED" -> Connected(k, peek)
KqueuePlan(st, k, peek) ==
  CASE st = "CONNECTING" -> Only(k, "OUT", "CONNECT")
    [] st = "LISTENING" -> Only(k, "IN", "ACCEPT")
    [] st = "CONNECTED" -> IF "IN" \in k THEN <<peek, "dec">> ELSE <<"WRITE", "dec">>
DevpollPlan(st, k, peek) == PollPlan(st, k, peek)
Plan(s, k, err, peek) ==
  LET st == sk[s].state
  IN  IF err THEN <<"ERROR", "dec">>
      ELSE CASE eng = "poll" -> PollPlan(st, k, peek) [] eng = "select" -> SelectPlan(st, k, peek)
             [] eng = "kqueue" -> KqueuePlan(st, k, peek) [] eng = "devpoll" -> DevpollPlan(st, k, peek)
Peeks == IF eng = "kqueue" THEN {"READ", "EOF"} ELSE {"READ", "EOF", "ERROR", "AGAIN"}
Take(s, k) ==
  \E err \in BOOLEAN, peek \in Peeks :
    /\ hand' = s /\ plan' = Plan(s, k, err, peek)
    /\ sk' = [sk EXCEPT ![s].ref = @ + 1]
    /\ nfds' = IF (err /\ eng = "poll") \/ (~err /\ plan' \notin {<<>>, <<"dec">>}) THEN nfds - 1 ELSE nfds
    /\ step' = "gen"

(* engine_loop of poll and select: the slots in turn, while reports are left. *)
ScanSlot ==
  /\ step = "scan" /\ Scans /\ nfds > 0 /\ i <= top /\ i' = i + 1
  /\ IF list[i] = 0 THEN UNCHANGED <<sk, hand, plan, nfds, step>> ELSE Take(list[i], rev[i].k)
  /\ UNCHANGED <<eng, list, top, mask, rev, evs, used>>
(* engine_loop of kqueue and /dev/poll: the reports from the last on. *)
NextReport ==
  /\ step = "scan" /\ ~Scans /\ evs # <<>>
  /\ \E fd \in Fds :
       /\ Last(evs).fd = fd
       /\ IF list[fd] = 0 THEN UNCHANGED <<sk, hand, plan, nfds, step>> ELSE Take(list[fd], Last(evs).k)
  /\ evs' = Front(evs)
  /\ UNCHANGED <<eng, list, top, mask, rev, i, used>>
RoundDone ==
  /\ step = "scan" /\ (IF Scans THEN nfds = 0 \/ i > top ELSE evs = <<>>)
  /\ step' = "wait" /\ nfds' = 0 /\ i' = 1
  /\ rev' = IF eng = "select" THEN Quiet ELSE rev
  /\ UNCHANGED <<eng, sk, list, top, mask, evs, hand, plan, used>>

ref_dec(s) == IF sk[s].ref = 1 /\ sk[s].destroy THEN [sk EXCEPT ![s] = NoSocket] ELSE [sk EXCEPT ![s].ref = @ - 1]
Generate ==
  /\ step = "gen" /\ plan # <<>> /\ plan' = Tail(plan)
  /\ IF Head(plan) = "dec" THEN sk' = ref_dec(hand) /\ UNCHANGED <<step, used>>
     ELSE IF sk[hand].destroy THEN UNCHANGED <<sk, step, used>>
     ELSE sk' = [sk EXCEPT ![hand].ref = @ + 1] /\ step' = "call" /\ used' = 0
  /\ UNCHANGED <<eng, list, top, mask, rev, evs, i, nfds, hand>>
Handled ==
  /\ step = "gen" /\ plan = <<>> /\ step' = "scan" /\ hand' = 0
  /\ UNCHANGED <<eng, sk, list, top, mask, rev, evs, i, nfds, plan, used>>
CallbackReturns ==
  /\ step = "call" /\ step' = "gen" /\ used' = 0 /\ sk' = ref_dec(hand)
  /\ UNCHANGED <<eng, list, top, mask, rev, evs, i, nfds, hand, plan>>
CallbackCalls ==
  /\ step = "call" /\ used < Calls /\ used' = used + 1
  /\ \E s \in Structs :
       \/ \E fd \in Fds, st \in {"CONNECTING", "CONNECTED"} : engine_add(s, fd, st)
       \/ engine_delete(s)
       \/ engine_state(s)
       \/ \E W \in {{"IN"}, {"IN", "OUT"}} : engine_events(s, W)
  /\ UNCHANGED <<eng, step, i, nfds, hand, plan>>
-----------------------------------------------------------------------------
EgInit ==
  /\ eng \in EngineSet
  /\ sk = [s \in Structs |-> IF s = 1 THEN Opened("LISTENING", 1, 1) ELSE NoSocket]
  /\ list = [k \in Fds |-> IF k = 1 THEN 1 ELSE 0] /\ top = 1
  /\ mask = [k \in Fds |-> IF k = 1 THEN {"IN"} ELSE {}]
  /\ rev = Quiet /\ evs = <<>> /\ step = "wait" /\ i = 1 /\ nfds = 0 /\ hand = 0 /\ plan = <<>> /\ used = 0

RefsBounded == \A s \in Structs : sk'[s].ref <= 3
EgNext ==
  /\ \/ engine_wait \/ ScanSlot \/ NextReport \/ RoundDone
     \/ Generate \/ Handled \/ CallbackReturns \/ CallbackCalls
  /\ RefsBounded
EgSpec == EgInit /\ [][EgNext]_gvars
-----------------------------------------------------------------------------
(* What the kernel is asked to report is what the open sockets want, no    *)
(* more and no less, and the table holds exactly them, within the part of  *)
(* it that is looked at; the socket in hand has not been freed.  So it is  *)
(* through any calls of callbacks and any reuse of slots and descriptors   *)
(* (set_or_clear, engine_add, engine_delete of the four engines).          *)
TableIsKernels ==
  /\ \A k \in Fds : IF list[k] = 0 THEN mask[k] = {}
                    ELSE Live(list[k]) /\ sk[list[k]].slot = k /\ mask[k] = state_to_events(list[k]) /\ k <= top
  /\ \A s \in Structs : Live(s) => list[sk[s].slot] = s
  /\ step \in {"gen", "call"} /\ plan # <<>> => sk[hand].active /\ sk[hand].ref > 0

(* No report of a deleted socket is left: "Drop any unprocessed events     *)
(* citing this socket" (engine_delete of kqueue and /dev/poll).  Does not  *)
(* hold: the report that takes the place of a dropped one is not looked at *)
(* (engine_kqueue.c, line 297).                                            *)
DropsItsEvents == \A k \in DOMAIN evs : list[evs[k].fd] # 0 /\ list[evs[k].fd] = evs[k].who
=============================================================================
