---------------------------- MODULE EnginesProofs ----------------------------
(***************************************************************************)
(* The table of an engine is the kernel's (engine_poll.c, engine_select.c, *)
(* engine_kqueue.c, engine_devpoll.c), for any number of sockets and       *)
(* descriptors and any number of calls of a callback.                      *)
(*                                                                         *)
(* The invariant that is proved adds to the statement what the handling of *)
(* one socket needs: a reference is held for the work that is left with it *)
(* and one more while its callback runs, the gen_ref_dec of the engine is  *)
(* the last thing that is done, and so the structure in hand is not freed  *)
(* by a callback that deletes it, nor given to another socket.             *)
(***************************************************************************)
EXTENDS Engines, SequenceTheorems, FiniteSetTheorems, WellFoundedInduction, TLAPS

Kinds == {"poll", "select", "kqueue", "devpoll"}
Sock == [active : BOOLEAN, destroy : BOOLEAN, ref : Nat, state : {"CONNECTING", "LISTENING", "CONNECTED"},
         want : SUBSET {"IN", "OUT"}, fd : Nat, slot : Nat]
Generated == {"CONNECT", "ACCEPT", "READ", "WRITE", "EOF", "ERROR", "AGAIN"}
Plans ==
  {<<>>, <<"dec">>} \cup {<<e>> : e \in Generated} \cup {<<e, "dec">> : e \in Generated}
    \cup {<<x[1], x[2], "dec">> : x \in Generated \X Generated}

(* The assumptions: descriptors are 1 to n, 0 is no socket, and the        *)
(* listening socket is there.                                              *)
Sized(n) == n \in Nat /\ n >= 1 /\ Fds = 1..n /\ Structs \subseteq Nat \ {0} /\ 1 \in Structs /\ EngineSet \subseteq Kinds

Types ==
  /\ eng \in Kinds
  /\ sk \in [Structs -> Sock]
  /\ list \in [Fds -> Structs \cup {0}]
  /\ mask \in [Fds -> SUBSET {"IN", "OUT"}]
  /\ top \in Nat /\ 1..top \subseteq Fds /\ \A k \in Fds : list[k] # 0 => k <= top
  /\ i \in Nat /\ i >= 1
Listed(k) == Live(list[k]) /\ sk[list[k]].slot = k /\ mask[k] = state_to_events(list[k])
Table ==
  /\ \A k \in Fds : IF list[k] = 0 THEN mask[k] = {} ELSE Listed(k)
  /\ \A s \in Structs : Live(s) => sk[s].slot \in Fds /\ list[sk[s].slot] = s
InHand ==
  step \in {"gen", "call"} =>
    /\ hand \in Structs /\ plan \in Plans
    /\ step = "call" \/ plan # <<>> => sk[hand].active /\ sk[hand].ref >= 1
    /\ step = "call" /\ plan # <<>> => sk[hand].ref >= 2
EgInv == Types /\ Table /\ InHand
-----------------------------------------------------------------------------
(* A set of numbers that is not empty has a smallest one.                  *)
LEMMA Smallest ==
  ASSUME NEW T \in SUBSET Nat, T # {}
  PROVE  \E x \in T : \A y \in T : x <= y
<1>1. PICK x \in T : \A y \in T : ~ (<<y, x>> \in OpToRel(<, Nat))
  BY NatLessThanWellFounded, WFMin, ZenonT(60)
<1>2. \A y \in T : ~ (y < x)
  BY <1>1 DEF OpToRel
<1> QED
  BY <1>2

(* And if it is bounded, a greatest one.                                   *)
LEMMA Greatest ==
  ASSUME NEW T \in SUBSET Nat, T # {}, NEW m \in Nat, \A x \in T : x <= m
  PROVE  \E x \in T : \A y \in T : y <= x
<1> DEFINE U == {m - x : x \in T}
<1>1. U \in SUBSET Nat /\ U # {}
  <2>1. \A x \in T : m - x \in Nat
    OBVIOUS
  <2>2. U \subseteq Nat
    BY <2>1
  <2> QED
    BY <2>2
<1>2. PICK u \in U : \A y \in U : u <= y
  BY <1>1, Smallest
<1>3. PICK x \in T : u = m - x
  BY <1>2
<1> QED
  BY <1>2, <1>3, SMTT(60)

(* Trimmed: the last slot in use, so that no socket is past the part of    *)
(* the table that is looked at.                                            *)
LEMMA TrimmedIs ==
  ASSUME NEW l, NEW m \in Nat
  PROVE  /\ Trimmed(l, m) \in 0..m
         /\ \A k \in 1..m : l[k] # 0 => k <= Trimmed(l, m)
<1>1. CASE ~ \E k \in 1..m : l[k] # 0
  BY <1>1 DEF Trimmed
<1>2. CASE \E k \in 1..m : l[k] # 0
  <2> DEFINE T == {k \in 1..m : l[k] # 0}
             Q(k) == l[k] # 0 /\ \A j \in (k + 1)..m : l[j] = 0
  <2>1. T \in SUBSET Nat /\ T # {} /\ \A x \in T : x <= m
    BY <1>2
  <2>2. PICK x \in T : \A y \in T : y <= x
    BY <2>1, Greatest
  <2>3. x \in 1..m /\ Q(x)
    BY <2>2
  <2>4. Trimmed(l, m) = CHOOSE k \in 1..m : Q(k)
    BY <1>2 DEF Trimmed
  <2>5. Trimmed(l, m) \in 1..m /\ Q(Trimmed(l, m))
    BY <2>3, <2>4
  <2> QED
    BY <2>5
<1> QED
  BY <1>1, <1>2
-----------------------------------------------------------------------------
(* Two sequences of one are one of two.                                    *)
LEMMA OneAndOne ==
  ASSUME NEW a, NEW b
  PROVE  <<a>> \o <<b>> = <<a, b>>
<1>1. <<a>> \in Seq({a, b}) /\ <<b>> \in Seq({a, b}) /\ <<a, b>> \in Seq({a, b})
  OBVIOUS
<1> DEFINE t == <<a>> \o <<b>>
<1>2. t \in Seq({a, b}) /\ Len(t) = 2 /\ t[1] = a /\ t[2] = b
  BY <1>1
<1>3. Len(<<a, b>>) = 2 /\ <<a, b>>[1] = a /\ <<a, b>>[2] = b
  OBVIOUS
<1> HIDE DEF t
<1>4. \A j \in 1..2 : t[j] = <<a, b>>[j]
  BY <1>2, <1>3
<1> QED
  BY <1>1, <1>2, <1>3, <1>4, SeqEqual DEF t

(* What is planned: one or two events and the gen_ref_dec, or less; the    *)
(* gen_ref_dec is last.                                                    *)
LEMMA PlanIs ==
  ASSUME NEW st \in {"CONNECTING", "LISTENING", "CONNECTED"}, NEW k, NEW peek \in Generated
  PROVE  /\ PollPlan(st, k, peek) \in Plans
         /\ SelectPlan(st, k, peek) \in Plans
         /\ KqueuePlan(st, k, peek) \in Plans
         /\ DevpollPlan(st, k, peek) \in Plans
<1>1. \A e, ev : ev \in Generated => Only(k, e, ev) \in Plans
  BY DEF Only, Plans
<1>2. \A e \in Generated : <<e>> \in Plans /\ <<e, "dec">> \in Plans
  BY DEF Plans
<1>3. <<>> \in Plans /\ <<"dec">> \in Plans /\ <<peek, "WRITE", "dec">> \in Plans
  <2>1. <<peek, "WRITE">> \in Generated \X Generated
    BY DEF Generated
  <2>2. \A x \in Generated \X Generated : <<x[1], x[2], "dec">> \in Plans
    BY DEF Plans
  <2>3. <<peek, "WRITE">>[1] = peek /\ <<peek, "WRITE">>[2] = "WRITE"
    OBVIOUS
  <2>4. <<peek, "WRITE", "dec">> \in Plans
    BY <2>1, <2>2, <2>3, Zenon
  <2> QED
    BY <2>4 DEF Plans
<1>4. Connected(k, peek) \in Plans
  <2>1. Connected(k, peek) \in {<<"dec">>, <<"WRITE", "dec">>, <<>>, <<peek, "dec">>, <<peek, "WRITE", "dec">>}
    <3>1. CASE "IN" \notin k /\ "OUT" \in k
      <4>1. Connected(k, peek) = <<"WRITE">> \o <<"dec">>
        BY <3>1 DEF Connected
      <4>2. <<"WRITE">> \o <<"dec">> = <<"WRITE", "dec">>
        BY OneAndOne
      <4> QED
        BY <4>1, <4>2
    <3>2. CASE "IN" \notin k /\ "OUT" \notin k
      <4>1. Connected(k, peek) = <<>> \o <<"dec">>
        BY <3>2 DEF Connected
      <4>2. <<"dec">> \in Seq({"dec"})
        OBVIOUS
      <4>3. <<>> \o <<"dec">> = <<"dec">>
        BY <4>2, ConcatEmptySeq
      <4> QED
        BY <4>1, <4>3
    <3>3. CASE "IN" \in k /\ "OUT" \in k
      <4>1. Connected(k, peek) = <<>> \/ Connected(k, peek) = <<peek>> \o <<"WRITE">> \o <<"dec">>
        BY <3>3 DEF Connected
      <4> QED
        BY <4>1
    <3>4. CASE "IN" \in k /\ "OUT" \notin k
      <4>1. Connected(k, peek) = <<>> \/ Connected(k, peek) = <<peek>> \o <<>> \o <<"dec">>
        BY <3>4 DEF Connected
      <4> QED
        BY <4>1
    <3> QED
      BY <3>1, <3>2, <3>3, <3>4
  <2> QED
    BY <1>2, <1>3, <2>1 DEF Generated
<1>5. {"CONNECT", "ACCEPT", "EOF", "WRITE"} \subseteq Generated
  BY DEF Generated
<1>6. PollPlan(st, k, peek) \in Plans
  BY <1>1, <1>2, <1>4, <1>5 DEF PollPlan
<1>7. SelectPlan(st, k, peek) \in Plans
  BY <1>1, <1>2, <1>3, <1>4, <1>5 DEF SelectPlan
<1>8. KqueuePlan(st, k, peek) \in Plans
  BY <1>1, <1>2, <1>5 DEF KqueuePlan
<1> QED
  BY <1>6, <1>7, <1>8 DEF DevpollPlan

(* The rest of a plan is a plan, and nothing is after the gen_ref_dec.     *)
LEMMA PlanRest ==
  ASSUME NEW p \in Plans, p # <<>>
  PROVE  Tail(p) \in Plans /\ (Head(p) = "dec" => Tail(p) = <<>>)
<1>1. CASE p = <<"dec">>
  BY <1>1 DEF Plans
<1>2. ASSUME NEW e \in Generated, p = <<e>> PROVE Tail(p) = <<>>
  BY <1>2
<1>3. ASSUME NEW e \in Generated, p = <<e, "dec">> PROVE Tail(p) = <<"dec">> /\ Head(p) # "dec"
  BY <1>3 DEF Generated
<1>4. ASSUME NEW x \in Generated \X Generated, p = <<x[1], x[2], "dec">>
      PROVE  Tail(p) = <<x[2], "dec">> /\ Head(p) # "dec" /\ x[2] \in Generated
  BY <1>4 DEF Generated
<1> QED
  BY <1>1, <1>2, <1>3, <1>4 DEF Plans
-----------------------------------------------------------------------------
(* The same socket to the table: only references differ.                   *)
Same(s, f) ==
  /\ (f[s].active /\ ~f[s].destroy) <=> Live(s)
  /\ Live(s) => f[s].slot = sk[s].slot /\ f[s].state = sk[s].state /\ f[s].want = sk[s].want

(* Steps that change references, or free a socket that is not live, leave  *)
(* the table right.                                                        *)
LEMMA RefsMove ==
  ASSUME Types, Table, NEW f \in [Structs -> Sock], sk' = f, \A s \in Structs : Same(s, f),
         UNCHANGED <<eng, list, top, mask>>, i' \in Nat, i' >= 1
  PROVE  Types' /\ Table'
<1>1. Types'
  BY DEF Types
<1>2. \A s \in Structs : Live(s)' <=> Live(s)
  BY DEF Same, Live
<1>3. \A s \in Structs : Live(s) => sk'[s].slot = sk[s].slot /\ state_to_events(s)' = state_to_events(s)
  BY DEF Same, state_to_events
<1>4. ASSUME NEW k \in Fds, list[k] # 0 PROVE Listed(k)'
  <2>1. list[k] \in Structs /\ Listed(k) /\ list'[k] = list[k] /\ mask'[k] = mask[k]
    BY <1>4 DEF Types, Table
  <2> QED
    BY <1>2, <1>3, <2>1 DEF Listed
<1>5. \A k \in Fds : IF list'[k] = 0 THEN mask'[k] = {} ELSE Listed(k)'
  BY <1>4 DEF Table
<1>6. \A s \in Structs : Live(s)' => sk'[s].slot \in Fds /\ list'[sk'[s].slot] = s
  BY <1>2, <1>3 DEF Table
<1> QED
  BY <1>1, <1>5, <1>6 DEF Table

(* A reference more is taken of a socket.                                  *)
LEMMA RefTaken ==
  ASSUME Types, NEW s \in Structs
  PROVE  LET f == [sk EXCEPT ![s].ref = @ + 1]
         IN  /\ f \in [Structs -> Sock] /\ \A t \in Structs : Same(t, f)
             /\ f[s].active = sk[s].active /\ f[s].ref = sk[s].ref + 1
<1> DEFINE x == [sk[s] EXCEPT !.ref = @ + 1]
           f == [sk EXCEPT ![s] = x]
<1>1. sk \in [Structs -> Sock] /\ sk[s] \in Sock
  BY DEF Types
<1>2. /\ x \in Sock /\ x.active = sk[s].active /\ x.destroy = sk[s].destroy /\ x.ref = sk[s].ref + 1
      /\ x.slot = sk[s].slot /\ x.state = sk[s].state /\ x.want = sk[s].want
  BY <1>1 DEF Sock
<1> HIDE DEF x
<1>3. f \in [Structs -> Sock] /\ f[s] = x /\ \A t \in Structs : t # s => f[t] = sk[t]
  BY <1>1, <1>2
<1> HIDE DEF f
<1>4. \A t \in Structs : Same(t, f)
  BY <1>2, <1>3 DEF Same, Live
<1>5. f = [sk EXCEPT ![s].ref = @ + 1]
  BY DEF f, x
<1> QED
  BY <1>2, <1>3, <1>4, <1>5

(* A reference is given up: the structure goes with the last one when it   *)
(* was deleted.                                                            *)
LEMMA RefDropped ==
  ASSUME Types, NEW s \in Structs, sk[s].ref >= 1
  PROVE  LET f == ref_dec(s)
         IN  /\ f \in [Structs -> Sock] /\ \A t \in Structs : Same(t, f)
             /\ sk[s].active /\ sk[s].ref >= 2 => f[s].active /\ f[s].ref = sk[s].ref - 1
<1> DEFINE x == IF sk[s].ref = 1 /\ sk[s].destroy THEN NoSocket ELSE [sk[s] EXCEPT !.ref = @ - 1]
           f == [sk EXCEPT ![s] = x]
<1>1. sk \in [Structs -> Sock] /\ sk[s] \in Sock
  BY DEF Types
<1>2. CASE sk[s].ref = 1 /\ sk[s].destroy
  <2>1. x = NoSocket /\ NoSocket \in Sock /\ ~NoSocket.active
    BY <1>2 DEF NoSocket, Sock
  <2> HIDE DEF x
  <2>2. f \in [Structs -> Sock] /\ f[s] = NoSocket /\ \A t \in Structs : t # s => f[t] = sk[t]
    BY <1>1, <2>1
  <2>3. f = ref_dec(s)
    BY <1>2, <2>1 DEF ref_dec
  <2> HIDE DEF f
  <2>4. \A t \in Structs : Same(t, f)
    BY <1>2, <2>1, <2>2 DEF Same, Live
  <2> QED
    BY <1>2, <2>2, <2>3, <2>4
<1>3. CASE ~(sk[s].ref = 1 /\ sk[s].destroy)
  <2>1. x = [sk[s] EXCEPT !.ref = @ - 1]
    BY <1>3
  <2>2. /\ x \in Sock /\ x.active = sk[s].active /\ x.destroy = sk[s].destroy /\ x.ref = sk[s].ref - 1
        /\ x.slot = sk[s].slot /\ x.state = sk[s].state /\ x.want = sk[s].want
    <3>1. sk[s].ref - 1 \in Nat
      BY <1>1 DEF Sock
    <3> QED
      BY <1>1, <2>1, <3>1 DEF Sock
  <2>3. f = ref_dec(s)
    BY <1>3, <2>1 DEF ref_dec
  <2> HIDE DEF x
  <2>4. f \in [Structs -> Sock] /\ f[s] = x /\ \A t \in Structs : t # s => f[t] = sk[t]
    BY <1>1, <2>2
  <2> HIDE DEF f
  <2>5. \A t \in Structs : Same(t, f)
    BY <2>2, <2>4 DEF Same, Live
  <2> QED
    BY <2>2, <2>3, <2>4, <2>5
<1> QED
  BY <1>2, <1>3
-----------------------------------------------------------------------------
(* A socket of the table is taken in hand: a reference is held for what is *)
(* planned.                                                                *)
LEMMA TakeKeeps ==
  ASSUME EgInv, NEW s \in Structs, sk[s].active, NEW k, Take(s, k),
         UNCHANGED <<eng, list, top, mask>>, i' \in Nat, i' >= 1
  PROVE  EgInv'
<1>1. PICK err \in BOOLEAN, peek \in Peeks :
         /\ hand' = s /\ plan' = Plan(s, k, err, peek)
         /\ sk' = [sk EXCEPT ![s].ref = @ + 1] /\ step' = "gen"
  BY DEF Take
<1>2. /\ sk' \in [Structs -> Sock] /\ \A t \in Structs : Same(t, sk')
      /\ sk'[s].active = sk[s].active /\ sk'[s].ref = sk[s].ref + 1
  BY <1>1, RefTaken DEF EgInv
<1>3. Types' /\ Table'
  BY <1>2, RefsMove DEF EgInv
<1>4. plan' \in Plans
  <2>1. peek \in Generated /\ "ERROR" \in Generated
    BY DEF Peeks, Generated
  <2>2. sk[s].state \in {"CONNECTING", "LISTENING", "CONNECTED"} /\ eng \in Kinds
    BY DEF EgInv, Types, Sock
  <2>3. <<"ERROR", "dec">> \in Plans
    BY <2>1 DEF Plans
  <2> QED
    BY <1>1, <2>1, <2>2, <2>3, PlanIs DEF Plan, Kinds
<1>5. sk[s].ref \in Nat
  BY DEF EgInv, Types, Sock
<1>6. InHand'
  BY <1>1, <1>2, <1>4, <1>5 DEF InHand
<1> QED
  BY <1>3, <1>6 DEF EgInv

(* Nothing of the table or of the socket in hand changes.                  *)
LEMMA TableStays ==
  ASSUME EgInv, UNCHANGED <<eng, sk, list, top, mask>>, i' \in Nat, i' >= 1
  PROVE  Types' /\ Table'
BY DEF EgInv, Types, Table, Listed, Live, state_to_events

(* engine_loop of poll and select looks at a slot.                         *)
LEMMA ScanKeeps ==
  ASSUME EgInv, ScanSlot
  PROVE  EgInv'
<1>1. UNCHANGED <<eng, list, top, mask>> /\ i' \in Nat /\ i' >= 1 /\ i \in Fds /\ step = "scan"
  BY DEF ScanSlot, EgInv, Types
<1>2. CASE list[i] = 0
  <2>1. UNCHANGED <<sk, step>>
    BY <1>2 DEF ScanSlot
  <2> QED
    BY <1>1, <2>1, TableStays DEF EgInv, InHand
<1>3. CASE list[i] # 0
  <2>1. list[i] \in Structs /\ sk[list[i]].active
    BY <1>1, <1>3 DEF EgInv, Types, Table, Listed, Live
  <2>2. Take(list[i], rev[i].k)
    BY <1>3 DEF ScanSlot
  <2> QED
    BY <1>1, <2>1, <2>2, TakeKeeps
<1> QED
  BY <1>2, <1>3

(* engine_loop of kqueue and /dev/poll takes a report.                     *)
LEMMA ReportKeeps ==
  ASSUME EgInv, NextReport
  PROVE  EgInv'
<1>1. UNCHANGED <<eng, list, top, mask>> /\ i' \in Nat /\ i' >= 1 /\ step = "scan"
  BY DEF NextReport, EgInv, Types
<1>2. PICK fd \in Fds : IF list[fd] = 0 THEN UNCHANGED <<sk, hand, plan, nfds, step>> ELSE Take(list[fd], Last(evs).k)
  BY DEF NextReport
<1>3. CASE list[fd] = 0
  <2>1. UNCHANGED <<sk, step>>
    BY <1>2, <1>3
  <2> QED
    BY <1>1, <2>1, TableStays DEF EgInv, InHand
<1>4. CASE list[fd] # 0
  <2>1. list[fd] \in Structs /\ sk[list[fd]].active
    BY <1>4 DEF EgInv, Types, Table, Listed, Live
  <2> QED
    BY <1>1, <1>2, <1>4, <2>1, TakeKeeps
<1> QED
  BY <1>3, <1>4

(* A round begins, a round ends, a socket is done with.                    *)
LEMMA RoundKeeps ==
  ASSUME EgInv, engine_wait \/ RoundDone \/ Handled
  PROVE  EgInv'
<1>1. UNCHANGED <<eng, sk, list, top, mask>> /\ i' \in Nat /\ i' >= 1 /\ step' \in {"scan", "wait"}
  BY DEF engine_wait, RoundDone, Handled, EgInv, Types
<1> QED
  BY <1>1, TableStays DEF EgInv, InHand

(* The next thing that is planned: an event, unless the socket was         *)
(* deleted, or the gen_ref_dec.                                            *)
LEMMA GenerateKeeps ==
  ASSUME EgInv, Generate
  PROVE  EgInv'
<1>1. /\ step = "gen" /\ plan # <<>> /\ plan' = Tail(plan) /\ UNCHANGED <<eng, list, top, mask, i, hand>>
      /\ hand \in Structs /\ plan \in Plans /\ sk[hand].active /\ sk[hand].ref >= 1 /\ sk[hand].ref \in Nat
      /\ i' \in Nat /\ i' >= 1
  BY DEF Generate, EgInv, InHand, Types, Sock
<1>2. plan' \in Plans /\ (Head(plan) = "dec" => plan' = <<>>)
  BY <1>1, PlanRest
<1>3. CASE Head(plan) = "dec"
  <2>1. sk' = ref_dec(hand) /\ UNCHANGED step
    BY <1>3 DEF Generate
  <2>2. sk' \in [Structs -> Sock] /\ \A t \in Structs : Same(t, sk')
    BY <1>1, <2>1, RefDropped DEF EgInv
  <2>3. Types' /\ Table'
    BY <1>1, <2>2, RefsMove DEF EgInv
  <2>4. InHand'
    BY <1>1, <1>2, <1>3, <2>1 DEF InHand
  <2> QED
    BY <2>3, <2>4 DEF EgInv
<1>4. CASE Head(plan) # "dec" /\ sk[hand].destroy
  <2>1. UNCHANGED <<sk, step>>
    BY <1>4 DEF Generate
  <2>2. InHand'
    BY <1>1, <1>2, <2>1 DEF InHand
  <2> QED
    BY <1>1, <2>1, <2>2, TableStays DEF EgInv
<1>5. CASE Head(plan) # "dec" /\ ~sk[hand].destroy
  <2>1. sk' = [sk EXCEPT ![hand].ref = @ + 1] /\ step' = "call"
    BY <1>5 DEF Generate
  <2>2. /\ sk' \in [Structs -> Sock] /\ \A t \in Structs : Same(t, sk')
        /\ sk'[hand].active = sk[hand].active /\ sk'[hand].ref = sk[hand].ref + 1
    BY <1>1, <2>1, RefTaken DEF EgInv
  <2>3. Types' /\ Table'
    BY <1>1, <2>2, RefsMove DEF EgInv
  <2>4. InHand'
    BY <1>1, <1>2, <2>1, <2>2 DEF InHand
  <2> QED
    BY <2>3, <2>4 DEF EgInv
<1> QED
  BY <1>3, <1>4, <1>5

(* The callback returns: the reference of the work left stays.             *)
LEMMA ReturnKeeps ==
  ASSUME EgInv, CallbackReturns
  PROVE  EgInv'
<1>1. /\ step = "call" /\ step' = "gen" /\ sk' = ref_dec(hand) /\ UNCHANGED <<eng, list, top, mask, i, hand, plan>>
      /\ hand \in Structs /\ plan \in Plans /\ sk[hand].active /\ sk[hand].ref >= 1 /\ sk[hand].ref \in Nat
      /\ plan # <<>> => sk[hand].ref >= 2
      /\ i' \in Nat /\ i' >= 1
  BY DEF CallbackReturns, EgInv, InHand, Types, Sock
<1>2. /\ sk' \in [Structs -> Sock] /\ \A t \in Structs : Same(t, sk')
      /\ sk[hand].active /\ sk[hand].ref >= 2 => sk'[hand].active /\ sk'[hand].ref = sk[hand].ref - 1
  BY <1>1, RefDropped DEF EgInv
<1>3. Types' /\ Table'
  BY <1>1, <1>2, RefsMove DEF EgInv
<1>4. InHand'
  BY <1>1, <1>2 DEF InHand
<1> QED
  BY <1>3, <1>4 DEF EgInv
-----------------------------------------------------------------------------
(* The calls of a callback.  A structure that is held is neither freed nor *)
(* opened again.                                                           *)
Kept == \A t \in Structs : sk[t].active /\ sk[t].ref >= 1 => sk'[t].active /\ sk'[t].ref = sk[t].ref

(* Turning over what differs between the old and the new wish gives the    *)
(* new one, if the table had the old one.                                  *)
LEMMA ChangedIs ==
  ASSUME NEW old, NEW new
  PROVE  Changed(old, old, new) = new
BY DEF Changed, set_events, set_or_clear

(* A socket is opened in a free slot.                                      *)
LEMMA AddKeeps ==
  ASSUME NEW n, Sized(n), EgInv, NEW s \in Structs, NEW fd \in Fds, NEW st \in {"CONNECTING", "CONNECTED"},
         engine_add(s, fd, st), UNCHANGED <<eng, i>>
  PROVE  Types' /\ Table' /\ Kept
<1> DEFINE k == SlotOf(fd)
           w == IF st = "CONNECTING" THEN {"OUT"} ELSE {"IN"}
           x == Opened(st, fd, k)
           m == Changed(mask[k], {}, w)
<1>1. /\ ~sk[s].active /\ k \in Fds /\ list[k] = 0
      /\ sk' = [sk EXCEPT ![s] = x] /\ list' = [list EXCEPT ![k] = s]
      /\ top' = (IF k > top THEN k ELSE top) /\ mask' = [mask EXCEPT ![k] = m]
  BY DEF engine_add
<1>2. k \in Nat /\ k >= 1 /\ fd \in Nat /\ s # 0 /\ Fds = 1..n /\ n \in Nat
  BY <1>1 DEF Sized
<1>3. /\ x \in Sock /\ x.active /\ ~x.destroy /\ x.state = st /\ x.want = {"IN"} /\ x.slot = k
  BY <1>2 DEF Opened, Sock
<1>4. m = w
  BY <1>1, ChangedIs, ZenonT(60) DEF EgInv, Table
<1> HIDE DEF x, m, k
<1>5. /\ sk' \in [Structs -> Sock] /\ sk'[s] = x /\ \A t \in Structs : t # s => sk'[t] = sk[t]
      /\ list' \in [Fds -> Structs \cup {0}] /\ list'[k] = s /\ \A j \in Fds : j # k => list'[j] = list[j]
      /\ mask' \in [Fds -> SUBSET {"IN", "OUT"}] /\ mask'[k] = w /\ \A j \in Fds : j # k => mask'[j] = mask[j]
  BY <1>1, <1>3, <1>4 DEF EgInv, Types
<1>6. Types'
  <2>1. top' \in Nat /\ 1..top' \subseteq Fds
    BY <1>1, <1>2, SMTT(60) DEF EgInv, Types
  <2>2. \A j \in Fds : list'[j] # 0 => j <= top'
    BY <1>1, <1>2, <1>5 DEF EgInv, Types
  <2> QED
    BY <1>5, <2>1, <2>2 DEF EgInv, Types
<1>7. ~Live(s) /\ \A t \in Structs : t # s => (Live(t)' <=> Live(t)) /\ state_to_events(t)' = state_to_events(t)
  BY <1>1, <1>5 DEF Live, state_to_events
<1>8. Live(s)' /\ sk'[s].slot = k /\ state_to_events(s)' = w
  BY <1>3, <1>5 DEF Live, state_to_events
<1>9. ASSUME NEW j \in Fds PROVE IF list'[j] = 0 THEN mask'[j] = {} ELSE Listed(j)'
  <2>1. CASE j = k
    BY <1>2, <1>5, <1>8, <2>1 DEF Listed
  <2>2. CASE j # k /\ list[j] = 0
    BY <1>5, <2>2 DEF EgInv, Table
  <2>3. CASE j # k /\ list[j] # 0
    <3>1. Listed(j) /\ list[j] \in Structs /\ list[j] # s /\ list'[j] = list[j] /\ mask'[j] = mask[j]
      BY <1>5, <1>7, <2>3 DEF EgInv, Table, Types, Listed
    <3>2. sk'[list[j]] = sk[list[j]]
      BY <1>5, <3>1
    <3> QED
      BY <1>7, <2>3, <3>1, <3>2 DEF Listed
  <2> QED
    BY <2>1, <2>2, <2>3
<1>10. ASSUME NEW t \in Structs, Live(t)' PROVE sk'[t].slot \in Fds /\ list'[sk'[t].slot] = t
  <2>1. CASE t = s
    BY <1>1, <1>5, <1>8, <2>1 DEF k
  <2>2. CASE t # s
    <3>1. Live(t) /\ sk'[t] = sk[t] /\ sk[t].slot \in Fds /\ list[sk[t].slot] = t
      BY <1>5, <1>7, <1>10, <2>2 DEF EgInv, Table
    <3>2. sk[t].slot # k
      BY <1>1, <3>1 DEF Sized, k
    <3> QED
      BY <1>5, <3>1, <3>2
  <2> QED
    BY <2>1, <2>2
<1>11. Kept
  BY <1>1, <1>5 DEF Kept
<1> QED
  BY <1>6, <1>9, <1>10, <1>11 DEF Table

(* What a live socket wants changes, and the kernel's part of the table    *)
(* with it (engine_state, engine_events).                                  *)
LEMMA WishKeeps ==
  ASSUME NEW n, Sized(n), EgInv, NEW s \in Structs, Live(s), NEW x \in Sock, x.active, ~x.destroy, x.ref = sk[s].ref, x.slot = sk[s].slot,
         sk' = [sk EXCEPT ![s] = x],
         NEW m \in SUBSET {"IN", "OUT"}, mask' = [mask EXCEPT ![sk[s].slot] = m], state_to_events(s)' = m,
         UNCHANGED <<eng, i, list, top>>
  PROVE  Types' /\ Table' /\ Kept
<1> DEFINE k == sk[s].slot
<1>1. k \in Fds /\ list[k] = s
  BY DEF EgInv, Table
<1> HIDE DEF k
<1>2. /\ sk' \in [Structs -> Sock] /\ sk'[s] = x /\ \A t \in Structs : t # s => sk'[t] = sk[t]
      /\ mask' \in [Fds -> SUBSET {"IN", "OUT"}] /\ mask'[k] = m /\ \A j \in Fds : j # k => mask'[j] = mask[j]
  BY <1>1 DEF EgInv, Types, k
<1>3. Types'
  BY <1>2 DEF EgInv, Types
<1>4. /\ \A t \in Structs : Live(t)' <=> Live(t)
      /\ \A t \in Structs : sk'[t].slot = sk[t].slot
      /\ \A t \in Structs : t # s => state_to_events(t)' = state_to_events(t)
  BY <1>2 DEF Live, state_to_events
<1>5. ASSUME NEW j \in Fds PROVE IF list'[j] = 0 THEN mask'[j] = {} ELSE Listed(j)'
  <2>1. CASE list[j] = s
    <3>1. list[j] # 0 => j = k
      BY <2>1 DEF EgInv, Table, Listed, k
    <3>2. s # 0
      BY DEF Sized
    <3>3. j = k
      BY <2>1, <3>1, <3>2
    <3> QED
      BY <1>1, <1>2, <1>4, <2>1, <3>2, <3>3 DEF Listed, k
  <2>2. CASE list[j] = 0
    BY <1>1, <1>2, <2>1, <2>2 DEF EgInv, Table
  <2>3. CASE list[j] # s /\ list[j] # 0
    <3>1. Listed(j) /\ list[j] \in Structs /\ list'[j] = list[j] /\ j # k
      BY <1>1, <2>3 DEF EgInv, Table, Types
    <3>2. mask'[j] = mask[j]
      BY <1>2, <3>1
    <3> QED
      BY <1>4, <2>3, <3>1, <3>2 DEF Listed
  <2> QED
    BY <2>1, <2>2, <2>3
<1>6. \A t \in Structs : Live(t)' => sk'[t].slot \in Fds /\ list'[sk'[t].slot] = t
  BY <1>4 DEF EgInv, Table
<1>7. Kept
  BY <1>2 DEF Kept
<1> QED
  BY <1>3, <1>5, <1>6, <1>7 DEF Table

(* A connection is made.                                                   *)
LEMMA StateKeeps ==
  ASSUME NEW n, Sized(n), EgInv, NEW s \in Structs, engine_state(s), UNCHANGED <<eng, i>>
  PROVE  Types' /\ Table' /\ Kept
<1> DEFINE k == sk[s].slot
           m == Changed(mask[k], {"OUT"}, sk[s].want)
           x == [sk[s] EXCEPT !.state = "CONNECTED"]
<1>1. Live(s) /\ sk[s].state = "CONNECTING" /\ mask' = [mask EXCEPT ![k] = m] /\ sk' = [sk EXCEPT ![s] = x] /\ UNCHANGED <<list, top>>
  BY DEF engine_state
<1>2. sk[s] \in Sock /\ sk \in [Structs -> Sock]
  BY DEF EgInv, Types
<1>3. x \in Sock /\ x.active = sk[s].active /\ x.destroy = sk[s].destroy /\ x.ref = sk[s].ref /\ x.slot = k /\ x.state = "CONNECTED" /\ x.want = sk[s].want
  BY <1>2 DEF Sock
<1>4. mask[k] = {"OUT"}
  BY <1>1 DEF EgInv, Table, Listed, state_to_events, Sized
<1>5. m = sk[s].want /\ m \in SUBSET {"IN", "OUT"}
  BY <1>2, <1>4, ChangedIs DEF Sock
<1> HIDE DEF x, m
<1>6. sk'[s] = x
  BY <1>1, <1>2
<1>7. state_to_events(s)' = m
  BY <1>3, <1>5, <1>6 DEF state_to_events
<1>8. x.active /\ ~x.destroy
  BY <1>1, <1>3 DEF Live
<1> QED
  BY <1>1, <1>3, <1>5, <1>7, <1>8, WishKeeps

(* What is to be reported of a connection changes.                         *)
LEMMA EventsKeep ==
  ASSUME NEW n, Sized(n), EgInv, NEW s \in Structs, NEW W \in SUBSET {"IN", "OUT"}, engine_events(s, W), UNCHANGED <<eng, i>>
  PROVE  Types' /\ Table' /\ Kept
<1> DEFINE k == sk[s].slot
           m == Changed(mask[k], sk[s].want, W)
           x == [sk[s] EXCEPT !.want = W]
<1>1. Live(s) /\ sk[s].state = "CONNECTED" /\ mask' = [mask EXCEPT ![k] = m] /\ sk' = [sk EXCEPT ![s] = x] /\ UNCHANGED <<list, top>>
  BY DEF engine_events
<1>2. sk[s] \in Sock /\ sk \in [Structs -> Sock]
  BY DEF EgInv, Types
<1>3. x \in Sock /\ x.active = sk[s].active /\ x.destroy = sk[s].destroy /\ x.ref = sk[s].ref /\ x.slot = k /\ x.state = sk[s].state /\ x.want = W
  BY <1>2 DEF Sock
<1>4. mask[k] = sk[s].want
  BY <1>1 DEF EgInv, Table, Listed, state_to_events, Sized
<1>5. m = W
  BY <1>4, ChangedIs
<1> HIDE DEF x, m
<1>6. sk'[s] = x
  BY <1>1, <1>2
<1>7. state_to_events(s)' = m
  BY <1>1, <1>3, <1>5, <1>6 DEF state_to_events
<1>8. x.active /\ ~x.destroy
  BY <1>1, <1>3 DEF Live
<1> QED
  BY <1>1, <1>3, <1>5, <1>7, <1>8, WishKeeps

(* A socket is deleted: its slot is free, and its structure is freed       *)
(* unless it is held.                                                      *)
LEMMA DeleteKeeps ==
  ASSUME NEW n, Sized(n), EgInv, NEW s \in Structs, engine_delete(s), UNCHANGED <<eng, i>>
  PROVE  Types' /\ Table' /\ Kept
<1> DEFINE k == sk[s].slot
           l == [list EXCEPT ![k] = 0]
           x == IF sk[s].ref = 0 THEN NoSocket ELSE [sk[s] EXCEPT !.destroy = TRUE]
<1>1. /\ Live(s) /\ list' = l /\ top' = Trimmed(l, top) /\ mask' = [mask EXCEPT ![k] = {}]
      /\ sk' = IF sk[s].ref = 0 THEN [sk EXCEPT ![s] = NoSocket] ELSE [sk EXCEPT ![s].destroy = TRUE]
  BY DEF engine_delete
<1>2. sk[s] \in Sock /\ sk \in [Structs -> Sock] /\ k \in Fds /\ list[k] = s /\ s # 0 /\ Fds = 1..n /\ n \in Nat
  BY <1>1 DEF EgInv, Types, Table, Sized
<1>3. sk' = [sk EXCEPT ![s] = x]
  BY <1>1, <1>2
<1>4. x \in Sock /\ ~(x.active /\ ~x.destroy) /\ (sk[s].ref >= 1 => x.active = sk[s].active /\ x.ref = sk[s].ref)
  <2>1. NoSocket \in Sock /\ ~NoSocket.active
    BY DEF NoSocket, Sock
  <2>2. CASE sk[s].ref = 0
    BY <2>1, <2>2
  <2>3. CASE sk[s].ref # 0
    BY <1>2, <2>3 DEF Sock
  <2> QED
    BY <2>2, <2>3
<1> HIDE DEF x, k
<1>5. /\ sk' \in [Structs -> Sock] /\ sk'[s] = x /\ \A t \in Structs : t # s => sk'[t] = sk[t]
      /\ l \in [Fds -> Structs \cup {0}] /\ l[k] = 0 /\ \A j \in Fds : j # k => l[j] = list[j]
      /\ mask' \in [Fds -> SUBSET {"IN", "OUT"}] /\ mask'[k] = {} /\ \A j \in Fds : j # k => mask'[j] = mask[j]
  BY <1>1, <1>2, <1>3, <1>4, ZenonT(60) DEF EgInv, Types
<1> HIDE DEF l
<1>6. Types'
  <2>1. top \in Nat /\ 1..top \subseteq Fds /\ \A j \in Fds : list[j] # 0 => j <= top
    BY DEF EgInv, Types
  <2>2. top' \in 0..top /\ \A j \in 1..top : l[j] # 0 => j <= top'
    BY <1>1, <2>1, TrimmedIs
  <2>3. top' \in Nat /\ 1..top' \subseteq Fds
    BY <2>1, <2>2
  <2>4. \A j \in Fds : list'[j] # 0 => j <= top'
    BY <1>1, <1>2, <1>5, <2>1, <2>2
  <2> QED
    BY <1>1, <1>5, <2>3, <2>4 DEF EgInv, Types
<1>7. ~Live(s)' /\ \A t \in Structs : t # s => (Live(t)' <=> Live(t)) /\ state_to_events(t)' = state_to_events(t)
  BY <1>4, <1>5 DEF Live, state_to_events
<1>8. ASSUME NEW j \in Fds PROVE IF list'[j] = 0 THEN mask'[j] = {} ELSE Listed(j)'
  <2>1. CASE j = k \/ list[j] = 0
    BY <1>1, <1>5, <2>1 DEF EgInv, Table
  <2>2. CASE j # k /\ list[j] # 0
    <3>1. Listed(j) /\ list[j] \in Structs /\ list[j] # s /\ list'[j] = list[j] /\ mask'[j] = mask[j]
      BY <1>1, <1>5, <2>2 DEF EgInv, Table, Types, Listed, k
    <3>2. sk'[list[j]] = sk[list[j]]
      BY <1>5, <3>1
    <3> QED
      BY <1>7, <2>2, <3>1, <3>2 DEF Listed
  <2> QED
    BY <2>1, <2>2
<1>9. ASSUME NEW t \in Structs, Live(t)' PROVE sk'[t].slot \in Fds /\ list'[sk'[t].slot] = t
  <2>1. t # s /\ Live(t) /\ sk'[t] = sk[t] /\ sk[t].slot \in Fds /\ list[sk[t].slot] = t
    BY <1>5, <1>7, <1>9 DEF EgInv, Table
  <2>2. sk[t].slot # k
    BY <1>2, <2>1
  <2> QED
    BY <1>1, <1>5, <2>1, <2>2
<1>10. Kept
  BY <1>4, <1>5 DEF Kept
<1> QED
  BY <1>6, <1>8, <1>9, <1>10 DEF Table

(* Whatever a callback calls.                                              *)
LEMMA CallKeeps ==
  ASSUME NEW n, Sized(n), EgInv, CallbackCalls
  PROVE  EgInv'
<1>1. step = "call" /\ UNCHANGED <<eng, step, i, hand, plan>>
  BY DEF CallbackCalls
<1>2. PICK s \in Structs :
         \/ \E fd \in Fds, st \in {"CONNECTING", "CONNECTED"} : engine_add(s, fd, st)
         \/ engine_delete(s)
         \/ engine_state(s)
         \/ \E W \in {{"IN"}, {"IN", "OUT"}} : engine_events(s, W)
  BY DEF CallbackCalls
<1>3. Types' /\ Table' /\ Kept
  BY <1>1, <1>2, AddKeeps, DeleteKeeps, StateKeeps, EventsKeep
<1>4. InHand'
  BY <1>1, <1>3 DEF EgInv, InHand, Kept
<1> QED
  BY <1>3, <1>4 DEF EgInv

(* Every step keeps the invariant.                                         *)
LEMMA StepKeeps ==
  ASSUME NEW n, Sized(n), EgInv, [EgNext]_gvars
  PROVE  EgInv'
<1>1. CASE UNCHANGED gvars
  BY <1>1 DEF gvars, EgInv, Types, Table, Listed, Live, state_to_events, InHand
<1>2. CASE EgNext
  BY <1>2, RoundKeeps, ScanKeeps, ReportKeeps, GenerateKeeps, ReturnKeeps, CallKeeps DEF EgNext
<1> QED
  BY <1>1, <1>2

(* It holds initially: the listening socket is open.                       *)
LEMMA ListenerIsListed ==
  ASSUME NEW n, Sized(n), EgInit
  PROVE  EgInv
<1>1. NoSocket \in Sock /\ ~NoSocket.active
  BY DEF NoSocket, Sock
<1> DEFINE x == Opened("LISTENING", 1, 1)
<1>2. x \in Sock /\ x.active /\ ~x.destroy /\ x.slot = 1 /\ x.state = "LISTENING"
  BY DEF Opened, Sock
<1> HIDE DEF x
<1>3. 1 \in Fds /\ 1 \in Structs /\ Fds \subseteq Nat
  BY DEF Sized
<1>4. /\ sk = [s \in Structs |-> IF s = 1 THEN x ELSE NoSocket] /\ list = [k \in Fds |-> IF k = 1 THEN 1 ELSE 0] /\ top = 1
      /\ mask = [k \in Fds |-> IF k = 1 THEN {"IN"} ELSE {}] /\ step = "wait" /\ i = 1 /\ eng \in EngineSet
  BY DEF EgInit, x
<1>5. Types
  <2>1. eng \in Kinds /\ sk \in [Structs -> Sock] /\ list \in [Fds -> Structs \cup {0}]
    BY <1>1, <1>2, <1>3, <1>4 DEF Sized
  <2>2. 1..top \subseteq Fds /\ \A k \in Fds : list[k] # 0 => k <= top
    BY <1>3, <1>4
  <2> QED
    BY <1>4, <2>1, <2>2 DEF Types
<1>6. Table
  <2>1. Live(1) /\ state_to_events(1) = {"IN"} /\ sk[1].slot = 1 /\ \A s \in Structs : Live(s) => s = 1
    BY <1>1, <1>2, <1>3, <1>4 DEF Live, state_to_events
  <2> QED
    BY <1>3, <1>4, <2>1 DEF Table, Listed
<1> QED
  BY <1>4, <1>5, <1>6 DEF EgInv, InHand

(* For any number of sockets and descriptors: what the kernel is asked to  *)
(* report is what the open sockets want, the table holds exactly them, and *)
(* the structure in hand of engine_loop is not freed, whatever callbacks   *)
(* add, change and delete in the middle of a round.                        *)
THEOREM TableIsRight == EgSpec => []TableIsKernels
<1>0. PICK n \in Nat : Sized(n)
  <2>1. Cardinality(Fds) \in Nat
    BY EnginesAssumption, FS_CardinalityType
  <2> QED
    BY <2>1, EnginesAssumption DEF Sized, Kinds
<1>1. EgInit => EgInv
  BY <1>0, ListenerIsListed
<1>2. EgInv /\ [EgNext]_gvars => EgInv'
  BY <1>0, StepKeeps
<1>3. EgInv => TableIsKernels
  <2> SUFFICES ASSUME EgInv PROVE TableIsKernels
    OBVIOUS
  <2>1. step \in {"gen", "call"} /\ plan # <<>> => sk[hand].active /\ sk[hand].ref > 0
    <3>1. hand \in Structs => sk[hand].ref \in Nat
      BY DEF EgInv, Types, Sock
    <3> QED
      BY <3>1 DEF EgInv, InHand
  <2> QED
    BY <2>1 DEF EgInv, Types, Table, Listed, TableIsKernels
<1> QED
  BY <1>1, <1>2, <1>3, PTL DEF EgSpec
=============================================================================
